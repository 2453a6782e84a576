------------------------- MODULE SequenceInduction --------------------------
(***************************************************************************)
(* Induction over the naturals and over sequences, in a form that needs no *)
(* operator as a parameter: a statement to be proved by induction is given *)
(* as the set of the numbers it holds for.  With it, what FlattenSeq       *)
(* computes.                                                               *)
(***************************************************************************)
EXTENDS Filters, SequenceTheorems, WellFoundedInduction, TLAPS

(* Every non-empty set of naturals has a least element. *)
LEMMA LeastElement ==
    ASSUME NEW T \in SUBSET Nat, T # {}
    PROVE  \E n \in T : \A m \in T : n <= m
<1>1. PICK x \in T : \A y \in T : ~(<<y, x>> \in OpToRel(<, Nat))
  BY WFMin, NatLessThanWellFounded
<1>2. \A y \in T : ~(y < x)
  BY <1>1 DEF OpToRel
<1> QED
  BY <1>2

(* Induction over the naturals, for a property given as a set. *)
LEMMA SetInduction ==
    ASSUME NEW T, 0 \in T, \A n \in Nat : n \in T => n + 1 \in T
    PROVE  Nat \subseteq T
<1> SUFFICES ASSUME Nat \ T # {} PROVE FALSE
  OBVIOUS
<1>1. PICK n \in Nat \ T : \A m \in Nat \ T : n <= m
  BY LeastElement
<1>2. n # 0 /\ n - 1 \in Nat
  OBVIOUS
<1>3. n - 1 \in T
  BY <1>1, <1>2
<1> QED
  BY <1>2, <1>3

(* Max of a non-empty set of indices is its greatest element. *)
LEMMA MaxIsGreatest ==
    ASSUME NEW n \in Nat, NEW S \in SUBSET (1 .. n), S # {}
    PROVE  Max(S) \in S /\ \A y \in S : Max(S) >= y
<1> DEFINE T == {k \in Nat : \E y \in S : k = n - y}
<1>1. T \in SUBSET Nat /\ T # {}
  <2>1. PICK y \in S : TRUE
    OBVIOUS
  <2>2. n - y \in T
    OBVIOUS
  <2> QED
    BY <2>2
<1>2. PICK k \in T : \A m \in T : k <= m
  BY <1>1, LeastElement
<1>3. PICK x \in S : k = n - x
  BY <1>2
<1>4. ASSUME NEW y \in S PROVE x >= y
  <2>1. n - y \in T
    OBVIOUS
  <2> QED
    BY <1>2, <1>3, <2>1
<1> QED
  BY <1>4 DEF Max

-----------------------------------------------------------------------------
(* FlattenSeq *)

IsFlat(f, seqs, n) ==
    f = [i \in 1 .. n |-> IF i = 1 THEN seqs[i] ELSE f[i - 1] \o seqs[i]]

(* The recursion by which FlattenSeq is defined has a solution. *)
LEMMA FlatExists ==
    ASSUME NEW seqs
    PROVE  \A n \in Nat : \E f : IsFlat(f, seqs, n)
<1> DEFINE T == {n \in Nat : \E f : IsFlat(f, seqs, n)}
<1>1. 0 \in T
  <2> DEFINE f == [i \in 1 .. 0 |-> seqs[i]]
  <2>1. IsFlat(f, seqs, 0)
    BY DEF IsFlat
  <2> QED
    BY <2>1
<1>2. ASSUME NEW n \in Nat, n \in T PROVE n + 1 \in T
  <2>1. PICK f : IsFlat(f, seqs, n)
    BY <1>2
  <2> DEFINE g == [i \in 1 .. n + 1 |->
                     IF i = n + 1 THEN IF i = 1 THEN seqs[i] ELSE f[n] \o seqs[i] ELSE f[i]]
  <2>2. ASSUME NEW i \in 1 .. n + 1
        PROVE  g[i] = IF i = 1 THEN seqs[i] ELSE g[i - 1] \o seqs[i]
    <3>1. CASE i = n + 1 /\ i # 1
      <4>1. n \in 1 .. n + 1 /\ n # n + 1 /\ i - 1 = n
        BY <3>1
      <4>2. g[n] = f[n]
        BY <4>1
      <4> QED
        BY <3>1, <4>1, <4>2
    <3>2. CASE i # n + 1 /\ i # 1
      <4>1. i \in 1 .. n /\ i - 1 \in 1 .. n + 1 /\ i - 1 # n + 1
        BY <3>2
      <4>2. g[i - 1] = f[i - 1] /\ g[i] = f[i]
        BY <3>2, <4>1
      <4>3. f[i] = f[i - 1] \o seqs[i]
        BY <2>1, <3>2, <4>1 DEF IsFlat
      <4> QED
        BY <3>2, <4>2, <4>3
    <3>3. CASE i = 1
      <4>1. CASE n = 0
        BY <3>3, <4>1
      <4>2. CASE n # 0
        <5>1. 1 \in 1 .. n
          BY <4>2
        <5>2. f[1] = seqs[1]
          BY <2>1, <5>1 DEF IsFlat
        <5> QED
          BY <3>3, <4>2, <5>2
      <4> QED
        BY <4>1, <4>2
    <3> QED
      BY <3>1, <3>2, <3>3
  <2>3. IsFlat(g, seqs, n + 1)
    BY <2>2 DEF IsFlat
  <2> QED
    BY <2>3
<1> QED
  BY <1>1, <1>2, SetInduction

(* FlattenSeq, one sequence at a time. *)
LEMMA FlatSteps ==
    ASSUME NEW seqs, Len(seqs) \in Nat, Len(seqs) # 0
    PROVE  \E f : /\ f[1] = seqs[1]
                  /\ \A i \in 2 .. Len(seqs) : f[i] = f[i - 1] \o seqs[i]
                  /\ FlattenSeq(seqs) = f[Len(seqs)]
<1> DEFINE f == CHOOSE h : IsFlat(h, seqs, Len(seqs))
<1>1. IsFlat(f, seqs, Len(seqs))
  BY FlatExists
<1>2. FlattenSeq(seqs) = f[Len(seqs)]
  BY DEF FlattenSeq, IsFlat
<1> HIDE DEF f
<1>3. f[1] = seqs[1]
  <2>1. 1 \in 1 .. Len(seqs)
    OBVIOUS
  <2> QED
    BY <1>1, <2>1 DEF IsFlat
<1>4. ASSUME NEW i \in 2 .. Len(seqs) PROVE f[i] = f[i - 1] \o seqs[i]
  <2>1. i \in 1 .. Len(seqs) /\ i # 1
    OBVIOUS
  <2> QED
    BY <1>1, <2>1 DEF IsFlat
<1> QED
  BY <1>2, <1>3, <1>4

(* Sequences over S flatten to one over S. *)
LEMMA FlatType ==
    ASSUME NEW S, NEW seqs \in Seq(Seq(S))
    PROVE  FlattenSeq(seqs) \in Seq(S)
<1>1. CASE Len(seqs) = 0
  BY <1>1 DEF FlattenSeq
<1>2. CASE Len(seqs) # 0
  <2> DEFINE N == Len(seqs)
  <2>1. PICK f : /\ f[1] = seqs[1]
                 /\ \A i \in 2 .. Len(seqs) : f[i] = f[i - 1] \o seqs[i]
                 /\ FlattenSeq(seqs) = f[Len(seqs)]
    <3>1. Len(seqs) \in Nat
      OBVIOUS
    <3> QED
      BY <1>2, <3>1, FlatSteps
  <2> DEFINE T == {n \in Nat : n + 1 <= N => f[n + 1] \in Seq(S)}
  <2>2. 0 \in T
    <3>1. 1 \in 1 .. N
      BY <1>2
    <3>2. seqs[1] \in Seq(S)
      BY <3>1
    <3> QED
      BY <2>1, <3>2
  <2>3. ASSUME NEW n \in Nat, n \in T PROVE n + 1 \in T
    <3> SUFFICES ASSUME n + 1 + 1 <= N PROVE f[n + 1 + 1] \in Seq(S)
      OBVIOUS
    <3>1. n + 1 + 1 \in 2 .. Len(seqs) /\ (n + 1 + 1) - 1 = n + 1 /\ n + 1 <= N
      OBVIOUS
    <3>2. seqs[n + 1 + 1] \in Seq(S)
      BY <3>1
    <3>3. f[n + 1] \in Seq(S)
      BY <2>3, <3>1
    <3>4. f[n + 1 + 1] = f[n + 1] \o seqs[n + 1 + 1]
      BY <2>1, <3>1
    <3> QED
      BY <3>2, <3>3, <3>4
  <2>4. Nat \subseteq T
    <3> HIDE DEF T
    <3> QED
      BY <2>2, <2>3, SetInduction
  <2>5. N - 1 \in Nat /\ (N - 1) + 1 = N /\ N <= N
    BY <1>2
  <2>6. f[N] \in Seq(S)
    BY <2>4, <2>5
  <2> QED
    BY <2>1, <2>6
<1> QED
  BY <1>1, <1>2

(* One sequence more goes to the end. *)
LEMMA FlatAppend ==
    ASSUME NEW S, NEW seqs \in Seq(Seq(S)), NEW s \in Seq(S)
    PROVE  FlattenSeq(Append(seqs, s)) = FlattenSeq(seqs) \o s
<1> DEFINE U == Seq(S)
           N == Len(seqs)
           more == Append(seqs, s)
<1>1. seqs \in Seq(U) /\ s \in U
  OBVIOUS
<1>2. /\ N \in Nat /\ Len(more) = N + 1 /\ Len(more) \in Nat /\ Len(more) # 0
      /\ more[N + 1] = s
      /\ \A i \in 1 .. N : more[i] = seqs[i]
  <2> HIDE DEF U
  <2> QED
    BY <1>1
<1> HIDE DEF U, more
<1>3. PICK g : /\ g[1] = more[1]
               /\ \A i \in 2 .. Len(more) : g[i] = g[i - 1] \o more[i]
               /\ FlattenSeq(more) = g[Len(more)]
  BY <1>2, FlatSteps
<1>4. CASE N = 0
  <2>1. FlattenSeq(more) = s
    BY <1>2, <1>3, <1>4
  <2>2. FlattenSeq(seqs) = <<>>
    <3>1. FlattenSeq(seqs) = seqs
      BY <1>4 DEF FlattenSeq
    <3>2. seqs = <<>>
      BY <1>1, <1>4
    <3> QED
      BY <3>1, <3>2
  <2>3. <<>> \o s = s
    BY ConcatEmptySeq
  <2> QED
    BY <2>1, <2>2, <2>3 DEF more
<1>5. CASE N # 0
  <2>1. PICK f : /\ f[1] = seqs[1]
                 /\ \A i \in 2 .. Len(seqs) : f[i] = f[i - 1] \o seqs[i]
                 /\ FlattenSeq(seqs) = f[Len(seqs)]
    BY <1>2, <1>5, FlatSteps
  <2> DEFINE T == {n \in Nat : n + 1 <= N => f[n + 1] = g[n + 1]}
  <2>2. 0 \in T
    <3>1. 1 \in 1 .. N
      BY <1>2, <1>5
    <3> QED
      BY <1>2, <1>3, <2>1, <3>1
  <2>3. ASSUME NEW n \in Nat, n \in T PROVE n + 1 \in T
    <3> SUFFICES ASSUME n + 1 + 1 <= N PROVE f[n + 1 + 1] = g[n + 1 + 1]
      OBVIOUS
    <3>1. /\ n + 1 + 1 \in 2 .. Len(seqs) /\ n + 1 + 1 \in 2 .. Len(more)
          /\ n + 1 + 1 \in 1 .. N /\ (n + 1 + 1) - 1 = n + 1 /\ n + 1 <= N
      BY <1>2
    <3>2. f[n + 1] = g[n + 1]
      BY <2>3, <3>1
    <3>3. f[n + 1 + 1] = f[n + 1] \o seqs[n + 1 + 1]
      BY <2>1, <3>1
    <3>4. g[n + 1 + 1] = g[n + 1] \o more[n + 1 + 1]
      BY <1>3, <3>1
    <3>5. more[n + 1 + 1] = seqs[n + 1 + 1]
      BY <1>2, <3>1
    <3> QED
      BY <3>2, <3>3, <3>4, <3>5
  <2>4. Nat \subseteq T
    <3> HIDE DEF T
    <3> QED
      BY <2>2, <2>3, SetInduction
  <2>5. f[N] = g[N]
    <3>1. N - 1 \in Nat /\ (N - 1) + 1 = N /\ N <= N
      BY <1>2, <1>5
    <3> QED
      BY <2>4, <3>1
  <2>6. g[N + 1] = g[N] \o s
    <3>1. N + 1 \in 2 .. Len(more) /\ (N + 1) - 1 = N
      BY <1>2, <1>5
    <3> QED
      BY <1>2, <1>3, <3>1
  <2> QED
    BY <1>2, <1>3, <2>1, <2>5, <2>6 DEF more
<1> QED
  BY <1>4, <1>5

-----------------------------------------------------------------------------
(* Induction over sequences: a set that holds the empty sequence and, with    *)
(* every sequence, the ones longer by one element, holds them all.            *)
LEMMA SeqInduction ==
    ASSUME NEW S, NEW T, <<>> \in T,
           \A s \in Seq(S) : s \in T => \A x \in S : Append(s, x) \in T
    PROVE  Seq(S) \subseteq T
<1> DEFINE N == {n \in Nat : \A s \in Seq(S) : Len(s) = n => s \in T}
<1>1. 0 \in N
  <2>1. \A s \in Seq(S) : Len(s) = 0 => s = <<>>
    OBVIOUS
  <2> QED
    BY <2>1
<1>2. ASSUME NEW n \in Nat, n \in N PROVE n + 1 \in N
  <2> SUFFICES ASSUME NEW s \in Seq(S), Len(s) = n + 1 PROVE s \in T
    OBVIOUS
  <2> DEFINE f == SubSeq(s, 1, n)
             x == s[n + 1]
  <2>1. f \in Seq(S) /\ Len(f) = n /\ x \in S
    OBVIOUS
  <2>2. s = Append(f, x)
    OBVIOUS
  <2> HIDE DEF f, x
  <2> QED
    BY <1>2, <2>1, <2>2
<1>3. Nat \subseteq N
  <2> HIDE DEF N
  <2> QED
    BY <1>1, <1>2, SetInduction
<1> SUFFICES ASSUME NEW s \in Seq(S) PROVE s \in T
  OBVIOUS
<1>4. Len(s) \in Nat
  OBVIOUS
<1> QED
  BY <1>3, <1>4

-----------------------------------------------------------------------------
(* Keep *)

LEMMA ShortSeqs ==
    ASSUME NEW S
    PROVE  /\ <<>> \in Seq(S) /\ Len(<<>>) = 0
           /\ \A x \in S : <<x>> \in Seq(S) /\ Len(<<x>>) = 1 /\ <<x>>[1] = x
<1>1. <<>> \in Seq(S) /\ Len(<<>>) = 0
  BY EmptySeq
<1>2. ASSUME NEW x \in S PROVE <<x>> \in Seq(S) /\ Len(<<x>>) = 1 /\ <<x>>[1] = x
  <2>1. <<x>> \in Seq(S)
    <3>1. Append(<<>>, x) \in Seq(S)
      BY <1>1, AppendProperties
    <3>2. Append(<<>>, x) = <<x>>
      OBVIOUS
    <3> QED
      BY <3>1, <3>2
  <2> QED
    BY <2>1
<1> QED
  BY <1>1, <1>2

LEMMA KeepEmpty ==
    ASSUME NEW V
    PROVE  Keep(<<>>, V) = <<>>
<1> DEFINE e == <<>>
           p == [i \in DOMAIN e |-> IF e[i] \in V THEN <<e[i]>> ELSE <<>>]
<1>1. DOMAIN e = {}
  OBVIOUS
<1>2. p \in [1 .. 0 -> {}]
  BY <1>1
<1>3. Len(p) = 0 /\ p = <<>>
  <2> HIDE DEF p
  <2> QED
    BY <1>2
<1>4. FlattenSeq(p) = p
  <2> HIDE DEF p
  <2> QED
    BY <1>3 DEF FlattenSeq
<1>5. Keep(e, V) = FlattenSeq(p)
  BY DEF Keep
<1> QED
  BY <1>3, <1>4, <1>5

(* The sequences Keep flattens. *)
LEMMA KeepPieces ==
    ASSUME NEW S, NEW s \in Seq(S), NEW V
    PROVE  [i \in DOMAIN s |-> IF s[i] \in V THEN <<s[i]>> ELSE <<>>] \in Seq(Seq(S \cap V))
<1> DEFINE U == Seq(S \cap V)
           p == [i \in DOMAIN s |-> IF s[i] \in V THEN <<s[i]>> ELSE <<>>]
<1>1. p \in [1 .. Len(s) -> U] /\ Len(s) \in Nat
  <2>1. DOMAIN s = 1 .. Len(s) /\ Len(s) \in Nat
    OBVIOUS
  <2>2. ASSUME NEW i \in DOMAIN s PROVE (IF s[i] \in V THEN <<s[i]>> ELSE <<>>) \in U
    <3>1. s[i] \in S
      OBVIOUS
    <3>2. <<>> \in U
      BY ShortSeqs
    <3>3. s[i] \in V => <<s[i]>> \in U
      BY <3>1, ShortSeqs
    <3> HIDE DEF U
    <3> QED
      BY <3>2, <3>3
  <2> HIDE DEF U
  <2> QED
    BY <2>1, <2>2
<1> HIDE DEF U, p
<1>2. p \in Seq(U)
  BY <1>1
<1> QED
  BY <1>2 DEF U, p

LEMMA KeepType ==
    ASSUME NEW S, NEW s \in Seq(S), NEW V
    PROVE  Keep(s, V) \in Seq(S \cap V) /\ Keep(s, V) \in Seq(S)
<1>1. Keep(s, V) \in Seq(S \cap V)
  BY KeepPieces, FlatType DEF Keep
<1> QED
  BY <1>1

LEMMA KeepAppend ==
    ASSUME NEW S, NEW s \in Seq(S), NEW x \in S, NEW V
    PROVE  Keep(Append(s, x), V) = IF x \in V THEN Append(Keep(s, V), x) ELSE Keep(s, V)
<1> DEFINE pick(y) == IF y \in V THEN <<y>> ELSE <<>>
           U == Seq(S \cap V)
           more == Append(s, x)
           p == [i \in DOMAIN s |-> pick(s[i])]
           q == [i \in DOMAIN more |-> pick(more[i])]
<1>1. /\ Len(s) \in Nat /\ DOMAIN s = 1 .. Len(s) /\ DOMAIN more = 1 .. Len(s) + 1
      /\ more \in Seq(S) /\ more[Len(s) + 1] = x /\ \A i \in 1 .. Len(s) : more[i] = s[i]
  OBVIOUS
<1>2. pick(x) \in U
  <2>1. <<>> \in U
    BY ShortSeqs
  <2>2. x \in V => <<x>> \in U
    BY ShortSeqs
  <2> HIDE DEF U
  <2> QED
    BY <2>1, <2>2
<1>3. p \in Seq(U) /\ q \in Seq(U)
  <2>1. p \in Seq(U)
    BY KeepPieces
  <2>2. q \in Seq(U)
    <3> HIDE DEF more
    <3> QED
      BY <1>1, KeepPieces
  <2> QED
    BY <2>1, <2>2
<1>4. DOMAIN p = 1 .. Len(s) /\ DOMAIN q = 1 .. Len(s) + 1
  BY <1>1
<1>5. \A i \in 1 .. Len(s) : q[i] = p[i]
  BY <1>1
<1>6. q[Len(s) + 1] = pick(x)
  BY <1>1
<1> HIDE DEF U, p, q, pick
<1>7. Len(p) = Len(s) /\ Len(q) = Len(s) + 1
  BY <1>1, <1>3, <1>4
<1>8. q = Append(p, pick(x))
  BY <1>1, <1>2, <1>3, <1>5, <1>6, <1>7
<1>9. FlattenSeq(q) = FlattenSeq(p) \o pick(x)
  BY <1>2, <1>3, <1>8, FlatAppend DEF U
<1>10. Keep(s, V) = FlattenSeq(p) /\ Keep(more, V) = FlattenSeq(q)
  BY DEF Keep, p, q, pick
<1>11. Keep(s, V) \in Seq(S)
  BY KeepType
<1> HIDE DEF more
<1>12. CASE x \in V
  BY <1>9, <1>10, <1>11, <1>12, AppendIsConcat DEF pick, more
<1>13. CASE x \notin V
  BY <1>9, <1>10, <1>11, <1>13, ConcatEmptySeq DEF pick, more
<1> QED
  BY <1>12, <1>13

LEMMA KeepConcat ==
    ASSUME NEW S, NEW a \in Seq(S), NEW b \in Seq(S), NEW V
    PROVE  Keep(a \o b, V) = Keep(a, V) \o Keep(b, V)
<1> DEFINE T == {s \in Seq(S) : Keep(a \o s, V) = Keep(a, V) \o Keep(s, V)}
<1>1. <<>> \in T
  <2>1. Keep(a, V) \in Seq(S)
    BY KeepType
  <2>2. a \o <<>> = a /\ Keep(a, V) \o <<>> = Keep(a, V)
    BY <2>1, ConcatEmptySeq
  <2>3. Keep(<<>>, V) = <<>> /\ <<>> \in Seq(S)
    BY KeepEmpty, ShortSeqs
  <2>4. Keep(a \o <<>>, V) = Keep(a, V) \o Keep(<<>>, V)
    BY <2>2, <2>3
  <2> QED
    BY <2>3, <2>4
<1>2. ASSUME NEW s \in Seq(S), s \in T, NEW x \in S PROVE Append(s, x) \in T
  <2>1. a \o Append(s, x) = Append(a \o s, x) /\ a \o s \in Seq(S) /\ Append(s, x) \in Seq(S)
    OBVIOUS
  <2>2. Keep(a, V) \in Seq(S) /\ Keep(s, V) \in Seq(S)
    BY KeepType
  <2>3. Keep(a \o s, V) = Keep(a, V) \o Keep(s, V)
    BY <1>2
  <2>4. Keep(Append(a \o s, x), V) = IF x \in V THEN Append(Keep(a \o s, V), x) ELSE Keep(a \o s, V)
    BY <2>1, KeepAppend
  <2>5. Keep(Append(s, x), V) = IF x \in V THEN Append(Keep(s, V), x) ELSE Keep(s, V)
    BY KeepAppend
  <2>6. Append(Keep(a, V) \o Keep(s, V), x) = Keep(a, V) \o Append(Keep(s, V), x)
    <3> DEFINE A == Keep(a, V)
               B == Keep(s, V)
    <3>1. A \in Seq(S) /\ B \in Seq(S)
      BY <2>2
    <3> HIDE DEF A, B, T
    <3>2. Append(A \o B, x) = A \o Append(B, x)
      <4>1. A \o B \in Seq(S)
        BY <3>1, ConcatProperties
      <4>2. Append(A \o B, x) = (A \o B) \o <<x>> /\ Append(B, x) = B \o <<x>>
        BY <3>1, <4>1, AppendIsConcat
      <4>3. (A \o B) \o <<x>> = A \o (B \o <<x>>)
        BY <3>1, ShortSeqs, ConcatAssociative
      <4> QED
        BY <4>2, <4>3
    <3> QED
      BY <3>2 DEF A, B
  <2> QED
    BY <2>1, <2>3, <2>4, <2>5, <2>6
<1> HIDE DEF T
<1>3. Seq(S) \subseteq T
  BY <1>1, <1>2, SeqInduction
<1> QED
  BY <1>3 DEF T

(* What passes everywhere is kept whole, what passes nowhere is dropped, and  *)
(* only the test of the elements there are counts.                            *)
LEMMA KeepAll ==
    ASSUME NEW S, NEW s \in Seq(S), NEW V, \A i \in 1 .. Len(s) : s[i] \in V
    PROVE  Keep(s, V) = s
<1> DEFINE T == {t \in Seq(S) : (\A i \in 1 .. Len(t) : t[i] \in V) => Keep(t, V) = t}
<1>1. <<>> \in T
  BY KeepEmpty, ShortSeqs
<1>2. ASSUME NEW t \in Seq(S), t \in T, NEW x \in S PROVE Append(t, x) \in T
  <2>0. Append(t, x) \in Seq(S)
    OBVIOUS
  <2> SUFFICES ASSUME \A i \in 1 .. Len(Append(t, x)) : Append(t, x)[i] \in V
               PROVE  Keep(Append(t, x), V) = Append(t, x)
    BY <2>0
  <2>1. x \in V /\ \A i \in 1 .. Len(t) : t[i] \in V
    <3>1. /\ Len(Append(t, x)) = Len(t) + 1 /\ Append(t, x)[Len(t) + 1] = x
          /\ \A i \in 1 .. Len(t) : Append(t, x)[i] = t[i]
      OBVIOUS
    <3>2. Len(t) \in Nat /\ Len(t) + 1 \in 1 .. Len(Append(t, x))
      BY <3>1
    <3>3. \A i \in 1 .. Len(t) : i \in 1 .. Len(Append(t, x))
      BY <3>1, <3>2
    <3> QED
      BY <3>1, <3>2, <3>3
  <2>2. Keep(t, V) = t
    BY <1>2, <2>1
  <2>3. Keep(Append(t, x), V) = Append(Keep(t, V), x)
    BY <2>1, KeepAppend
  <2> QED
    BY <2>2, <2>3
<1> HIDE DEF T
<1>3. Seq(S) \subseteq T
  BY <1>1, <1>2, SeqInduction
<1> QED
  BY <1>3 DEF T

LEMMA KeepNone ==
    ASSUME NEW S, NEW s \in Seq(S), NEW V, \A i \in 1 .. Len(s) : s[i] \notin V
    PROVE  Keep(s, V) = <<>>
<1> DEFINE W == S \ V
<1>1. Keep(s, V) = <<>>
  <2>1. \A t \in Seq(S) : \A i \in 1 .. Len(t) : t[i] \in S
    OBVIOUS
  <2>2. Keep(s, V) \in Seq({})
    <3>1. s \in Seq(W)
      <4>1. s \in [1 .. Len(s) -> W] /\ Len(s) \in Nat
        OBVIOUS
      <4> HIDE DEF W
      <4> QED
        BY <4>1
    <3>2. W \cap V = {}
      OBVIOUS
    <3>3. Keep(s, V) \in Seq(W \cap V)
      BY <3>1, KeepType
    <3> QED
      BY <3>2, <3>3
  <2> DEFINE k == Keep(s, V)
  <2> HIDE DEF k
  <2>3. k \in Seq({})
    BY <2>2 DEF k
  <2>4. k = <<>>
    BY <2>3
  <2> QED
    BY <2>4 DEF k
<1> QED
  BY <1>1

LEMMA KeepSame ==
    ASSUME NEW S, NEW s \in Seq(S), NEW V, NEW W,
           \A i \in 1 .. Len(s) : s[i] \in V <=> s[i] \in W
    PROVE  Keep(s, V) = Keep(s, W)
<1> DEFINE p == [i \in DOMAIN s |-> IF s[i] \in V THEN <<s[i]>> ELSE <<>>]
           q == [i \in DOMAIN s |-> IF s[i] \in W THEN <<s[i]>> ELSE <<>>]
<1>1. DOMAIN s = 1 .. Len(s)
  OBVIOUS
<1>2. \A i \in DOMAIN s : (IF s[i] \in V THEN <<s[i]>> ELSE <<>>) = (IF s[i] \in W THEN <<s[i]>> ELSE <<>>)
  BY <1>1
<1>3. p = q
  BY <1>2
<1> QED
  BY <1>3 DEF Keep

LEMMA KeepKeep ==
    ASSUME NEW S, NEW s \in Seq(S), NEW V, NEW W
    PROVE  Keep(Keep(s, V), W) = Keep(s, V \cap W)
<1> DEFINE U == V \cap W
           T == {t \in Seq(S) : Keep(Keep(t, V), W) = Keep(t, U)}
<1>1. <<>> \in T
  <2>1. Keep(<<>>, V) = <<>> /\ Keep(<<>>, W) = <<>> /\ Keep(<<>>, U) = <<>>
    BY KeepEmpty
  <2> QED
    BY <2>1, ShortSeqs
<1>2. ASSUME NEW t \in Seq(S), t \in T, NEW x \in S PROVE Append(t, x) \in T
  <2>1. Append(t, x) \in Seq(S) /\ Keep(Keep(t, V), W) = Keep(t, U)
    BY <1>2
  <2>2. Keep(t, V) \in Seq(S)
    BY KeepType
  <2>3. Keep(Append(t, x), V) = IF x \in V THEN Append(Keep(t, V), x) ELSE Keep(t, V)
    BY KeepAppend
  <2>4. Keep(Append(t, x), U) = IF x \in U THEN Append(Keep(t, U), x) ELSE Keep(t, U)
    BY KeepAppend
  <2>5. Keep(Append(Keep(t, V), x), W) = IF x \in W THEN Append(Keep(Keep(t, V), W), x) ELSE Keep(Keep(t, V), W)
    BY <2>2, KeepAppend
  <2>6. x \in U <=> x \in V /\ x \in W
    OBVIOUS
  <2> HIDE DEF U
  <2> QED
    BY <2>1, <2>3, <2>4, <2>5, <2>6
<1> HIDE DEF T
<1>3. Seq(S) \subseteq T
  BY <1>1, <1>2, SeqInduction
<1> QED
  BY <1>3 DEF T

-----------------------------------------------------------------------------
(* The elements of a sequence *)

LEMMA ElementsOf ==
    ASSUME NEW S, NEW s \in Seq(S)
    PROVE  ToSet(s) = {s[i] : i \in 1 .. Len(s)} /\ ToSet(s) \subseteq S /\ s \in Seq(ToSet(s))
<1>1. DOMAIN s = 1 .. Len(s) /\ Len(s) \in Nat
  OBVIOUS
<1>2. ToSet(s) = {s[i] : i \in 1 .. Len(s)}
  BY <1>1 DEF ToSet
<1>3. s \in [1 .. Len(s) -> ToSet(s)]
  BY <1>1, <1>2
<1> QED
  BY <1>1, <1>2, <1>3

LEMMA ElementsAppend ==
    ASSUME NEW S, NEW s \in Seq(S), NEW x \in S
    PROVE  ToSet(Append(s, x)) = ToSet(s) \cup {x}
<1> DEFINE t == Append(s, x)
<1>1. t \in Seq(S) /\ Len(t) = Len(s) + 1 /\ Len(s) \in Nat /\ t[Len(s) + 1] = x
      /\ \A i \in 1 .. Len(s) : t[i] = s[i]
  OBVIOUS
<1> HIDE DEF t
<1>2. ToSet(t) = {t[i] : i \in 1 .. Len(t)} /\ ToSet(s) = {s[i] : i \in 1 .. Len(s)}
  BY <1>1, ElementsOf
<1>3. \A i \in 1 .. Len(t) : i \in 1 .. Len(s) \/ i = Len(s) + 1
  BY <1>1
<1>4. \A i \in 1 .. Len(s) : i \in 1 .. Len(t)
  BY <1>1
<1>5. Len(s) + 1 \in 1 .. Len(t)
  BY <1>1
<1> QED
  BY <1>1, <1>2, <1>3, <1>4, <1>5 DEF t

LEMMA ElementsConcat ==
    ASSUME NEW S, NEW a \in Seq(S), NEW b \in Seq(S)
    PROVE  ToSet(a \o b) = ToSet(a) \cup ToSet(b)
<1> DEFINE c == a \o b
<1>1. /\ c \in Seq(S) /\ Len(c) = Len(a) + Len(b) /\ Len(a) \in Nat /\ Len(b) \in Nat
      /\ \A i \in 1 .. Len(a) : c[i] = a[i]
      /\ \A i \in 1 .. Len(b) : c[Len(a) + i] = b[i]
  OBVIOUS
<1> HIDE DEF c
<1>2. /\ ToSet(c) = {c[i] : i \in 1 .. Len(c)} /\ ToSet(a) = {a[i] : i \in 1 .. Len(a)}
      /\ ToSet(b) = {b[i] : i \in 1 .. Len(b)}
  BY <1>1, ElementsOf
<1>3. ASSUME NEW i \in 1 .. Len(c) PROVE c[i] \in ToSet(a) \cup ToSet(b)
  <2>1. CASE i <= Len(a)
    <3>1. i \in 1 .. Len(a)
      BY <1>1, <2>1
    <3> QED
      BY <1>1, <1>2, <3>1
  <2>2. CASE i > Len(a)
    <3>1. i - Len(a) \in 1 .. Len(b) /\ Len(a) + (i - Len(a)) = i
      BY <1>1, <2>2
    <3>2. c[i] = b[i - Len(a)]
      BY <1>1, <3>1
    <3> QED
      BY <1>2, <3>1, <3>2
  <2> QED
    BY <1>1, <2>1, <2>2
<1>4. \A i \in 1 .. Len(a) : i \in 1 .. Len(c)
  BY <1>1
<1>5. \A i \in 1 .. Len(b) : Len(a) + i \in 1 .. Len(c)
  BY <1>1
<1>6. ToSet(a) \subseteq ToSet(c)
  BY <1>1, <1>2, <1>4
<1>7. ToSet(b) \subseteq ToSet(c)
  BY <1>1, <1>2, <1>5
<1>8. ToSet(c) \subseteq ToSet(a) \cup ToSet(b)
  BY <1>2, <1>3
<1> QED
  BY <1>6, <1>7, <1>8 DEF c

LEMMA KeepElements ==
    ASSUME NEW S, NEW s \in Seq(S), NEW V
    PROVE  ToSet(Keep(s, V)) = ToSet(s) \cap V
<1> DEFINE T == {t \in Seq(S) : ToSet(Keep(t, V)) = ToSet(t) \cap V}
<1>1. <<>> \in T
  <2>1. Keep(<<>>, V) = <<>> /\ <<>> \in Seq(S)
    BY KeepEmpty, ShortSeqs
  <2>2. ToSet(<<>>) = {}
    BY DEF ToSet
  <2> QED
    BY <2>1, <2>2
<1>2. ASSUME NEW t \in Seq(S), t \in T, NEW x \in S PROVE Append(t, x) \in T
  <2>1. Append(t, x) \in Seq(S) /\ ToSet(Keep(t, V)) = ToSet(t) \cap V
    BY <1>2
  <2>2. Keep(t, V) \in Seq(S)
    BY KeepType
  <2>3. Keep(Append(t, x), V) = IF x \in V THEN Append(Keep(t, V), x) ELSE Keep(t, V)
    BY KeepAppend
  <2>4. ToSet(Append(Keep(t, V), x)) = ToSet(Keep(t, V)) \cup {x}
    BY <2>2, ElementsAppend
  <2>5. ToSet(Append(t, x)) = ToSet(t) \cup {x}
    BY ElementsAppend
  <2> QED
    BY <2>1, <2>3, <2>4, <2>5
<1> HIDE DEF T
<1>3. Seq(S) \subseteq T
  BY <1>1, <1>2, SeqInduction
<1> QED
  BY <1>3 DEF T

-----------------------------------------------------------------------------
(* Folds: FoldLeft goes over the sets 1 .. n of indices. *)

FoldTo(S, c, st, n) ==
    \E h \in [SUBSET (1 .. n) -> S] :
      \A s \in SUBSET (1 .. n) : h[s] = IF s = {} THEN c ELSE st[<<h[s \ {Max(s)}], Max(s)>>]

(* A recursion over those sets whose steps stay in S has a solution. *)
LEMMA FoldSolution ==
    ASSUME NEW S, NEW c \in S, NEW N \in Nat, NEW st \in [S \X (1 .. N) -> S]
    PROVE  FoldTo(S, c, st, N)
<1> DEFINE T == {n \in Nat : n <= N => FoldTo(S, c, st, n)}
<1>1. 0 \in T
  <2> DEFINE h == [s \in SUBSET (1 .. 0) |-> c]
  <2>1. h \in [SUBSET (1 .. 0) -> S] /\ \A s \in SUBSET (1 .. 0) : s = {} /\ h[s] = c
    OBVIOUS
  <2>2. FoldTo(S, c, st, 0)
    <3> HIDE DEF h
    <3> QED
      BY <2>1 DEF FoldTo
  <2> QED
    BY <2>2
<1>2. ASSUME NEW n \in Nat, n \in T PROVE n + 1 \in T
  <2> SUFFICES ASSUME n + 1 <= N
               PROVE  FoldTo(S, c, st, n + 1)
    OBVIOUS
  <2>0. FoldTo(S, c, st, n)
    BY <1>2
  <2>1. PICK h \in [SUBSET (1 .. n) -> S] :
          \A s \in SUBSET (1 .. n) : h[s] = IF s = {} THEN c ELSE st[<<h[s \ {Max(s)}], Max(s)>>]
    BY <2>0 DEF FoldTo
  <2> DEFINE g == [s \in SUBSET (1 .. n + 1) |->
                     IF n + 1 \in s THEN st[<<h[s \ {n + 1}], n + 1>>] ELSE h[s]]
  <2>2. g \in [SUBSET (1 .. n + 1) -> S]
    <3>1. ASSUME NEW s \in SUBSET (1 .. n + 1), n + 1 \in s
          PROVE  st[<<h[s \ {n + 1}], n + 1>>] \in S
      <4>1. s \ {n + 1} \in SUBSET (1 .. n)
        OBVIOUS
      <4>2. h[s \ {n + 1}] \in S /\ n + 1 \in 1 .. N
        BY <4>1
      <4> QED
        BY <4>2
    <3>2. ASSUME NEW s \in SUBSET (1 .. n + 1), n + 1 \notin s PROVE h[s] \in S
      <4>1. s \in SUBSET (1 .. n)
        BY <3>2
      <4> QED
        BY <4>1
    <3> QED
      BY <3>1, <3>2
  <2>3. ASSUME NEW s \in SUBSET (1 .. n + 1)
        PROVE  g[s] = IF s = {} THEN c ELSE st[<<g[s \ {Max(s)}], Max(s)>>]
    <3>1. CASE n + 1 \in s
      <4>1. Max(s) = n + 1
        <5>1. n + 1 \in Nat /\ s # {}
          BY <3>1
        <5>2. Max(s) \in s /\ Max(s) >= n + 1
          BY <3>1, <5>1, MaxIsGreatest
        <5>3. Max(s) \in 1 .. n + 1
          BY <5>2
        <5> QED
          BY <5>2, <5>3
      <4>2. s \ {n + 1} \in SUBSET (1 .. n + 1) /\ n + 1 \notin s \ {n + 1}
        OBVIOUS
      <4>3. g[s \ {n + 1}] = h[s \ {n + 1}]
        BY <4>2
      <4> QED
        BY <3>1, <4>1, <4>3
    <3>2. CASE n + 1 \notin s /\ s # {}
      <4>1. s \in SUBSET (1 .. n)
        BY <3>2
      <4>2. s \ {Max(s)} \in SUBSET (1 .. n) /\ n + 1 \notin s \ {Max(s)}
        BY <3>2, <4>1
      <4>3. g[s] = h[s] /\ g[s \ {Max(s)}] = h[s \ {Max(s)}]
        BY <3>2, <4>1, <4>2
      <4>4. h[s] = st[<<h[s \ {Max(s)}], Max(s)>>]
        BY <2>1, <3>2, <4>1
      <4> QED
        BY <3>2, <4>3, <4>4
    <3>3. CASE s = {}
      <4>1. s \in SUBSET (1 .. n)
        BY <3>3
      <4>2. h[s] = c
        BY <2>1, <3>3, <4>1
      <4> QED
        BY <3>3, <4>2
    <3> QED
      BY <3>1, <3>2, <3>3
  <2> HIDE DEF g
  <2> QED
    BY <2>2, <2>3 DEF FoldTo
<1>3. Nat \subseteq T
  <2> HIDE DEF T
  <2> QED
    BY <1>1, <1>2, SetInduction
<1> QED
  BY <1>3

(* The sets the fold is taken at. *)
LEMMA IndexPrefixes ==
    ASSUME NEW N \in Nat, NEW n \in 1 .. N
    PROVE  /\ 1 .. n \in SUBSET (1 .. N) /\ 1 .. n # {}
           /\ Max(1 .. n) = n /\ (1 .. n) \ {Max(1 .. n)} = 1 .. (n - 1)
<1>1. n \in Nat /\ 1 <= n /\ n <= N
  OBVIOUS
<1>2. n \in 1 .. n
  BY <1>1
<1>3. \A k \in 1 .. n : k \in 1 .. N
  BY <1>1
<1>4. Max(1 .. n) \in 1 .. n /\ Max(1 .. n) >= n
  BY <1>1, <1>2, MaxIsGreatest
<1>5. Max(1 .. n) = n
  BY <1>1, <1>4
<1>6. (1 .. n) \ {n} = 1 .. (n - 1)
  BY <1>1
<1>7. 1 .. n \in SUBSET (1 .. N) /\ 1 .. n # {}
  BY <1>2, <1>3
<1>8. (1 .. n) \ {Max(1 .. n)} = 1 .. (n - 1)
  BY <1>5, <1>6
<1> QED
  BY <1>5, <1>7, <1>8

-----------------------------------------------------------------------------
(* Taking sequences apart *)

LEMMA ConcatFacts ==
    ASSUME NEW S, NEW a \in Seq(S), NEW b \in Seq(S)
    PROVE  /\ a \o b \in Seq(S) /\ Len(a \o b) = Len(a) + Len(b)
           /\ Len(a) \in Nat /\ Len(b) \in Nat
           /\ \A i \in 1 .. Len(a) : (a \o b)[i] = a[i]
           /\ \A i \in 1 .. Len(b) : (a \o b)[Len(a) + i] = b[i]
OBVIOUS

LEMMA SplitAt ==
    ASSUME NEW S, NEW s \in Seq(S), NEW k \in 1 .. Len(s)
    PROVE  /\ SubSeq(s, 1, k - 1) \in Seq(S) /\ SubSeq(s, k + 1, Len(s)) \in Seq(S)
           /\ <<s[k]>> \in Seq(S) /\ s[k] \in S
           /\ s = (SubSeq(s, 1, k - 1) \o <<s[k]>>) \o SubSeq(s, k + 1, Len(s))
           /\ RemoveAt(s, k) = SubSeq(s, 1, k - 1) \o SubSeq(s, k + 1, Len(s))
           /\ RemoveAt(s, k) \in Seq(S)
<1> DEFINE a == SubSeq(s, 1, k - 1)
           c == SubSeq(s, k + 1, Len(s))
<1>1. k \in Nat /\ 1 <= k /\ k <= Len(s) /\ Len(s) \in Nat
  OBVIOUS
<1>2. a \in Seq(S)
  BY <1>1
<1>3. c \in Seq(S)
  BY <1>1
<1>4. s[k] \in S /\ <<s[k]>> \in Seq(S)
  BY <1>1, ShortSeqs
<1>5. SubSeq(s, 1, k) = a \o <<s[k]>>
  <2>1. 1 \in 1 .. Len(s) /\ k \in 1 .. Len(s)
    BY <1>1
  <2> QED
    BY <2>1, SubSeqRecursiveSecond
<1>6. SubSeq(s, 1, k) \o c = SubSeq(s, 1, Len(s))
  <2>1. 1 \in 1 .. Len(s) + 1 /\ k \in 1 - 1 .. Len(s) /\ Len(s) \in k .. Len(s)
    BY <1>1
  <2> QED
    BY <2>1, ConcatAdjacentSubSeq
<1>7. SubSeq(s, 1, Len(s)) = s
  BY SubSeqFull
<1>8. RemoveAt(s, k) = a \o c
  BY DEF RemoveAt
<1> HIDE DEF a, c
<1>9. a \o c \in Seq(S)
  BY <1>2, <1>3, ConcatProperties
<1>10. s = (a \o <<s[k]>>) \o c
  BY <1>5, <1>6, <1>7
<1>11. /\ a \in Seq(S) /\ c \in Seq(S) /\ <<s[k]>> \in Seq(S) /\ s[k] \in S
       /\ s = (a \o <<s[k]>>) \o c /\ RemoveAt(s, k) = a \o c /\ RemoveAt(s, k) \in Seq(S)
  BY <1>2, <1>3, <1>4, <1>8, <1>9, <1>10
<1> QED
  BY <1>11 DEF a, c

(* Without one element, one less is kept if it passes the test. *)
LEMMA KeepRemoved ==
    ASSUME NEW S, NEW s \in Seq(S), NEW k \in 1 .. Len(s), NEW V
    PROVE  /\ s[k] \notin V => Keep(RemoveAt(s, k), V) = Keep(s, V)
           /\ s[k] \in V => Len(Keep(RemoveAt(s, k), V)) = Len(Keep(s, V)) - 1
<1> DEFINE a == SubSeq(s, 1, k - 1)
           c == SubSeq(s, k + 1, Len(s))
           m == <<s[k]>>
<1>1. /\ a \in Seq(S) /\ c \in Seq(S) /\ m \in Seq(S) /\ s[k] \in S
      /\ s = (a \o m) \o c /\ RemoveAt(s, k) = a \o c
  BY SplitAt
<1>2. m = Append(<<>>, s[k]) /\ Len(m) = 1
  OBVIOUS
<1>3. Keep(m, V) = IF s[k] \in V THEN m ELSE <<>>
  <2>1. Keep(Append(<<>>, s[k]), V) = IF s[k] \in V THEN Append(Keep(<<>>, V), s[k]) ELSE Keep(<<>>, V)
    BY <1>1, ShortSeqs, KeepAppend
  <2> QED
    BY <1>2, <2>1, KeepEmpty
<1> HIDE DEF a, c, m
<1> DEFINE ka == Keep(a, V)
           kc == Keep(c, V)
           km == Keep(m, V)
<1>4. ka \in Seq(S) /\ kc \in Seq(S) /\ km \in Seq(S)
  BY <1>1, KeepType
<1>5. Keep(a \o c, V) = ka \o kc
  BY <1>1, KeepConcat
<1>6. Keep(s, V) = (ka \o km) \o kc
  <2> DEFINE am == a \o m
  <2>0. a \in Seq(S) /\ m \in Seq(S) /\ c \in Seq(S)
    BY <1>1
  <2>1. am \in Seq(S)
    BY <2>0, ConcatProperties
  <2>2. Keep(am, V) = ka \o km
    BY <2>0, KeepConcat
  <2>3. s = am \o c
    BY <1>1
  <2> HIDE DEF am
  <2>4. c \in Seq(S)
    BY <1>1
  <2>5. Keep(am \o c, V) = Keep(am, V) \o Keep(c, V)
    BY <2>1, <2>4, KeepConcat
  <2> QED
    BY <2>2, <2>3, <2>5
<1>7. s[k] \notin V => km = <<>>
  BY <1>3
<1>8. s[k] \in V => Len(km) = 1
  BY <1>2, <1>3
<1> HIDE DEF ka, kc, km
<1>9. ka \o <<>> = ka
  BY <1>4, ConcatEmptySeq
<1>10. Len((ka \o km) \o kc) = Len(ka) + Len(km) + Len(kc) /\ Len(ka \o kc) = Len(ka) + Len(kc)
  BY <1>4
<1>11. Len(ka) \in Nat /\ Len(kc) \in Nat
  BY <1>4
<1>12. CASE s[k] \notin V
  BY <1>1, <1>5, <1>6, <1>7, <1>9, <1>12
<1>13. CASE s[k] \in V
  <2>1. Len(ka \o kc) = Len((ka \o km) \o kc) - 1
    <3> DEFINE x == Len(ka \o kc)
               y == Len((ka \o km) \o kc)
    <3>1. Len(km) = 1
      BY <1>8, <1>13
    <3>2. x = Len(ka) + Len(kc) /\ y = Len(ka) + Len(km) + Len(kc)
      BY <1>10
    <3> HIDE DEF x, y
    <3>3. x = y - 1
      BY <1>11, <3>1, <3>2
    <3> QED
      BY <3>3 DEF x, y
  <2>2. Len(Keep(RemoveAt(s, k), V)) = Len(Keep(s, V)) - 1
    BY <1>1, <1>5, <1>6, <2>1
  <2> QED
    BY <1>13, <2>2
<1> QED
  BY <1>12, <1>13

(* Pairs flatten to an even number of elements. *)
LEMMA FlatPairs ==
    ASSUME NEW S, NEW s \in Seq(Seq(S)), \A i \in 1 .. Len(s) : Len(s[i]) = 2
    PROVE  Len(FlattenSeq(s)) = 2 * Len(s)
<1> DEFINE U == Seq(S)
           T == {t \in Seq(U) : (\A i \in 1 .. Len(t) : Len(t[i]) = 2) => Len(FlattenSeq(t)) = 2 * Len(t)}
<1> HIDE DEF U
<1>1. <<>> \in T
  <2>1. FlattenSeq(<<>>) = <<>>
    BY DEF FlattenSeq
  <2>2. <<>> \in Seq(U) /\ Len(<<>>) = 0 /\ 2 * 0 = 0
    BY ShortSeqs
  <2> QED
    BY <2>1, <2>2
<1>2. ASSUME NEW t \in Seq(U), t \in T, NEW x \in U PROVE Append(t, x) \in T
  <2>1. /\ Append(t, x) \in Seq(U) /\ Len(Append(t, x)) = Len(t) + 1 /\ Len(t) \in Nat
        /\ Append(t, x)[Len(t) + 1] = x
        /\ \A i \in 1 .. Len(t) : Append(t, x)[i] = t[i]
    OBVIOUS
  <2>2. FlattenSeq(Append(t, x)) = FlattenSeq(t) \o x
    BY FlatAppend DEF U
  <2>3. FlattenSeq(t) \in Seq(S) /\ x \in Seq(S)
    BY FlatType DEF U
  <2> SUFFICES ASSUME \A i \in 1 .. Len(Append(t, x)) : Len(Append(t, x)[i]) = 2
               PROVE  Len(FlattenSeq(Append(t, x))) = 2 * Len(Append(t, x))
    BY <2>1
  <2>4. Len(t) + 1 \in 1 .. Len(Append(t, x)) /\ \A i \in 1 .. Len(t) : i \in 1 .. Len(Append(t, x))
    BY <2>1
  <2>5. Len(x) = 2 /\ \A i \in 1 .. Len(t) : Len(t[i]) = 2
    BY <2>1, <2>4
  <2>6. Len(FlattenSeq(t)) = 2 * Len(t)
    BY <1>2, <2>5
  <2> DEFINE F == FlattenSeq(t)
  <2> HIDE DEF F
  <2>7. Len(F \o x) = Len(F) + Len(x)
    <3>1. F \in Seq(S) /\ x \in Seq(S)
      BY <2>3 DEF F
    <3> QED
      BY <3>1
  <2>8. Len(F \o x) = 2 * Len(t) + 2
    BY <2>5, <2>6, <2>7 DEF F
  <2> QED
    BY <2>1, <2>2, <2>8 DEF F
<1> HIDE DEF T
<1>3. Seq(U) \subseteq T
  BY <1>1, <1>2, SeqInduction
<1>4. s \in Seq(U)
  BY DEF U
<1>5. s \in T
  BY <1>3, <1>4
<1> QED
  BY <1>5 DEF T

(* Concatenation as an operator the provers do not look into. *)
Cat(a, b) == a \o b

LEMMA CatAssociates ==
    ASSUME NEW S, NEW a \in Seq(S), NEW b \in Seq(S), NEW c \in Seq(S)
    PROVE  Cat(Cat(a, b), c) = Cat(a, Cat(b, c))
BY SMT DEF Cat

LEMMA CatType ==
    ASSUME NEW S, NEW a \in Seq(S), NEW b \in Seq(S)
    PROVE  Cat(a, b) \in Seq(S) /\ Len(Cat(a, b)) = Len(a) + Len(b)
BY SMT DEF Cat

LEMMA FourRight ==
    ASSUME NEW S, NEW s \in Seq(S), NEW a \in Seq(S), NEW b \in Seq(S), NEW c \in Seq(S), NEW d \in Seq(S)
    PROVE  Cat(Cat(Cat(Cat(s, a), b), c), d) = Cat(s, Cat(Cat(Cat(a, b), c), d))
<1>1. Cat(a, b) \in Seq(S)
  BY CatType
<1>2. Cat(Cat(a, b), c) \in Seq(S)
  BY <1>1, CatType
<1>3. Cat(Cat(s, a), b) = Cat(s, Cat(a, b))
  BY CatAssociates
<1>4. Cat(Cat(s, Cat(a, b)), c) = Cat(s, Cat(Cat(a, b), c))
  BY <1>1, CatAssociates
<1>5. Cat(Cat(s, Cat(Cat(a, b), c)), d) = Cat(s, Cat(Cat(Cat(a, b), c), d))
  BY <1>2, CatAssociates
<1> QED
  BY <1>3, <1>4, <1>5

(* s is a, b, c and d in a row. *)
IsFour(S, s, a, b, c, d) ==
    /\ s \in Seq(S) /\ Len(s) = Len(a) + Len(b) + Len(c) + Len(d)
    /\ \A i \in 1 .. Len(a) : s[i] = a[i]
    /\ \A i \in 1 .. Len(b) : s[Len(a) + i] = b[i]
    /\ \A i \in 1 .. Len(c) : s[Len(a) + Len(b) + i] = c[i]
    /\ \A i \in 1 .. Len(d) : s[Len(a) + Len(b) + Len(c) + i] = d[i]

LEMMA FourParts ==
    ASSUME NEW S, NEW a \in Seq(S), NEW b \in Seq(S), NEW c \in Seq(S), NEW d \in Seq(S)
    PROVE  IsFour(S, Cat(Cat(Cat(a, b), c), d), a, b, c, d)
<1> DEFINE e == a \o b
           f == e \o c
           g == f \o d
<1>1. /\ e \in Seq(S) /\ Len(e) = Len(a) + Len(b) /\ Len(a) \in Nat /\ Len(b) \in Nat
      /\ \A i \in 1 .. Len(a) : e[i] = a[i]
      /\ \A i \in 1 .. Len(b) : e[Len(a) + i] = b[i]
  BY ConcatFacts
<1>2. e \in Seq(S)
  BY <1>1
<1> HIDE DEF e
<1>3. /\ f \in Seq(S) /\ Len(f) = Len(e) + Len(c) /\ \A i \in 1 .. Len(e) : f[i] = e[i]
      /\ \A i \in 1 .. Len(c) : f[Len(e) + i] = c[i]
  BY <1>2, ConcatFacts
<1>4. f \in Seq(S)
  BY <1>3
<1> HIDE DEF f
<1>5. /\ g \in Seq(S) /\ Len(g) = Len(f) + Len(d) /\ \A i \in 1 .. Len(f) : g[i] = f[i]
      /\ \A i \in 1 .. Len(d) : g[Len(f) + i] = d[i]
  BY <1>4, ConcatFacts
<1> HIDE DEF g
<1>6. Len(e) \in Nat /\ Len(c) \in Nat /\ Len(d) \in Nat
  BY <1>2
<1>7. ASSUME NEW i \in 1 .. Len(c) PROVE g[Len(e) + i] = c[i]
  <2>1. Len(e) + i \in 1 .. Len(f)
    BY <1>3, <1>6
  <2> QED
    BY <1>3, <1>5, <2>1
<1>8. /\ g \in Seq(S) /\ Len(g) = Len(a) + Len(b) + Len(c) + Len(d)
      /\ \A i \in 1 .. Len(c) : g[Len(a) + Len(b) + i] = c[i]
      /\ \A i \in 1 .. Len(d) : g[Len(a) + Len(b) + Len(c) + i] = d[i]
  BY <1>1, <1>3, <1>5, <1>7
<1>9. \A i \in 1 .. Len(e) : g[i] = e[i]
  <2>1. \A i \in 1 .. Len(e) : i \in 1 .. Len(f)
    BY <1>3, <1>6
  <2> QED
    BY <1>3, <1>5, <2>1
<1>10. \A i \in 1 .. Len(a) : g[i] = a[i]
  <2>1. \A i \in 1 .. Len(a) : i \in 1 .. Len(e)
    BY <1>1
  <2> QED
    BY <1>1, <1>9, <2>1
<1>11. \A i \in 1 .. Len(b) : g[Len(a) + i] = b[i]
  <2>1. \A i \in 1 .. Len(b) : Len(a) + i \in 1 .. Len(e)
    BY <1>1
  <2> QED
    BY <1>1, <1>9, <2>1
<1>12. IsFour(S, g, a, b, c, d)
  BY <1>8, <1>10, <1>11 DEF IsFour
<1> QED
  BY <1>12 DEF e, f, g, Cat

LEMMA FunIsSeq ==
    ASSUME NEW S, NEW n \in Nat, NEW f \in [1 .. n -> S]
    PROVE  f \in Seq(S) /\ Len(f) = n
OBVIOUS

LEMMA CatFacts ==
    ASSUME NEW S, NEW a \in Seq(S), NEW b \in Seq(S)
    PROVE  /\ \A i \in 1 .. Len(a) : Cat(a, b)[i] = a[i]
           /\ \A i \in 1 .. Len(b) : Cat(a, b)[Len(a) + i] = b[i]
BY SMT DEF Cat

LEMMA CatEmpty ==
    ASSUME NEW S, NEW a \in Seq(S)
    PROVE  Cat(a, <<>>) = a /\ Cat(<<>>, a) = a
BY ConcatEmptySeq DEF Cat

LEMMA KeepCat ==
    ASSUME NEW S, NEW a \in Seq(S), NEW b \in Seq(S), NEW V
    PROVE  Keep(Cat(a, b), V) = Cat(Keep(a, V), Keep(b, V))
BY KeepConcat DEF Cat

LEMMA RemoveFacts ==
    ASSUME NEW S, NEW s \in Seq(S), NEW k \in 1 .. Len(s)
    PROVE  /\ RemoveAt(s, k) \in Seq(S) /\ Len(RemoveAt(s, k)) = Len(s) - 1
           /\ \A i \in 1 .. Len(s) - 1 : RemoveAt(s, k)[i] = IF i < k THEN s[i] ELSE s[i + 1]
<1> DEFINE a == SubSeq(s, 1, k - 1)
           c == SubSeq(s, k + 1, Len(s))
           t == Cat(a, c)
<1>1. k \in Nat /\ 1 <= k /\ k <= Len(s) /\ Len(s) \in Nat
  OBVIOUS
<1>2. a \in Seq(S) /\ Len(a) = k - 1 /\ \A i \in 1 .. k - 1 : a[i] = s[i]
  BY <1>1
<1>3. c \in Seq(S) /\ Len(c) = Len(s) - k /\ \A i \in 1 .. Len(s) - k : c[i] = s[k + i]
  BY <1>1
<1>4. RemoveAt(s, k) = t
  BY DEF RemoveAt, Cat
<1> HIDE DEF a, c
<1>5. a \in Seq(S) /\ c \in Seq(S)
  BY <1>2, <1>3
<1>6. t \in Seq(S) /\ Len(t) = Len(a) + Len(c)
  BY <1>5, CatType
<1>7. \A i \in 1 .. Len(a) : t[i] = a[i]
  BY <1>5, CatFacts
<1>8. \A i \in 1 .. Len(c) : t[Len(a) + i] = c[i]
  BY <1>5, CatFacts
<1> HIDE DEF t
<1>9. ASSUME NEW i \in 1 .. Len(s) - 1 PROVE t[i] = IF i < k THEN s[i] ELSE s[i + 1]
  <2>1. CASE i < k
    <3>1. i \in 1 .. k - 1
      BY <1>1, <2>1
    <3> QED
      BY <1>2, <1>7, <2>1, <3>1
  <2>2. CASE i >= k
    <3>1. i - (k - 1) \in 1 .. Len(s) - k /\ (k - 1) + (i - (k - 1)) = i /\ k + (i - (k - 1)) = i + 1 /\ ~(i < k)
      BY <1>1, <2>2
    <3>2. t[(k - 1) + (i - (k - 1))] = c[i - (k - 1)]
      BY <1>2, <1>3, <1>8, <3>1
    <3>3. c[i - (k - 1)] = s[k + (i - (k - 1))]
      BY <1>3, <3>1
    <3> QED
      BY <3>1, <3>2, <3>3
  <2> QED
    BY <1>1, <2>1, <2>2
<1>10. Len(t) = Len(s) - 1
  BY <1>1, <1>2, <1>3, <1>6
<1> QED
  BY <1>4, <1>6, <1>9, <1>10

LEMMA RemoveLeft ==
    ASSUME NEW S, NEW a \in Seq(S), NEW b \in Seq(S), NEW k \in 1 .. Len(a)
    PROVE  RemoveAt(Cat(a, b), k) = Cat(RemoveAt(a, k), b)
<1> DEFINE c == Cat(a, b)
           r == RemoveAt(a, k)
           x == RemoveAt(c, k)
           y == Cat(r, b)
<1>1. c \in Seq(S) /\ Len(c) = Len(a) + Len(b)
  BY CatType
<1>2. (\A i \in 1 .. Len(a) : c[i] = a[i]) /\ (\A i \in 1 .. Len(b) : c[Len(a) + i] = b[i])
  BY CatFacts
<1>3. /\ r \in Seq(S) /\ Len(r) = Len(a) - 1
      /\ \A i \in 1 .. Len(a) - 1 : r[i] = IF i < k THEN a[i] ELSE a[i + 1]
  BY RemoveFacts
<1>4. Len(a) \in Nat /\ Len(b) \in Nat /\ k \in Nat /\ 1 <= k /\ k <= Len(a)
  OBVIOUS
<1> HIDE DEF c, r
<1>5. /\ x \in Seq(S) /\ Len(x) = Len(c) - 1
      /\ \A i \in 1 .. Len(c) - 1 : x[i] = IF i < k THEN c[i] ELSE c[i + 1]
  <2>1. c \in Seq(S) /\ k \in 1 .. Len(c)
    BY <1>1, <1>4
  <2> QED
    BY <2>1, RemoveFacts
<1>6. y \in Seq(S) /\ Len(y) = Len(r) + Len(b)
  BY <1>3, CatType
<1>7. (\A i \in 1 .. Len(r) : y[i] = r[i]) /\ (\A i \in 1 .. Len(b) : y[Len(r) + i] = b[i])
  <2>1. r \in Seq(S)
    BY <1>3
  <2>2. \A i \in 1 .. Len(r) : y[i] = r[i]
    BY <2>1, CatFacts
  <2>3. \A i \in 1 .. Len(b) : y[Len(r) + i] = b[i]
    BY <2>1, CatFacts
  <2> QED
    BY <2>2, <2>3
<1> HIDE DEF x, y
<1>8. Len(x) = Len(a) + Len(b) - 1 /\ Len(y) = Len(a) + Len(b) - 1
  BY <1>1, <1>3, <1>4, <1>5, <1>6
<1>9. ASSUME NEW i \in 1 .. Len(x) PROVE x[i] = y[i]
  <2>0. i \in Nat /\ 1 <= i /\ i <= Len(a) + Len(b) - 1
    BY <1>4, <1>8
  <2>1. CASE i < k
    <3>1. i \in 1 .. Len(c) - 1 /\ i \in 1 .. Len(a) /\ i \in 1 .. Len(r) /\ i \in 1 .. Len(a) - 1
      BY <1>1, <1>3, <1>4, <2>0, <2>1
    <3> QED
      BY <1>2, <1>3, <1>5, <1>7, <2>1, <3>1
  <2>2. CASE i >= k /\ i < Len(a)
    <3>1. /\ i \in 1 .. Len(c) - 1 /\ i + 1 \in 1 .. Len(a) /\ i \in 1 .. Len(r) /\ i \in 1 .. Len(a) - 1
          /\ ~(i < k)
      BY <1>1, <1>3, <1>4, <2>0, <2>2
    <3> QED
      BY <1>2, <1>3, <1>5, <1>7, <3>1
  <2>3. CASE i >= Len(a)
    <3>1. /\ i \in 1 .. Len(c) - 1 /\ ~(i < k) /\ i + 1 - Len(a) \in 1 .. Len(b)
          /\ Len(a) + (i + 1 - Len(a)) = i + 1 /\ Len(r) + (i + 1 - Len(a)) = i
      BY <1>1, <1>3, <1>4, <2>0, <2>3
    <3>2. x[i] = c[i + 1]
      BY <1>5, <3>1
    <3>3. c[i + 1] = b[i + 1 - Len(a)]
      BY <1>2, <3>1
    <3>4. y[i] = b[i + 1 - Len(a)]
      BY <1>7, <3>1
    <3> QED
      BY <3>2, <3>3, <3>4
  <2> QED
    BY <1>4, <2>0, <2>1, <2>2, <2>3
<1>10. x \in Seq(S) /\ y \in Seq(S) /\ Len(x) = Len(y)
  BY <1>5, <1>6, <1>8
<1>11. x = y
  BY <1>9, <1>10, SeqEqual
<1> QED
  BY <1>11 DEF x, y, r, c

LEMMA RemoveRight ==
    ASSUME NEW S, NEW a \in Seq(S), NEW b \in Seq(S), NEW k \in 1 .. Len(b)
    PROVE  RemoveAt(Cat(a, b), Len(a) + k) = Cat(a, RemoveAt(b, k))
<1> DEFINE c == Cat(a, b)
           r == RemoveAt(b, k)
           m == Len(a) + k
           x == RemoveAt(c, m)
           y == Cat(a, r)
<1>1. c \in Seq(S) /\ Len(c) = Len(a) + Len(b)
  BY CatType
<1>2. (\A i \in 1 .. Len(a) : c[i] = a[i]) /\ (\A i \in 1 .. Len(b) : c[Len(a) + i] = b[i])
  BY CatFacts
<1>3. /\ r \in Seq(S) /\ Len(r) = Len(b) - 1
      /\ \A i \in 1 .. Len(b) - 1 : r[i] = IF i < k THEN b[i] ELSE b[i + 1]
  BY RemoveFacts
<1>4. Len(a) \in Nat /\ Len(b) \in Nat /\ k \in Nat /\ 1 <= k /\ k <= Len(b) /\ m \in Nat /\ m = Len(a) + k
  OBVIOUS
<1> HIDE DEF c, r, m
<1>5. /\ x \in Seq(S) /\ Len(x) = Len(c) - 1
      /\ \A i \in 1 .. Len(c) - 1 : x[i] = IF i < m THEN c[i] ELSE c[i + 1]
  <2>1. c \in Seq(S) /\ m \in 1 .. Len(c)
    BY <1>1, <1>4
  <2> QED
    BY <2>1, RemoveFacts
<1>6. y \in Seq(S) /\ Len(y) = Len(a) + Len(r)
  BY <1>3, CatType
<1>7. (\A i \in 1 .. Len(a) : y[i] = a[i]) /\ (\A i \in 1 .. Len(r) : y[Len(a) + i] = r[i])
  BY <1>3, CatFacts
<1> HIDE DEF x, y
<1>8. Len(x) = Len(a) + Len(b) - 1 /\ Len(y) = Len(a) + Len(b) - 1
  BY <1>1, <1>3, <1>4, <1>5, <1>6
<1>9. ASSUME NEW i \in 1 .. Len(x) PROVE x[i] = y[i]
  <2>0. i \in Nat /\ 1 <= i /\ i <= Len(a) + Len(b) - 1
    BY <1>4, <1>8
  <2>1. CASE i <= Len(a)
    <3>1. i \in 1 .. Len(c) - 1 /\ i \in 1 .. Len(a) /\ i < m
      BY <1>1, <1>4, <2>0, <2>1
    <3> QED
      BY <1>2, <1>5, <1>7, <3>1
  <2>2. CASE i > Len(a)
    <3> DEFINE j == i - Len(a)
    <3>1. /\ i \in 1 .. Len(c) - 1 /\ j \in 1 .. Len(b) - 1 /\ j \in 1 .. Len(b) /\ j + 1 \in 1 .. Len(b)
          /\ j \in 1 .. Len(r) /\ Len(a) + j = i /\ Len(a) + (j + 1) = i + 1 /\ (j < k <=> i < m)
      BY <1>1, <1>3, <1>4, <2>0, <2>2
    <3> HIDE DEF j
    <3>2. y[i] = r[j]
      BY <1>7, <3>1
    <3>3. c[i] = b[j] /\ c[i + 1] = b[j + 1]
      BY <1>2, <3>1
    <3>4. x[i] = IF i < m THEN c[i] ELSE c[i + 1]
      BY <1>5, <3>1
    <3>5. r[j] = IF j < k THEN b[j] ELSE b[j + 1]
      BY <1>3, <3>1
    <3> QED
      BY <3>1, <3>2, <3>3, <3>4, <3>5
  <2> QED
    BY <1>4, <2>0, <2>1, <2>2
<1>10. x \in Seq(S) /\ y \in Seq(S) /\ Len(x) = Len(y)
  BY <1>5, <1>6, <1>8
<1>11. x = y
  BY <1>9, <1>10, SeqEqual
<1> QED
  BY <1>11 DEF x, y, r, c, m

(* An element that is kept is one of the kept ones: without it, they are   *)
(* without it too.                                                          *)
LEMMA KeepWithout ==
    ASSUME NEW S, NEW s \in Seq(S), NEW k \in 1 .. Len(s), NEW V, s[k] \in V
    PROVE  \E j \in 1 .. Len(Keep(s, V)) : Keep(RemoveAt(s, k), V) = RemoveAt(Keep(s, V), j)
<1> DEFINE a == SubSeq(s, 1, k - 1)
           c == SubSeq(s, k + 1, Len(s))
           m == <<s[k]>>
           A == Keep(a, V)
           C == Keep(c, V)
           am == Cat(A, m)
<1>1. /\ a \in Seq(S) /\ c \in Seq(S) /\ m \in Seq(S) /\ s[k] \in S
      /\ s = Cat(Cat(a, m), c) /\ RemoveAt(s, k) = Cat(a, c)
  BY SplitAt DEF Cat
<1>2. Len(m) = 1 /\ m[1] = s[k]
  OBVIOUS
<1> HIDE DEF a, c, m
<1>3. Keep(m, V) = m
  <2>1. m \in Seq(S) /\ \A i \in 1 .. Len(m) : m[i] \in V
    BY <1>1, <1>2
  <2> QED
    BY <2>1, KeepAll
<1>4. Cat(a, m) \in Seq(S)
  BY <1>1, CatType
<1>5. Keep(s, V) = Cat(am, C)
  <2>1. Keep(Cat(Cat(a, m), c), V) = Cat(Keep(Cat(a, m), V), C)
    BY <1>1, <1>4, KeepCat
  <2>2. Keep(Cat(a, m), V) = Cat(A, Keep(m, V))
    BY <1>1, KeepCat
  <2> QED
    BY <1>1, <1>3, <2>1, <2>2
<1>6. Keep(RemoveAt(s, k), V) = Cat(A, C)
  BY <1>1, KeepCat
<1>7. A \in Seq(S) /\ C \in Seq(S)
  BY <1>1, KeepType
<1> HIDE DEF A, C
<1>8. am \in Seq(S) /\ Len(am) = Len(A) + 1
  BY <1>1, <1>2, <1>7, CatType
<1> DEFINE j == Len(A) + 1
<1>9. 1 \in 1 .. Len(m) /\ j \in 1 .. Len(am) /\ Len(A) \in Nat /\ Len(C) \in Nat
  BY <1>2, <1>7, <1>8
<1>10. RemoveAt(Cat(am, C), j) = Cat(RemoveAt(am, j), C)
  <2> HIDE DEF am, j
  <2> QED
    BY <1>7, <1>8, <1>9, RemoveLeft
<1>11. RemoveAt(am, j) = Cat(A, RemoveAt(m, 1))
  <2>1. A \in Seq(S) /\ m \in Seq(S) /\ 1 \in 1 .. Len(m)
    BY <1>1, <1>7, <1>9
  <2> QED
    BY <2>1, RemoveRight
<1>12. RemoveAt(m, 1) = <<>>
  <2> DEFINE r == RemoveAt(m, 1)
  <2>1. m \in Seq(S) /\ 1 \in 1 .. Len(m)
    BY <1>1, <1>9
  <2>2. r \in Seq(S) /\ Len(r) = Len(m) - 1
    BY <2>1, RemoveFacts
  <2> HIDE DEF r
  <2>3. r \in Seq(S) /\ Len(r) = 0
    BY <1>2, <2>2
  <2>4. r = <<>>
    BY <2>3
  <2> QED
    BY <2>4 DEF r
<1>13. Cat(A, <<>>) = A
  BY <1>7, CatEmpty
<1>14. Keep(RemoveAt(s, k), V) = RemoveAt(Keep(s, V), j)
  BY <1>5, <1>6, <1>10, <1>11, <1>12, <1>13
<1>15. Len(Cat(am, C)) = Len(am) + Len(C)
  BY <1>7, <1>8, CatType
<1>16. j \in 1 .. Len(Keep(s, V))
  BY <1>5, <1>9, <1>15
<1> QED
  BY <1>14, <1>16

(* What a filter keeps that takes one element only. *)
LEMMA KeepOne ==
    ASSUME NEW S, NEW s \in Seq(S), NEW k \in 1 .. Len(s), NEW V, s[k] \in V,
           \A i \in 1 .. Len(s) : s[i] \in V => i = k
    PROVE  Keep(s, V) = <<s[k]>>
<1> DEFINE a == SubSeq(s, 1, k - 1)
           c == SubSeq(s, k + 1, Len(s))
           m == <<s[k]>>
<1>1. /\ a \in Seq(S) /\ c \in Seq(S) /\ m \in Seq(S)
      /\ s = (a \o m) \o c
  BY SplitAt
<1>2. Len(m) = 1 /\ m[1] = s[k]
  OBVIOUS
<1>3. Keep(a, V) = <<>>
  <2>1. \A i \in 1 .. Len(a) : a[i] = s[i] /\ i \in 1 .. Len(s) /\ i # k
    OBVIOUS
  <2> HIDE DEF a
  <2>2. a \in Seq(S) /\ \A i \in 1 .. Len(a) : a[i] \notin V
    BY <1>1, <2>1
  <2> QED
    BY <2>2, KeepNone
<1>4. Keep(c, V) = <<>>
  <2>1. \A i \in 1 .. Len(c) : c[i] = s[k + i] /\ k + i \in 1 .. Len(s) /\ k + i # k
    <3>1. Len(s) \in Nat /\ k + 1 \in 1 .. Len(s) + 1
      OBVIOUS
    <3>2. Len(c) = Len(s) - k /\ \A i \in 1 .. Len(s) - k : c[i] = s[k + i]
      BY <3>1
    <3> HIDE DEF c
    <3> QED
      BY <3>1, <3>2
  <2> HIDE DEF c
  <2>2. c \in Seq(S) /\ \A i \in 1 .. Len(c) : c[i] \notin V
    BY <1>1, <2>1
  <2> QED
    BY <2>2, KeepNone
<1> HIDE DEF a, c, m
<1>5. Keep(m, V) = m
  <2>1. m \in Seq(S) /\ \A i \in 1 .. Len(m) : m[i] \in V
    BY <1>1, <1>2
  <2> QED
    BY <2>1, KeepAll
<1>6. s = Cat(Cat(a, m), c)
  BY <1>1 DEF Cat
<1>7. Cat(a, m) \in Seq(S)
  BY <1>1, CatType
<1>8. Keep(s, V) = Cat(Cat(Keep(a, V), Keep(m, V)), Keep(c, V))
  <2>1. Keep(Cat(Cat(a, m), c), V) = Cat(Keep(Cat(a, m), V), Keep(c, V))
    BY <1>1, <1>7, KeepCat
  <2>2. Keep(Cat(a, m), V) = Cat(Keep(a, V), Keep(m, V))
    BY <1>1, KeepCat
  <2> QED
    BY <1>6, <2>1, <2>2
<1>9. Cat(<<>>, m) = m /\ Cat(m, <<>>) = m
  BY <1>1, CatEmpty
<1> QED
  BY <1>3, <1>4, <1>5, <1>8, <1>9 DEF m

(* What a filter keeps of sequences of which only the k-th has any, none of *)
(* them for k = 0.                                                          *)
LEMMA KeepFlat ==
    ASSUME NEW S, NEW f \in Seq(Seq(S)), NEW V, NEW k \in 0 .. Len(f),
           \A i \in 1 .. Len(f) : i # k => Keep(f[i], V) = <<>>
    PROVE  Keep(FlattenSeq(f), V) = IF k = 0 THEN <<>> ELSE Keep(f[k], V)
<1> DEFINE U == Seq(S)
           R(t, n) == (\A i \in 1 .. Len(t) : i # n => Keep(t[i], V) = <<>>)
                      => Keep(FlattenSeq(t), V) = IF n = 0 THEN <<>> ELSE Keep(t[n], V)
           T == {t \in Seq(U) : \A n \in 0 .. Len(t) : R(t, n)}
<1> HIDE DEF U
<1>1. <<>> \in T
  <2>1. FlattenSeq(<<>>) = <<>>
    BY DEF FlattenSeq
  <2>2. <<>> \in Seq(U) /\ Len(<<>>) = 0
    BY ShortSeqs
  <2>3. Keep(<<>>, V) = <<>>
    BY KeepEmpty
  <2> QED
    BY <2>1, <2>2, <2>3
<1>2. ASSUME NEW t \in Seq(U), t \in T, NEW x \in U PROVE Append(t, x) \in T
  <2> DEFINE more == Append(t, x)
             N == Len(t)
  <2>1. /\ more \in Seq(U) /\ Len(more) = N + 1 /\ N \in Nat
        /\ more[N + 1] = x
        /\ \A i \in 1 .. N : more[i] = t[i]
    OBVIOUS
  <2>2. FlattenSeq(more) = FlattenSeq(t) \o x
    BY FlatAppend DEF U
  <2>3. FlattenSeq(t) \in Seq(S) /\ x \in Seq(S)
    BY FlatType DEF U
  <2> DEFINE F == FlattenSeq(t)
             K == Keep(F, V)
             X == Keep(x, V)
  <2>4. Keep(FlattenSeq(more), V) = Cat(K, X)
    BY <2>2, <2>3, KeepConcat DEF Cat
  <2>5. K \in Seq(S) /\ X \in Seq(S)
    BY <2>3, KeepType
  <2> HIDE DEF F, K, X, more, N
  <2>6. Cat(K, <<>>) = K /\ Cat(<<>>, X) = X
    BY <2>5, CatEmpty
  <2> SUFFICES ASSUME NEW n \in 0 .. N + 1,
                      \A i \in 1 .. N + 1 : i # n => Keep(more[i], V) = <<>>
               PROVE  Keep(FlattenSeq(more), V) = IF n = 0 THEN <<>> ELSE Keep(more[n], V)
    BY <2>1 DEF more
  <2>7. CASE n = N + 1
    <3>1. \A i \in 1 .. N : i # 0 => Keep(t[i], V) = <<>>
      BY <2>1, <2>7
    <3>2. K = <<>>
      BY <1>2, <2>1, <3>1 DEF K, F, N
    <3> QED
      BY <2>1, <2>4, <2>6, <2>7, <3>2 DEF X
  <2>8. CASE n # N + 1
    <3>1. n \in 0 .. N /\ N + 1 \in 1 .. N + 1
      BY <2>1, <2>8
    <3>2. X = <<>>
      BY <2>1, <2>8, <3>1 DEF X
    <3>3. \A i \in 1 .. N : i # n => Keep(t[i], V) = <<>>
      BY <2>1
    <3>4. K = IF n = 0 THEN <<>> ELSE Keep(t[n], V)
      BY <1>2, <3>1, <3>3 DEF K, F, N
    <3>5. n # 0 => more[n] = t[n]
      BY <2>1, <3>1
    <3> QED
      BY <2>4, <2>6, <3>2, <3>4, <3>5
  <2> QED
    BY <2>7, <2>8
<1> HIDE DEF T
<1>3. Seq(U) \subseteq T
  BY <1>1, <1>2, SeqInduction
<1>4. f \in Seq(U)
  BY DEF U
<1> QED
  BY <1>3, <1>4 DEF T

(* Sequences put one after the other are in the order of their keys when    *)
(* the k-th of them holds the elements of key k - 1.                        *)
LEMMA FlatOrdered ==
    ASSUME NEW S, NEW f \in Seq(Seq(S)), NEW key,
           \A k \in 1 .. Len(f) : \A i \in 1 .. Len(f[k]) : key[f[k][i]] = k - 1
    PROVE  /\ \A i \in 1 .. Len(FlattenSeq(f)) : key[FlattenSeq(f)[i]] \in 0 .. Len(f) - 1
           /\ \A i, j \in 1 .. Len(FlattenSeq(f)) :
                 i < j => key[FlattenSeq(f)[i]] <= key[FlattenSeq(f)[j]]
<1> DEFINE U == Seq(S)
           Keyed(t) == \A k \in 1 .. Len(t) : \A i \in 1 .. Len(t[k]) : key[t[k][i]] = k - 1
           Ordered(t, N) ==
             /\ \A i \in 1 .. Len(t) : key[t[i]] \in 0 .. N - 1
             /\ \A i, j \in 1 .. Len(t) : i < j => key[t[i]] <= key[t[j]]
           T == {t \in Seq(U) : Keyed(t) => Ordered(FlattenSeq(t), Len(t))}
<1> HIDE DEF U
<1>1. <<>> \in T
  <2>1. FlattenSeq(<<>>) = <<>>
    BY DEF FlattenSeq
  <2>2. <<>> \in Seq(U) /\ Len(<<>>) = 0
    BY ShortSeqs
  <2> QED
    BY <2>1, <2>2
<1>2. ASSUME NEW t \in Seq(U), t \in T, NEW x \in U PROVE Append(t, x) \in T
  <2> DEFINE more == Append(t, x)
             N == Len(t)
             F == FlattenSeq(t)
             G == FlattenSeq(more)
  <2>1. /\ more \in Seq(U) /\ Len(more) = N + 1 /\ N \in Nat
        /\ more[N + 1] = x
        /\ \A i \in 1 .. N : more[i] = t[i]
    OBVIOUS
  <2>2. G = F \o x
    BY FlatAppend DEF U
  <2>3. F \in Seq(S) /\ x \in Seq(S)
    BY FlatType DEF U
  <2> HIDE DEF F, G, more, N
  <2>4. /\ Len(G) = Len(F) + Len(x) /\ Len(F) \in Nat /\ Len(x) \in Nat
        /\ \A i \in 1 .. Len(F) : G[i] = F[i]
        /\ \A i \in 1 .. Len(x) : G[Len(F) + i] = x[i]
    BY <2>2, <2>3, ConcatFacts
  <2>5. ASSUME Keyed(more) PROVE Ordered(G, N + 1)
    <3>1. N + 1 \in 1 .. Len(more) /\ \A k \in 1 .. N : k \in 1 .. Len(more)
      BY <2>1
    <3>2. Keyed(t)
      BY <2>1, <2>5, <3>1 DEF N
    <3>3. Ordered(F, N)
      BY <1>2, <3>2 DEF F, N
    <3>4. \A i \in 1 .. Len(x) : key[x[i]] = N
      BY <2>1, <2>5, <3>1
    <3> DEFINE g(i) == key[G[i]]
    <3>5. \A i \in 1 .. Len(G) : IF i <= Len(F) THEN g(i) \in 0 .. N - 1 ELSE g(i) = N
      <4> SUFFICES ASSUME NEW i \in 1 .. Len(G)
                   PROVE  IF i <= Len(F) THEN g(i) \in 0 .. N - 1 ELSE g(i) = N
        OBVIOUS
      <4>1. CASE i <= Len(F)
        <5>1. i \in 1 .. Len(F)
          BY <4>1, <2>4
        <5> QED
          BY <4>1, <5>1, <2>4, <3>3
      <4>2. CASE ~(i <= Len(F))
        <5>1. i - Len(F) \in 1 .. Len(x) /\ Len(F) + (i - Len(F)) = i
          BY <4>2, <2>4
        <5>2. G[i] = x[i - Len(F)]
          BY <5>1, <2>4
        <5> QED
          BY <4>2, <5>1, <5>2, <3>4
      <4> QED
        BY <4>1, <4>2
    <3>6. \A i, j \in 1 .. Len(F) : i < j => g(i) <= g(j)
      BY <2>4, <3>3
    <3> HIDE DEF g
    <3>7. \A i \in 1 .. Len(G) : g(i) \in 0 .. N
      BY <2>1, <3>5
    <3>8. \A i, j \in 1 .. Len(G) : i < j => g(i) <= g(j)
      <4> SUFFICES ASSUME NEW i \in 1 .. Len(G), NEW j \in 1 .. Len(G), i < j PROVE g(i) <= g(j)
        OBVIOUS
      <4>1. CASE j <= Len(F)
        <5>1. i \in 1 .. Len(F) /\ j \in 1 .. Len(F)
          BY <4>1, <2>4
        <5> QED
          BY <5>1, <3>6
      <4>2. CASE ~(j <= Len(F))
        BY <4>2, <2>1, <3>5, <3>7
      <4> QED
        BY <4>1, <4>2
    <3> QED
      BY <2>1, <3>7, <3>8 DEF g
  <2> QED
    BY <2>1, <2>5 DEF G, more
<1> HIDE DEF T
<1>3. Seq(U) \subseteq T
  BY <1>1, <1>2, SeqInduction
<1>4. f \in Seq(U)
  BY DEF U
<1> QED
  BY <1>3, <1>4 DEF T

LEMMA KeepTwo ==
    ASSUME NEW S, NEW s \in Seq(S), NEW V, NEW i \in 1 .. Len(s), NEW j \in 1 .. Len(s),
           i < j, s[i] \in V, s[j] \in V
    PROVE  Len(Keep(s, V)) >= 2
<1> DEFINE r == RemoveAt(s, j)
           k == Keep(r, V)
<1>1. /\ r \in Seq(S) /\ Len(r) = Len(s) - 1
      /\ \A x \in 1 .. Len(s) - 1 : r[x] = IF x < j THEN s[x] ELSE s[x + 1]
  BY RemoveFacts
<1>2. Len(k) = Len(Keep(s, V)) - 1
  BY KeepRemoved
<1>3. Keep(s, V) \in Seq(S)
  BY KeepType
<1> HIDE DEF r
<1>4. i \in 1 .. Len(r) /\ r[i] = s[i]
  BY <1>1
<1>5. k \in Seq(S)
  BY <1>1, KeepType
<1>6. ToSet(k) = ToSet(r) \cap V
  BY <1>1, KeepElements
<1>7. ToSet(r) = {r[x] : x \in 1 .. Len(r)}
  BY <1>1, ElementsOf
<1>8. s[i] \in ToSet(k)
  BY <1>4, <1>6, <1>7
<1>9. ToSet(k) = {k[x] : x \in 1 .. Len(k)}
  BY <1>5, ElementsOf
<1> HIDE DEF k
<1>10. Len(k) >= 1
  BY <1>5, <1>8, <1>9
<1> DEFINE x == Len(k)
           y == Len(Keep(s, V))
<1>11. x \in Nat /\ y \in Nat /\ x = y - 1 /\ x >= 1
  BY <1>2, <1>3, <1>5, <1>10
<1> HIDE DEF x, y
<1>12. y >= 2
  BY <1>11
<1> QED
  BY <1>12 DEF y

(* What holds of every two elements, in their order, holds of those kept. *)
LEMMA KeepOrdered ==
    ASSUME NEW S, NEW s \in Seq(S), NEW V, NEW R,
           \A i, j \in 1 .. Len(s) : i < j /\ s[i] \in V /\ s[j] \in V => <<s[i], s[j]>> \in R
    PROVE  \A i, j \in 1 .. Len(Keep(s, V)) : i < j => <<Keep(s, V)[i], Keep(s, V)[j]>> \in R
<1> DEFINE Before(t) == \A i, j \in 1 .. Len(t) : i < j /\ t[i] \in V /\ t[j] \in V => <<t[i], t[j]>> \in R
           After(k) == \A i, j \in 1 .. Len(k) : i < j => <<k[i], k[j]>> \in R
           T == {t \in Seq(S) : Before(t) => After(Keep(t, V))}
<1>1. <<>> \in T
  <2>1. Keep(<<>>, V) = <<>> /\ <<>> \in Seq(S)
    BY KeepEmpty
  <2>2. After(<<>>)
    OBVIOUS
  <2> HIDE DEF Before, After
  <2> QED
    BY <2>1, <2>2
<1>2. ASSUME NEW t \in Seq(S), t \in T, NEW x \in S PROVE Append(t, x) \in T
  <2> DEFINE u == Append(t, x)
             k == Keep(t, V)
             c == Append(k, x)
  <2>1. /\ u \in Seq(S) /\ Len(u) = Len(t) + 1 /\ Len(t) \in Nat /\ u[Len(t) + 1] = x
        /\ \A i \in 1 .. Len(t) : u[i] = t[i]
    OBVIOUS
  <2>2. Keep(u, V) = IF x \in V THEN c ELSE k
    BY KeepAppend
  <2>3. k \in Seq(S)
    BY KeepType
  <2>4. ToSet(k) = ToSet(t) \cap V
    BY KeepElements
  <2>5. ToSet(t) = {t[i] : i \in 1 .. Len(t)}
    BY ElementsOf
  <2>6. ToSet(k) = {k[i] : i \in 1 .. Len(k)}
    BY <2>3, ElementsOf
  <2> HIDE DEF u, k
  <2>7. /\ Len(c) = Len(k) + 1 /\ Len(k) \in Nat /\ c[Len(k) + 1] = x
        /\ \A i \in 1 .. Len(k) : c[i] = k[i]
    BY <2>3
  <2> HIDE DEF c
  <2>8. ASSUME Before(u) PROVE After(Keep(u, V))
    <3>1. Before(t)
      BY <2>1, <2>8
    <3>2. After(k)
      <4> HIDE DEF Before, After
      <4> QED
        BY <1>2, <3>1 DEF k
    <3>3. ASSUME x \in V PROVE After(c)
      <4>1. ASSUME NEW i \in 1 .. Len(k) PROVE <<k[i], x>> \in R
        <5>1. k[i] \in V /\ k[i] \in ToSet(t)
          BY <2>4, <2>6
        <5>2. PICK n \in 1 .. Len(t) : k[i] = t[n]
          BY <2>5, <5>1
        <5>3. n \in 1 .. Len(u) /\ Len(t) + 1 \in 1 .. Len(u) /\ n < Len(t) + 1 /\ u[n] = k[i]
          BY <2>1, <5>2
        <5> QED
          BY <2>1, <2>8, <3>3, <5>1, <5>3
      <4>2. ASSUME NEW i \in 1 .. Len(c), NEW j \in 1 .. Len(c), i < j PROVE <<c[i], c[j]>> \in R
        <5>1. i \in 1 .. Len(k) /\ c[i] = k[i]
          BY <2>7, <4>2
        <5>2. CASE j = Len(k) + 1
          BY <2>7, <4>1, <5>1, <5>2
        <5>3. CASE j \in 1 .. Len(k)
          BY <2>7, <3>2, <4>2, <5>1, <5>3
        <5> QED
          BY <2>7, <5>2, <5>3
      <4> QED
        BY <4>2
    <3> HIDE DEF After
    <3> QED
      BY <2>2, <3>2, <3>3
  <2>9. u \in T
    <3> HIDE DEF Before, After
    <3> QED
      BY <2>1, <2>8
  <2> QED
    BY <2>9 DEF u
<1> HIDE DEF T
<1>3. Seq(S) \subseteq T
  BY <1>1, <1>2, SeqInduction
<1>4. s \in T
  BY <1>3
<1>5. Before(s)
  OBVIOUS
<1> HIDE DEF Before, After
<1>6. After(Keep(s, V))
  BY <1>4, <1>5 DEF T
<1> QED
  BY <1>6 DEF After
=============================================================================
