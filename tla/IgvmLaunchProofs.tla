-------------------------- MODULE IgvmLaunchProofs --------------------------
(***************************************************************************)
(* Proofs that the file igvm-tools builds holds what its HOBs describe,    *)
(* that the launch digest covers the right memory in the right order, and  *)
(* that the manifest says what is in the file, for every firmware, set of  *)
(* blobs and command line that fit in memory.                              *)
(***************************************************************************)
EXTENDS IgvmLaunch, SequenceInduction

IsSeq(s) == s \in Seq(ToSet(s))

(* A sequence over any set is one over its elements. *)
LEMMA SeqIsSeq ==
    ASSUME NEW S, NEW s \in Seq(S)
    PROVE  IsSeq(s)
BY ElementsOf DEF IsSeq

(* Two sequences are sequences over one set. *)
LEMMA OneSet ==
    ASSUME NEW a, NEW b, IsSeq(a), IsSeq(b)
    PROVE  \E S : a \in Seq(S) /\ b \in Seq(S)
<1> DEFINE S == ToSet(a) \cup ToSet(b)
<1>1. a \in Seq(ToSet(a)) /\ b \in Seq(ToSet(b)) /\ ToSet(a) \subseteq S /\ ToSet(b) \subseteq S
  BY DEF IsSeq
<1> HIDE DEF S
<1>2. a \in Seq(S) /\ b \in Seq(S)
  BY <1>1
<1> QED
  BY <1>2

LEMMA CatIsSeq ==
    ASSUME NEW a, NEW b, IsSeq(a), IsSeq(b)
    PROVE  IsSeq(Cat(a, b)) /\ IsSeq(a \o b)
<1>1. PICK S : a \in Seq(S) /\ b \in Seq(S)
  BY OneSet
<1>2. Cat(a, b) \in Seq(S)
  BY <1>1, CatType
<1>3. IsSeq(Cat(a, b))
  BY <1>2, SeqIsSeq
<1> QED
  BY <1>3 DEF Cat

LEMMA EmptyIsSeq == IsSeq(<<>>)
<1>1. <<>> \in Seq({})
  BY ShortSeqs
<1> QED
  BY <1>1, SeqIsSeq

-----------------------------------------------------------------------------
(* The pages of a file at one address. *)

AtSet(S, g) == {d \in S : d.kind = "page" /\ d.gpa = g}

LEMMA PagesKeep ==
    ASSUME NEW S, NEW ds \in Seq(S), NEW g
    PROVE  PagesAt(ds, g) = Keep(ds, AtSet(S, g))
<1> DEFINE V == {d \in ToSet(ds) : d.kind = "page" /\ d.gpa = g}
           W == AtSet(S, g)
<1>1. \A i \in 1 .. Len(ds) : ds[i] \in S /\ ds[i] \in ToSet(ds)
  BY ElementsOf
<1>2. \A i \in 1 .. Len(ds) : ds[i] \in V <=> ds[i] \in W
  BY <1>1 DEF AtSet
<1>3. PagesAt(ds, g) = Keep(ds, V)
  BY DEF PagesAt, Where
<1> HIDE DEF V, W
<1>4. Keep(ds, V) = Keep(ds, W)
  BY <1>2, KeepSame
<1> QED
  BY <1>3, <1>4 DEF W

LEMMA PagesIsSeq ==
    ASSUME NEW ds, IsSeq(ds), NEW g
    PROVE  IsSeq(PagesAt(ds, g))
<1> DEFINE S == ToSet(ds)
<1>1. ds \in Seq(S)
  BY DEF IsSeq
<1> HIDE DEF S
<1>2. PagesAt(ds, g) = Keep(ds, AtSet(S, g))
  BY <1>1, PagesKeep
<1>3. Keep(ds, AtSet(S, g)) \in Seq(S)
  BY <1>1, KeepType
<1> QED
  BY <1>2, <1>3, SeqIsSeq

LEMMA PagesCat ==
    ASSUME NEW a, NEW b, IsSeq(a), IsSeq(b), NEW g
    PROVE  PagesAt(Cat(a, b), g) = Cat(PagesAt(a, g), PagesAt(b, g))
<1>1. PICK S : a \in Seq(S) /\ b \in Seq(S)
  BY OneSet
<1>2. Cat(a, b) \in Seq(S)
  BY <1>1, CatType
<1>3. Keep(Cat(a, b), AtSet(S, g)) = Cat(Keep(a, AtSet(S, g)), Keep(b, AtSet(S, g)))
  BY <1>1, KeepCat
<1> QED
  BY <1>1, <1>2, <1>3, PagesKeep

(* Cutting a range out takes the pages in it and no others. *)
LEMMA PagesWithout ==
    ASSUME NEW ds, IsSeq(ds), NEW base \in Nat, NEW size \in Nat \ {0}, NEW g \in Nat
    PROVE  /\ IsSeq(WithoutPages(ds, base, size))
           /\ PagesAt(WithoutPages(ds, base, size), g) =
                IF g >= base /\ g < base + size THEN <<>> ELSE PagesAt(ds, g)
<1> DEFINE S == ToSet(ds)
           V == {d \in S : ~(d.kind = "page" /\ d.gpa >= base /\ d.gpa < base + size)}
           W == AtSet(S, g)
           E == {}
<1>1. ds \in Seq(S)
  BY DEF IsSeq
<1>2. WithoutPages(ds, base, size) = Keep(ds, V)
  BY DEF WithoutPages, Where
<1>3. CASE g >= base /\ g < base + size
  <2>1. V \cap W = {}
    BY <1>3 DEF AtSet
  <2> HIDE DEF S, V, W
  <2>2. Keep(ds, V) \in Seq(S) /\ Keep(Keep(ds, V), W) = Keep(ds, V \cap W)
    <3>1. Keep(ds, V) \in Seq(S)
      BY <1>1, KeepType
    <3>2. Keep(Keep(ds, V), W) = Keep(ds, V \cap W)
      BY <1>1, KeepKeep
    <3> QED
      BY <3>1, <3>2
  <2>3. Keep(ds, {}) = <<>>
    <3>1. ds \in Seq(S) /\ \A i \in 1 .. Len(ds) : ds[i] \notin E
      BY <1>1
    <3> HIDE DEF E
    <3>2. Keep(ds, E) = <<>>
      BY <3>1, KeepNone
    <3> QED
      BY <3>2 DEF E
  <2>4. PagesAt(Keep(ds, V), g) = Keep(Keep(ds, V), W)
    BY <2>2, PagesKeep DEF W
  <2> QED
    BY <1>2, <1>3, <2>1, <2>2, <2>3, <2>4, SeqIsSeq
<1>4. CASE ~(g >= base /\ g < base + size)
  <2>1. V \cap W = W
    BY <1>4 DEF AtSet
  <2> HIDE DEF S, V, W
  <2>2. Keep(ds, V) \in Seq(S) /\ Keep(Keep(ds, V), W) = Keep(ds, V \cap W)
    <3>1. Keep(ds, V) \in Seq(S)
      BY <1>1, KeepType
    <3>2. Keep(Keep(ds, V), W) = Keep(ds, V \cap W)
      BY <1>1, KeepKeep
    <3> QED
      BY <3>1, <3>2
  <2>3. PagesAt(Keep(ds, V), g) = Keep(Keep(ds, V), W) /\ PagesAt(ds, g) = Keep(ds, W)
    BY <1>1, <2>2, PagesKeep DEF W
  <2> QED
    BY <1>2, <1>4, <2>1, <2>2, <2>3, SeqIsSeq
<1> QED
  BY <1>3, <1>4

(* A blob has one page at each of its addresses. *)
LEMMA PagesData ==
    ASSUME NEW base \in Nat, NEW blob, IsSeq(blob), NEW mask, NEW measured, NEW g \in Nat
    PROVE  /\ IsSeq(DataPages(base, blob, mask, measured))
           /\ PagesAt(DataPages(base, blob, mask, measured), g) =
                IF g >= base /\ g < base + Len(blob)
                THEN <<Page(g, mask, "NORMAL", measured, blob[g - base + 1])>> ELSE <<>>
<1> DEFINE n == Len(blob)
           P(i) == Page(base + i - 1, mask, "NORMAL", measured, blob[i])
           S == {P(i) : i \in 1 .. n}
           f == [i \in 1 .. n |-> P(i)]
           V == AtSet(S, g)
<1>1. n \in Nat /\ DOMAIN blob = 1 .. n
  BY DEF IsSeq
<1>2. f = DataPages(base, blob, mask, measured)
  BY <1>1 DEF DataPages
<1>3. f \in Seq(S) /\ Len(f) = n
  <2>1. f \in [1 .. n -> S]
    OBVIOUS
  <2> HIDE DEF f, S
  <2> QED
    BY <1>1, <2>1, FunIsSeq
<1>4. PagesAt(f, g) = Keep(f, V)
  <2> HIDE DEF f, S
  <2> QED
    BY <1>3, PagesKeep
<1>5. \A i \in 1 .. n : f[i] \in V <=> base + i - 1 = g
  BY DEF AtSet, Page
<1>6. CASE g >= base /\ g < base + n
  <2> DEFINE k == g - base + 1
  <2>1. k \in 1 .. n /\ \A i \in 1 .. n : base + i - 1 = g <=> i = k
    BY <1>1, <1>6
  <2>2. f[k] = Page(g, mask, "NORMAL", measured, blob[g - base + 1])
    BY <2>1
  <2>3. Keep(f, V) = <<f[k]>>
    <3> HIDE DEF f, S, V, k, n
    <3>1. f \in Seq(S) /\ k \in 1 .. Len(f) /\ f[k] \in V /\ \A i \in 1 .. Len(f) : f[i] \in V => i = k
      BY <1>3, <1>5, <2>1
    <3> QED
      BY <3>1, KeepOne
  <2> HIDE DEF f, S
  <2> QED
    BY <1>2, <1>3, <1>4, <1>6, <2>2, <2>3, SeqIsSeq
<1>7. CASE ~(g >= base /\ g < base + n)
  <2>1. \A i \in 1 .. n : base + i - 1 # g
    BY <1>1, <1>7
  <2>2. Keep(f, V) = <<>>
    <3> HIDE DEF f, S, V, n
    <3>1. f \in Seq(S) /\ \A i \in 1 .. Len(f) : f[i] \notin V
      BY <1>3, <1>5, <2>1
    <3> QED
      BY <3>1, KeepNone
  <2> HIDE DEF f, S
  <2> QED
    BY <1>2, <1>3, <1>4, <1>7, <2>2, SeqIsSeq
<1> QED
  BY <1>6, <1>7

\* What is no page.
Others(ds) == Where(ds, LAMBDA d : d.kind # "page")
OtherSet(S) == {d \in S : d.kind # "page"}

LEMMA OthersKeep ==
    ASSUME NEW S, NEW ds \in Seq(S)
    PROVE  Others(ds) = Keep(ds, OtherSet(S)) /\ Others(ds) \in Seq(S)
<1> DEFINE V == {d \in ToSet(ds) : d.kind # "page"}
           W == OtherSet(S)
<1>1. \A i \in 1 .. Len(ds) : ds[i] \in S /\ ds[i] \in ToSet(ds)
  BY ElementsOf
<1>2. \A i \in 1 .. Len(ds) : ds[i] \in V <=> ds[i] \in W
  BY <1>1 DEF OtherSet
<1>3. Others(ds) = Keep(ds, V)
  BY DEF Others, Where
<1> HIDE DEF V, W
<1>4. Keep(ds, V) = Keep(ds, W)
  BY <1>2, KeepSame
<1>5. Keep(ds, W) \in Seq(S)
  BY KeepType
<1> QED
  BY <1>3, <1>4, <1>5 DEF W

LEMMA OthersIsSeq ==
    ASSUME NEW ds, IsSeq(ds)
    PROVE  IsSeq(Others(ds))
<1> DEFINE S == ToSet(ds)
<1>1. ds \in Seq(S)
  BY DEF IsSeq
<1> HIDE DEF S
<1>2. Others(ds) \in Seq(S)
  BY <1>1, OthersKeep
<1> QED
  BY <1>2, SeqIsSeq

LEMMA OthersCat ==
    ASSUME NEW a, NEW b, IsSeq(a), IsSeq(b)
    PROVE  Others(Cat(a, b)) = Cat(Others(a), Others(b))
<1>1. PICK S : a \in Seq(S) /\ b \in Seq(S)
  BY OneSet
<1>2. Cat(a, b) \in Seq(S)
  BY <1>1, CatType
<1>3. Keep(Cat(a, b), OtherSet(S)) = Cat(Keep(a, OtherSet(S)), Keep(b, OtherSet(S)))
  BY <1>1, KeepCat
<1> QED
  BY <1>1, <1>2, <1>3, OthersKeep

LEMMA OthersWithout ==
    ASSUME NEW ds, IsSeq(ds), NEW base \in Nat, NEW size \in Nat \ {0}
    PROVE  Others(WithoutPages(ds, base, size)) = Others(ds)
<1> DEFINE S == ToSet(ds)
           V == {d \in S : ~(d.kind = "page" /\ d.gpa >= base /\ d.gpa < base + size)}
           W == OtherSet(S)
<1>1. ds \in Seq(S)
  BY DEF IsSeq
<1>2. WithoutPages(ds, base, size) = Keep(ds, V)
  BY DEF WithoutPages, Where
<1>3. V \cap W = W
  BY DEF OtherSet
<1> HIDE DEF S, V, W
<1>4. Keep(ds, V) \in Seq(S)
  BY <1>1, KeepType
<1>5. Keep(Keep(ds, V), W) = Keep(ds, V \cap W)
  BY <1>1, KeepKeep
<1>6. Others(Keep(ds, V)) = Keep(Keep(ds, V), W) /\ Others(ds) = Keep(ds, W)
  BY <1>1, <1>4, OthersKeep DEF W
<1> QED
  BY <1>2, <1>3, <1>5, <1>6

(* A sequence of pages has nothing else in it. *)
LEMMA OthersNone ==
    ASSUME NEW S, NEW s \in Seq(S), \A i \in 1 .. Len(s) : s[i].kind = "page"
    PROVE  Others(s) = <<>>
<1> DEFINE W == OtherSet(S)
<1>1. \A i \in 1 .. Len(s) : s[i] \notin W
  BY DEF OtherSet
<1>2. Others(s) = Keep(s, W)
  BY OthersKeep
<1> HIDE DEF W
<1> QED
  BY <1>1, <1>2, KeepNone

LEMMA OthersData ==
    ASSUME NEW base \in Nat, NEW blob, IsSeq(blob), NEW mask, NEW measured
    PROVE  Others(DataPages(base, blob, mask, measured)) = <<>>
<1> DEFINE n == Len(blob)
           P(i) == Page(base + i - 1, mask, "NORMAL", measured, blob[i])
           S == {P(i) : i \in 1 .. n}
           f == [i \in 1 .. n |-> P(i)]
<1>1. n \in Nat /\ DOMAIN blob = 1 .. n
  BY DEF IsSeq
<1>2. f = DataPages(base, blob, mask, measured)
  BY <1>1 DEF DataPages
<1>3. f \in [1 .. n -> S] /\ \A i \in 1 .. n : f[i].kind = "page"
  BY DEF Page
<1> HIDE DEF f, S
<1>4. f \in Seq(S) /\ Len(f) = n
  BY <1>1, <1>3, FunIsSeq
<1> QED
  BY <1>2, <1>3, <1>4, OthersNone

-----------------------------------------------------------------------------
(* The sort. *)

KeySet(S, c) == {d \in S : SortKey(d) = c}
Buckets(S, ds) == [k \in 1 .. FourG |-> Keep(ds, KeySet(S, k - 1))]

LEMMA SortBuckets ==
    ASSUME NEW S, NEW ds \in Seq(S)
    PROVE  /\ SortPages(ds) = FlattenSeq(Buckets(S, ds))
           /\ Buckets(S, ds) \in Seq(Seq(S)) /\ Len(Buckets(S, ds)) = FourG
           /\ SortPages(ds) \in Seq(S)
<1> DEFINE W(k) == {d \in ToSet(ds) : SortKey(d) = k - 1}
           f == [k \in 1 .. FourG |-> Keep(ds, W(k))]
           b == Buckets(S, ds)
           U == Seq(S)
<1>1. SortPages(ds) = FlattenSeq(f)
  BY DEF SortPages, Where
<1>2. \A k \in 1 .. FourG : Keep(ds, W(k)) = Keep(ds, KeySet(S, k - 1))
  <2> SUFFICES ASSUME NEW k \in 1 .. FourG PROVE Keep(ds, W(k)) = Keep(ds, KeySet(S, k - 1))
    OBVIOUS
  <2> DEFINE A == W(k)
             B == KeySet(S, k - 1)
  <2>1. \A i \in 1 .. Len(ds) : ds[i] \in S /\ ds[i] \in ToSet(ds)
    BY ElementsOf
  <2>2. \A i \in 1 .. Len(ds) : ds[i] \in A <=> ds[i] \in B
    BY <2>1 DEF KeySet
  <2> HIDE DEF A, B
  <2>3. Keep(ds, A) = Keep(ds, B)
    BY <2>2, KeepSame
  <2> QED
    BY <2>3 DEF A, B
<1>3. f = b
  BY <1>2 DEF Buckets
<1>4. FourG \in Nat
  BY LayoutAssumption
<1>5. b \in Seq(U) /\ Len(b) = FourG
  <2>1. \A k \in 1 .. FourG : Keep(ds, KeySet(S, k - 1)) \in U
    <3> SUFFICES ASSUME NEW k \in 1 .. FourG PROVE Keep(ds, KeySet(S, k - 1)) \in U
      OBVIOUS
    <3> DEFINE B == KeySet(S, k - 1)
    <3> HIDE DEF B
    <3>1. Keep(ds, B) \in Seq(S)
      BY KeepType
    <3> QED
      BY <3>1 DEF B
  <2> HIDE DEF U
  <2>2. b \in [1 .. FourG -> U]
    BY <2>1 DEF Buckets
  <2> HIDE DEF b
  <2> QED
    BY <1>4, <2>2, FunIsSeq
<1>6. FlattenSeq(b) \in Seq(S)
  <2> HIDE DEF b
  <2> QED
    BY <1>5, FlatType
<1> QED
  BY <1>1, <1>3, <1>5, <1>6

(* The sort keeps the order of what has one key. *)
LEMMA SortKeeps ==
    ASSUME NEW S, NEW ds \in Seq(S), NEW c \in 0 .. FourG - 1, NEW V,
           \A d \in S : d \in V => SortKey(d) = c
    PROVE  Keep(SortPages(ds), V) = Keep(ds, V)
<1> DEFINE b == Buckets(S, ds)
           m == c + 1
<1>1. FourG \in Nat
  BY LayoutAssumption
<1>2. SortPages(ds) = FlattenSeq(b) /\ b \in Seq(Seq(S)) /\ Len(b) = FourG
  BY SortBuckets
<1>3. \A k \in 1 .. FourG : Keep(b[k], V) = Keep(ds, KeySet(S, k - 1) \cap V)
  <2> SUFFICES ASSUME NEW k \in 1 .. FourG
               PROVE  Keep(b[k], V) = Keep(ds, KeySet(S, k - 1) \cap V)
    OBVIOUS
  <2> DEFINE B == KeySet(S, k - 1)
  <2>1. b[k] = Keep(ds, B)
    BY DEF Buckets
  <2> HIDE DEF b, B
  <2>2. Keep(Keep(ds, B), V) = Keep(ds, B \cap V)
    BY KeepKeep
  <2> QED
    BY <2>1, <2>2 DEF B
<1>4. \A k \in 1 .. FourG : k # m => Keep(b[k], V) = <<>>
  <2> SUFFICES ASSUME NEW k \in 1 .. FourG, k # m PROVE Keep(b[k], V) = <<>>
    OBVIOUS
  <2> DEFINE A == KeySet(S, k - 1) \cap V
  <2>1. \A d \in S : d \notin A
    BY <1>1 DEF KeySet
  <2>2. \A i \in 1 .. Len(ds) : ds[i] \notin A
    <3> HIDE DEF A
    <3> QED
      BY <2>1
  <2>3. Keep(b[k], V) = Keep(ds, A)
    BY <1>3
  <2> HIDE DEF A
  <2>4. Keep(ds, A) = <<>>
    BY <2>2, KeepNone
  <2> QED
    BY <2>3, <2>4
<1>5. m \in 0 .. FourG /\ m # 0 /\ m \in 1 .. FourG
  BY <1>1
<1>6. Keep(FlattenSeq(b), V) = IF m = 0 THEN <<>> ELSE Keep(b[m], V)
  <2> HIDE DEF b, m
  <2>1. b \in Seq(Seq(S)) /\ m \in 0 .. Len(b) /\ \A i \in 1 .. Len(b) : i # m => Keep(b[i], V) = <<>>
    BY <1>2, <1>4, <1>5
  <2> QED
    BY <2>1, KeepFlat
<1>7. Keep(b[m], V) = Keep(ds, V)
  <2> DEFINE A == KeySet(S, m - 1) \cap V
  <2>1. \A i \in 1 .. Len(ds) : ds[i] \in A <=> ds[i] \in V
    BY <1>5 DEF KeySet
  <2>2. Keep(b[m], V) = Keep(ds, A)
    BY <1>3, <1>5
  <2> HIDE DEF A
  <2>3. Keep(ds, A) = Keep(ds, V)
    BY <2>1, KeepSame
  <2> QED
    BY <2>2, <2>3
<1> QED
  BY <1>2, <1>5, <1>6, <1>7

LEMMA PagesSort ==
    ASSUME NEW ds, IsSeq(ds), NEW g \in 0 .. FourG - 1
    PROVE  IsSeq(SortPages(ds)) /\ PagesAt(SortPages(ds), g) = PagesAt(ds, g)
<1> DEFINE S == ToSet(ds)
           V == AtSet(S, g)
<1>1. ds \in Seq(S)
  BY DEF IsSeq
<1>2. \A d \in S : d \in V => SortKey(d) = g
  BY DEF AtSet, SortKey
<1> HIDE DEF S, V
<1>3. SortPages(ds) \in Seq(S)
  BY <1>1, SortBuckets
<1>4. Keep(SortPages(ds), V) = Keep(ds, V)
  BY <1>1, <1>2, SortKeeps
<1>5. PagesAt(ds, g) = Keep(ds, V) /\ PagesAt(SortPages(ds), g) = Keep(SortPages(ds), V)
  BY <1>1, <1>3, PagesKeep DEF V
<1> QED
  BY <1>3, <1>4, <1>5, SeqIsSeq

(* The sort puts keys in their order and leaves no page above memory. *)
LEMMA SortOrdered ==
    ASSUME NEW ds, IsSeq(ds)
    PROVE  /\ \A i \in 1 .. Len(SortPages(ds)) : SortKey(SortPages(ds)[i]) \in 0 .. FourG - 1
           /\ \A i, j \in 1 .. Len(SortPages(ds)) :
                 i < j => SortKey(SortPages(ds)[i]) <= SortKey(SortPages(ds)[j])
<1> DEFINE S == ToSet(ds)
           b == Buckets(S, ds)
           key == [d \in S |-> SortKey(d)]
           t == SortPages(ds)
<1>1. ds \in Seq(S)
  BY DEF IsSeq
<1>2. t = FlattenSeq(b) /\ b \in Seq(Seq(S)) /\ Len(b) = FourG /\ t \in Seq(S)
  <2> HIDE DEF S
  <2> QED
    BY <1>1, SortBuckets
<1>3. \A k \in 1 .. Len(b) : \A i \in 1 .. Len(b[k]) : key[b[k][i]] = k - 1
  <2> SUFFICES ASSUME NEW k \in 1 .. Len(b), NEW i \in 1 .. Len(b[k]) PROVE key[b[k][i]] = k - 1
    OBVIOUS
  <2> DEFINE B == KeySet(S, k - 1)
             x == b[k]
  <2>1. x = Keep(ds, B)
    BY <1>2 DEF Buckets
  <2>2. Keep(ds, B) \in Seq(S \cap B)
    <3> HIDE DEF S, B
    <3> QED
      BY <1>1, KeepType
  <2>3. x[i] \in S \cap B
    <3> HIDE DEF S, B
    <3> QED
      BY <2>1, <2>2
  <2>4. x[i] \in S /\ SortKey(x[i]) = k - 1
    BY <2>3 DEF KeySet
  <2> QED
    BY <2>4
<1> HIDE DEF b, key, S
<1>4. /\ \A i \in 1 .. Len(t) : key[t[i]] \in 0 .. FourG - 1
      /\ \A i, j \in 1 .. Len(t) : i < j => key[t[i]] <= key[t[j]]
  BY <1>2, <1>3, FlatOrdered
<1> HIDE DEF t
<1>5. \A i \in 1 .. Len(t) : key[t[i]] = SortKey(t[i])
  BY <1>2 DEF key
<1>6. /\ \A i \in 1 .. Len(t) : SortKey(t[i]) \in 0 .. FourG - 1
      /\ \A i, j \in 1 .. Len(t) : i < j => SortKey(t[i]) <= SortKey(t[j])
  BY <1>4, <1>5
<1> QED
  BY <1>6 DEF t

-----------------------------------------------------------------------------
(* The blobs and the HOBs that describe them. *)

GoodBlobs(bs) ==
    DOMAIN bs \subseteq ToSet(BlobOrder) /\ \A b \in DOMAIN bs : IsBlob(bs[b])

LEMMA GivenFacts ==
    ASSUME NEW bs, GoodBlobs(bs)
    PROVE  /\ Given(bs) \in Seq(DOMAIN bs) /\ ToSet(Given(bs)) = DOMAIN bs
<1> DEFINE S == ToSet(BlobOrder)
           V == {b \in S : b \in DOMAIN bs}
<1>1. BlobOrder \in Seq(S)
  <2>1. BlobOrder \in Seq({"pk", "kek", "db", "dbx", "shim", "kernel"})
    BY DEF BlobOrder
  <2> QED
    BY <2>1, ElementsOf
<1>2. Given(bs) = Keep(BlobOrder, V)
  BY DEF Given, Where
<1>3. S \cap V = DOMAIN bs
  BY DEF GoodBlobs
<1> HIDE DEF V
<1>4. ToSet(Keep(BlobOrder, V)) = S \cap V
  BY <1>1, KeepElements
<1>5. Keep(BlobOrder, V) \in Seq(S \cap V)
  <2> HIDE DEF S
  <2> QED
    BY <1>1, KeepType
<1> QED
  BY <1>2, <1>3, <1>4, <1>5

BlobLen(bs, i) == Len(bs[Given(bs)[i]])

(* Every blob begins where the one before it ends. *)
LEMMA BlobAddrs ==
    ASSUME NEW bs, GoodBlobs(bs)
    PROVE  /\ BlobAddr(bs, 1) = DataBase
           /\ \A i \in 1 .. Len(Given(bs)) :
                /\ BlobAddr(bs, i) \in Nat /\ BlobLen(bs, i) \in Nat \ {0}
                /\ BlobAddr(bs, i + 1) = BlobAddr(bs, i) + BlobLen(bs, i)
<1> DEFINE X == UNION {ToSet(bs[b]) : b \in DOMAIN bs}
           U == Seq(X)
           G == Given(bs)
           N == Len(G)
           s(i) == [j \in 1 .. i - 1 |-> bs[G[j]]]
<1>1. G \in Seq(DOMAIN bs) /\ N \in Nat
  BY GivenFacts
<1> HIDE DEF G
<1>2. \A b \in DOMAIN bs : bs[b] \in U /\ Len(bs[b]) \in Nat \ {0}
  <2> SUFFICES ASSUME NEW b \in DOMAIN bs PROVE bs[b] \in U /\ Len(bs[b]) \in Nat \ {0}
    OBVIOUS
  <2> DEFINE p == bs[b]
  <2>1. p \in Seq(ToSet(p)) /\ p # <<>> /\ ToSet(p) \subseteq X
    BY DEF GoodBlobs, IsBlob
  <2> HIDE DEF p, X
  <2>2. p \in Seq(X) /\ Len(p) \in Nat \ {0}
    BY <2>1
  <2> QED
    BY <2>2 DEF p
<1>3. \A j \in 1 .. N : bs[G[j]] \in U /\ Len(bs[G[j]]) \in Nat \ {0}
  BY <1>1, <1>2
<1>4. \A i \in 1 .. N + 1 : s(i) \in Seq(U) /\ Len(s(i)) = i - 1
  <2> SUFFICES ASSUME NEW i \in 1 .. N + 1 PROVE s(i) \in Seq(U) /\ Len(s(i)) = i - 1
    OBVIOUS
  <2>1. i - 1 \in Nat /\ \A j \in 1 .. i - 1 : j \in 1 .. N
    BY <1>1
  <2> HIDE DEF U
  <2>2. s(i) \in [1 .. i - 1 -> U]
    BY <1>3, <2>1
  <2> HIDE DEF s
  <2> QED
    BY <2>1, <2>2, FunIsSeq
<1>5. DataBase \in Nat
  BY LayoutAssumption
<1>6. \A i \in 1 .. N + 1 : FlattenSeq(s(i)) \in Seq(X)
  <2> SUFFICES ASSUME NEW i \in 1 .. N + 1 PROVE FlattenSeq(s(i)) \in Seq(X)
    OBVIOUS
  <2> HIDE DEF s, X
  <2>1. s(i) \in Seq(Seq(X))
    BY <1>4
  <2> QED
    BY <2>1, FlatType
<1>7. \A i \in 1 .. N : s(i + 1) = Append(s(i), bs[G[i]])
  <2> SUFFICES ASSUME NEW i \in 1 .. N PROVE s(i + 1) = Append(s(i), bs[G[i]])
    OBVIOUS
  <2>1. /\ i \in 1 .. N + 1 /\ i + 1 \in 1 .. N + 1 /\ (i + 1) - 1 = i
        /\ (i - 1) + 1 = i /\ \A j \in 1 .. i : j # i => j \in 1 .. i - 1
    BY <1>1
  <2>2. Append(s(i), bs[G[i]]) = [j \in 1 .. i |-> IF j = i THEN bs[G[i]] ELSE s(i)[j]]
    <3> HIDE DEF s, U
    <3>1. s(i) \in Seq(U) /\ Len(s(i)) + 1 = i /\ bs[G[i]] \in U /\ i \in Nat
      BY <1>3, <1>4, <2>1
    <3> QED
      BY <3>1
  <2>3. \A j \in 1 .. i : (IF j = i THEN bs[G[i]] ELSE s(i)[j]) = bs[G[j]]
    BY <2>1
  <2>4. s(i + 1) = [j \in 1 .. i |-> bs[G[j]]]
    BY <2>1
  <2> QED
    BY <2>2, <2>3, <2>4
<1>8. BlobAddr(bs, 1) = DataBase
  <2>1. FlattenSeq(<<>>) = <<>>
    BY DEF FlattenSeq
  <2>2. s(1) = <<>>
    <3> HIDE DEF s, U
    <3>1. 1 \in 1 .. N + 1
      BY <1>1
    <3>2. s(1) \in Seq(U) /\ Len(s(1)) = 0
      BY <1>4, <3>1
    <3> QED
      BY <3>2
  <2>3. BlobAddr(bs, 1) = DataBase + Len(FlattenSeq(s(1)))
    BY DEF BlobAddr, G
  <2> QED
    BY <1>5, <2>1, <2>2, <2>3
<1>9. ASSUME NEW i \in 1 .. N
      PROVE  /\ BlobAddr(bs, i) \in Nat /\ BlobLen(bs, i) \in Nat \ {0}
             /\ BlobAddr(bs, i + 1) = BlobAddr(bs, i) + BlobLen(bs, i)
  <2> DEFINE F == FlattenSeq(s(i))
             b == bs[G[i]]
             H == FlattenSeq(s(i + 1))
  <2>1. i \in 1 .. N + 1 /\ s(i) \in Seq(U) /\ b \in U /\ F \in Seq(X) /\ Len(b) \in Nat \ {0}
    <3>1. i \in 1 .. N + 1
      BY <1>1
    <3>2. b \in U /\ Len(b) \in Nat \ {0}
      BY <1>3
    <3> HIDE DEF s, U, b, X
    <3> QED
      BY <3>1, <3>2, <1>4, <1>6
  <2>2. BlobAddr(bs, i) = DataBase + Len(F) /\ BlobAddr(bs, i + 1) = DataBase + Len(H)
    BY DEF BlobAddr, G
  <2>3. H = F \o b
    <3> HIDE DEF s, X
    <3>1. s(i) \in Seq(Seq(X)) /\ b \in Seq(X)
      BY <2>1
    <3>2. FlattenSeq(Append(s(i), b)) = FlattenSeq(s(i)) \o b
      BY <3>1, FlatAppend
    <3> QED
      BY <1>7, <3>2
  <2> HIDE DEF F, H, X
  <2>4. F \in Seq(X) /\ b \in Seq(X)
    BY <2>1
  <2>5. Len(H) = Len(F) + Len(b) /\ Len(F) \in Nat
    BY <2>3, <2>4, ConcatFacts
  <2>6. BlobLen(bs, i) = Len(b)
    BY DEF BlobLen, G
  <2> HIDE DEF b
  <2> QED
    BY <1>5, <2>1, <2>2, <2>5, <2>6
<1> QED
  BY <1>8, <1>9 DEF G

(* Blobs do not overlap. *)
LEMMA BlobsApart ==
    ASSUME NEW bs, GoodBlobs(bs)
    PROVE  \A j \in 0 .. Len(Given(bs)) :
             /\ BlobAddr(bs, j + 1) >= DataBase /\ BlobAddr(bs, j + 1) \in Nat
             /\ \A i \in 1 .. j : BlobAddr(bs, i) + BlobLen(bs, i) <= BlobAddr(bs, j + 1)
<1> DEFINE N == Len(Given(bs))
           A(i) == BlobAddr(bs, i)
           L(i) == BlobLen(bs, i)
           T == {j \in Nat : j <= N => /\ A(j + 1) >= DataBase /\ A(j + 1) \in Nat
                                       /\ \A i \in 1 .. j : A(i) + L(i) <= A(j + 1)}
<1>1. DataBase \in Nat /\ N \in Nat
  BY LayoutAssumption, GivenFacts
<1>2. /\ A(1) = DataBase
      /\ \A i \in 1 .. N : A(i) \in Nat /\ L(i) \in Nat \ {0} /\ A(i + 1) = A(i) + L(i)
  BY BlobAddrs
<1> HIDE DEF N, A, L
<1>3. 0 \in T
  BY <1>1, <1>2
<1>4. ASSUME NEW n \in Nat, n \in T PROVE n + 1 \in T
  <2> SUFFICES ASSUME n + 1 <= N
               PROVE  /\ A(n + 2) >= DataBase /\ A(n + 2) \in Nat
                      /\ \A i \in 1 .. n + 1 : A(i) + L(i) <= A(n + 2)
    OBVIOUS
  <2>1. n + 1 \in 1 .. N /\ n <= N /\ (n + 1) + 1 = n + 2
    BY <1>1
  <2>2. A(n + 1) \in Nat /\ L(n + 1) \in Nat /\ A(n + 2) = A(n + 1) + L(n + 1)
    BY <1>2, <2>1
  <2>3. A(n + 1) >= DataBase /\ \A i \in 1 .. n : A(i) + L(i) <= A(n + 1)
    BY <1>4, <2>1
  <2>4. \A i \in 1 .. n + 1 : i # n + 1 => i \in 1 .. n /\ i \in 1 .. N
    BY <1>1, <2>1
  <2> QED
    BY <1>1, <1>2, <2>2, <2>3, <2>4
<1> HIDE DEF T
<1>5. Nat \subseteq T
  BY <1>3, <1>4, SetInduction
<1>6. \A j \in 0 .. N : j \in T
  BY <1>1, <1>5
<1> QED
  BY <1>6 DEF T, N, A, L

InHob(h, g) == g >= h.addr /\ g < h.addr + h.length

\* A HOB describes a whole blob, at an address of its own.
GoodHob(bs, h) ==
    /\ h.blob \in DOMAIN bs /\ IsBlob(bs[h.blob])
    /\ h.addr \in Nat /\ h.length \in Nat \ {0} /\ h.length = Len(bs[h.blob])

LEMMA HobFacts ==
    ASSUME NEW bs, GoodBlobs(bs)
    PROVE  /\ IsSeq(HobList(bs))
           /\ \A h \in ToSet(HobList(bs)) :
                /\ GoodHob(bs, h) /\ h.addr >= DataBase
                /\ h.addr + h.length <= BlobAddr(bs, Len(Given(bs)) + 1)
           /\ \A h, k \in ToSet(HobList(bs)) : \A g \in Nat : InHob(h, g) /\ InHob(k, g) => h = k
           /\ {h.blob : h \in ToSet(HobList(bs))} = DOMAIN bs
<1> DEFINE G == Given(bs)
           N == Len(G)
           A(i) == BlobAddr(bs, i)
           L(i) == BlobLen(bs, i)
           hob(i) == [blob |-> G[i], addr |-> A(i), length |-> L(i)]
           S == {hob(i) : i \in 1 .. N}
           f == [i \in 1 .. N |-> hob(i)]
<1>1. G \in Seq(DOMAIN bs) /\ N \in Nat /\ DOMAIN G = 1 .. N /\ ToSet(G) = {G[i] : i \in 1 .. N}
  BY GivenFacts, ElementsOf
<1>2. f = HobList(bs)
  BY <1>1 DEF HobList, BlobLen
<1>3. f \in Seq(S) /\ Len(f) = N
  <2>1. f \in [1 .. N -> S]
    OBVIOUS
  <2> HIDE DEF f, S, N
  <2> QED
    BY <1>1, <2>1, FunIsSeq
<1>4. IsSeq(f)
  <2> HIDE DEF f, S
  <2> QED
    BY <1>3, SeqIsSeq
<1>5. ToSet(f) = S
  <2>1. ToSet(f) = {f[i] : i \in 1 .. N}
    <3> HIDE DEF f, S
    <3> QED
      BY <1>3, ElementsOf
  <2> QED
    BY <2>1
<1>6. DataBase \in Nat
  BY LayoutAssumption
<1>7. /\ \A i \in 1 .. N : G[i] \in DOMAIN bs /\ IsBlob(bs[G[i]]) /\ L(i) = Len(bs[G[i]])
  BY <1>1 DEF GoodBlobs, BlobLen
<1>8. \A i \in 1 .. N : A(i) \in Nat /\ L(i) \in Nat \ {0}
  BY BlobAddrs
<1>9. \A j \in 0 .. N :
             /\ A(j + 1) >= DataBase /\ A(j + 1) \in Nat
             /\ \A i \in 1 .. j : A(i) + L(i) <= A(j + 1)
  BY BlobsApart
<1> HIDE DEF G, A, L, N
<1>10. \A i \in 1 .. N : A(i) >= DataBase /\ A(i) + L(i) <= A(N + 1)
  <2> SUFFICES ASSUME NEW i \in 1 .. N PROVE A(i) >= DataBase /\ A(i) + L(i) <= A(N + 1)
    OBVIOUS
  <2>1. i - 1 \in 0 .. N /\ (i - 1) + 1 = i /\ N \in 0 .. N
    BY <1>1
  <2> QED
    BY <1>9, <2>1
<1>11. \A i, j \in 1 .. N : i < j => A(i) + L(i) <= A(j)
  <2> SUFFICES ASSUME NEW i \in 1 .. N, NEW j \in 1 .. N, i < j PROVE A(i) + L(i) <= A(j)
    OBVIOUS
  <2>1. j - 1 \in 0 .. N /\ (j - 1) + 1 = j /\ i \in 1 .. j - 1
    BY <1>1
  <2> QED
    BY <1>9, <2>1
<1>12. \A i \in 1 .. N : /\ GoodHob(bs, hob(i)) /\ hob(i).addr >= DataBase
                         /\ hob(i).addr + hob(i).length <= A(N + 1)
  BY <1>7, <1>8, <1>10 DEF GoodHob
<1>13. \A i, j \in 1 .. N : \A g \in Nat : InHob(hob(i), g) /\ InHob(hob(j), g) => i = j
  <2> SUFFICES ASSUME NEW i \in 1 .. N, NEW j \in 1 .. N, NEW g \in Nat,
                      InHob(hob(i), g), InHob(hob(j), g)
               PROVE  i = j
    OBVIOUS
  <2>1. g >= A(i) /\ g < A(i) + L(i) /\ g >= A(j) /\ g < A(j) + L(j)
    BY DEF InHob
  <2> QED
    BY <1>1, <1>8, <1>11, <2>1
<1>14. {h.blob : h \in S} = DOMAIN bs
  <2>1. {h.blob : h \in S} = {G[i] : i \in 1 .. N}
    <3>1. \A i \in 1 .. N : hob(i).blob = G[i] /\ hob(i) \in S
      OBVIOUS
    <3>2. \A h \in S : \E i \in 1 .. N : h = hob(i)
      OBVIOUS
    <3> HIDE DEF hob, S
    <3> QED
      BY <3>1, <3>2
  <2>2. {G[i] : i \in 1 .. N} = DOMAIN bs
    BY <1>1, GivenFacts DEF G
  <2> QED
    BY <2>1, <2>2
<1>15. /\ \A h \in S : /\ GoodHob(bs, h) /\ h.addr >= DataBase
                       /\ h.addr + h.length <= A(N + 1)
       /\ \A h, k \in S : \A g \in Nat : InHob(h, g) /\ InHob(k, g) => h = k
  BY <1>12, <1>13
<1> HIDE DEF f, S
<1> QED
  BY <1>2, <1>4, <1>5, <1>14, <1>15 DEF A, N, G

-----------------------------------------------------------------------------
(* Placing blobs. *)

IsPlaced(f, bs, mask, ds, hobs, measured, N) ==
    f = [n \in 0 .. N |-> IF n = 0 THEN ds ELSE Place(bs, mask, f[n - 1], hobs[n], measured)]

LEMMA PlacedExists ==
    ASSUME NEW bs, NEW mask, NEW ds, NEW hobs, NEW measured
    PROVE  \A N \in Nat : \E f : IsPlaced(f, bs, mask, ds, hobs, measured, N)
<1> DEFINE st(x, n) == Place(bs, mask, x, hobs[n], measured)
           Solves(f, N) == f = [n \in 0 .. N |-> IF n = 0 THEN ds ELSE st(f[n - 1], n)]
           T == {N \in Nat : \E f : Solves(f, N)}
<1> HIDE DEF st
<1>1. 0 \in T
  <2> DEFINE f == [n \in 0 .. 0 |-> ds]
  <2>1. Solves(f, 0)
    OBVIOUS
  <2> QED
    BY <2>1
<1>2. ASSUME NEW N \in Nat, N \in T PROVE N + 1 \in T
  <2>1. PICK f : Solves(f, N)
    BY <1>2
  <2> DEFINE g == [n \in 0 .. N + 1 |-> IF n = N + 1 THEN st(f[N], N + 1) ELSE f[n]]
  <2>2. ASSUME NEW n \in 0 .. N + 1 PROVE g[n] = IF n = 0 THEN ds ELSE st(g[n - 1], n)
    <3>1. CASE n = N + 1
      <4>1. N \in 0 .. N + 1 /\ N # N + 1 /\ n - 1 = N /\ n # 0
        BY <3>1
      <4>2. g[N] = f[N]
        BY <4>1
      <4> QED
        BY <3>1, <4>1, <4>2
    <3>2. CASE n # N + 1 /\ n # 0
      <4>1. n \in 0 .. N /\ n - 1 \in 0 .. N + 1 /\ n - 1 # N + 1
        BY <3>2
      <4>2. g[n - 1] = f[n - 1] /\ g[n] = f[n]
        BY <3>2, <4>1
      <4>3. f[n] = st(f[n - 1], n)
        BY <2>1, <3>2, <4>1
      <4> QED
        BY <3>2, <4>2, <4>3
    <3>3. CASE n = 0
      <4>1. 0 \in 0 .. N /\ n # N + 1
        BY <3>3
      <4>2. f[0] = ds
        BY <2>1, <4>1
      <4> QED
        BY <3>3, <4>1, <4>2
    <3> QED
      BY <3>1, <3>2, <3>3
  <2>3. Solves(g, N + 1) /\ N + 1 \in Nat
    BY <2>2
  <2> HIDE DEF g, Solves
  <2> QED
    BY <2>3
<1> HIDE DEF T
<1>3. Nat \subseteq T
  BY <1>1, <1>2, SetInduction
<1> QED
  BY <1>3 DEF T, st, IsPlaced

HobPage(bs, mask, h, measured, g) ==
    Page(g, mask, "NORMAL", measured, bs[h.blob][g - h.addr + 1])

(* One blob. *)
LEMMA PlacePages ==
    ASSUME NEW bs, NEW mask, NEW ds, IsSeq(ds), NEW h, GoodHob(bs, h), NEW measured, NEW g \in Nat
    PROVE  /\ IsSeq(Place(bs, mask, ds, h, measured))
           /\ PagesAt(Place(bs, mask, ds, h, measured), g) =
                IF InHob(h, g) THEN <<HobPage(bs, mask, h, measured, g)>> ELSE PagesAt(ds, g)
           /\ Others(Place(bs, mask, ds, h, measured)) = Others(ds)
<1> DEFINE a == WithoutPages(ds, h.addr, h.length)
           b == DataPages(h.addr, bs[h.blob], mask, measured)
           x == PagesAt(a, g)
           y == PagesAt(b, g)
           p == HobPage(bs, mask, h, measured, g)
<1>1. h.addr \in Nat /\ h.length \in Nat \ {0} /\ h.length = Len(bs[h.blob]) /\ IsSeq(bs[h.blob])
  BY DEF GoodHob, IsBlob, IsSeq
<1>2. IsSeq(a) /\ x = IF InHob(h, g) THEN <<>> ELSE PagesAt(ds, g)
  BY <1>1, PagesWithout DEF InHob
<1>3. IsSeq(b) /\ y = IF InHob(h, g) THEN <<p>> ELSE <<>>
  BY <1>1, PagesData DEF InHob, HobPage
<1>4. Place(bs, mask, ds, h, measured) = Cat(a, b)
  BY DEF Place, Cat
<1>5. IsSeq(PagesAt(ds, g))
  BY PagesIsSeq
<1>9. Others(a) = Others(ds) /\ Others(b) = <<>> /\ IsSeq(Others(ds))
  BY <1>1, OthersWithout, OthersData, OthersIsSeq
<1> HIDE DEF a, b, p
<1>6. IsSeq(Cat(a, b)) /\ PagesAt(Cat(a, b), g) = Cat(x, y)
  BY <1>2, <1>3, CatIsSeq, PagesCat
<1>7. Cat(<<>>, <<p>>) = <<p>>
  <2>1. <<p>> \in Seq({p})
    OBVIOUS
  <2> QED
    BY <2>1, CatEmpty
<1>8. Cat(PagesAt(ds, g), <<>>) = PagesAt(ds, g)
  BY <1>5, CatEmpty DEF IsSeq
<1>10. Others(Cat(a, b)) = Others(ds)
  <2>1. Others(Cat(a, b)) = Cat(Others(a), Others(b))
    BY <1>2, <1>3, OthersCat
  <2>2. Cat(Others(ds), <<>>) = Others(ds)
    BY <1>9, CatEmpty DEF IsSeq
  <2> QED
    BY <1>9, <2>1, <2>2
<1> HIDE DEF x, y
<1> QED
  BY <1>2, <1>3, <1>4, <1>6, <1>7, <1>8, <1>10 DEF p

\* Each page of a blob in H is in the file once; all else is as before.
PlacedRight(out, ds, bs, mask, H, measured) ==
    /\ IsSeq(out) /\ Others(out) = Others(ds)
    /\ \A g \in Nat :
         /\ \A h \in H : InHob(h, g) => PagesAt(out, g) = <<HobPage(bs, mask, h, measured, g)>>
         /\ (\A h \in H : ~InHob(h, g)) => PagesAt(out, g) = PagesAt(ds, g)

LEMMA PlacedPages ==
    ASSUME NEW bs, NEW mask, NEW ds, IsSeq(ds), NEW hobs, IsSeq(hobs), NEW measured, NEW f,
           \A h \in ToSet(hobs) : GoodHob(bs, h),
           \A h, k \in ToSet(hobs) : \A g \in Nat : InHob(h, g) /\ InHob(k, g) => h = k,
           IsPlaced(f, bs, mask, ds, hobs, measured, Len(hobs))
    PROVE  PlacedRight(f[Len(hobs)], ds, bs, mask, ToSet(hobs), measured)
<1> DEFINE N == Len(hobs)
           P(n) == {hobs[i] : i \in 1 .. n}
           R(n) == PlacedRight(f[n], ds, bs, mask, P(n), measured)
           T == {n \in Nat : n <= N => R(n)}
<1>1. N \in Nat /\ ToSet(hobs) = P(N) /\ \A i \in 1 .. N : hobs[i] \in ToSet(hobs)
  BY ElementsOf DEF IsSeq
<1>2. 0 \in T
  <2>1. f[0] = ds
    BY <1>1 DEF IsPlaced
  <2>2. P(0) = {}
    OBVIOUS
  <2> HIDE DEF P
  <2> QED
    BY <2>1, <2>2 DEF PlacedRight
<1>3. ASSUME NEW n \in Nat, n \in T PROVE n + 1 \in T
  <2> SUFFICES ASSUME n + 1 <= N PROVE R(n + 1)
    OBVIOUS
  <2> DEFINE k == hobs[n + 1]
             x == f[n]
             y == f[n + 1]
  <2>1. n + 1 \in 1 .. N /\ n + 1 \in 0 .. N /\ n + 1 # 0 /\ (n + 1) - 1 = n /\ n <= N
    BY <1>1
  <2>2. y = Place(bs, mask, x, k, measured)
    BY <2>1 DEF IsPlaced
  <2>3. k \in ToSet(hobs) /\ GoodHob(bs, k) /\ R(n)
    BY <1>1, <1>3, <2>1
  <2>4. P(n + 1) = P(n) \cup {k} /\ P(n) \subseteq ToSet(hobs)
    <3>1. \A i \in 1 .. n + 1 : i = n + 1 \/ i \in 1 .. n
      OBVIOUS
    <3>2. \A i \in 1 .. n : i \in 1 .. n + 1 /\ i \in 1 .. N
      BY <1>1, <2>1
    <3>3. n + 1 \in 1 .. n + 1
      OBVIOUS
    <3> QED
      BY <1>1, <3>1, <3>2, <3>3
  <2> HIDE DEF P, k, x, y, N
  <2>5. IsSeq(x) /\ Others(x) = Others(ds)
    BY <2>3 DEF PlacedRight, x
  <2>6. \A g \in Nat : /\ IsSeq(y) /\ Others(y) = Others(x)
                       /\ PagesAt(y, g) = IF InHob(k, g) THEN <<HobPage(bs, mask, k, measured, g)>>
                                          ELSE PagesAt(x, g)
    BY <2>2, <2>3, <2>5, PlacePages
  <2>7. IsSeq(y) /\ Others(y) = Others(ds)
    BY <2>5, <2>6, 0 \in Nat
  <2>8. ASSUME NEW g \in Nat, NEW h \in P(n + 1), InHob(h, g)
        PROVE  PagesAt(y, g) = <<HobPage(bs, mask, h, measured, g)>>
    <3>1. CASE InHob(k, g)
      <4>1. h \in ToSet(hobs)
        BY <2>3, <2>4, <2>8
      <4>2. h = k
        BY <2>3, <2>8, <3>1, <4>1
      <4> QED
        BY <2>6, <3>1, <4>2
    <3>2. CASE ~InHob(k, g)
      <4>1. h \in P(n)
        BY <2>4, <2>8, <3>2
      <4>2. PagesAt(x, g) = <<HobPage(bs, mask, h, measured, g)>>
        BY <2>3, <2>8, <4>1 DEF PlacedRight, x
      <4> QED
        BY <2>6, <3>2, <4>2
    <3> QED
      BY <3>1, <3>2
  <2>9. ASSUME NEW g \in Nat, \A h \in P(n + 1) : ~InHob(h, g)
        PROVE  PagesAt(y, g) = PagesAt(ds, g)
    <3>1. ~InHob(k, g) /\ \A h \in P(n) : ~InHob(h, g)
      BY <2>4, <2>9
    <3>2. PagesAt(x, g) = PagesAt(ds, g)
      BY <2>3, <3>1 DEF PlacedRight, x
    <3> QED
      BY <2>6, <3>1, <3>2
  <2> QED
    BY <2>7, <2>8, <2>9 DEF PlacedRight, y
<1> HIDE DEF T
<1>4. N \in T
  BY <1>1, <1>2, <1>3, SetInduction
<1>5. R(N)
  BY <1>1, <1>4 DEF T
<1> QED
  BY <1>1, <1>5

\* The HOBs of blobs that are measured, or of those that are not.
HobsFor(bs, measured) ==
    {h \in ToSet(HobList(bs)) : (h.blob \notin Unmeasured) = measured}

LEMMA PlaceBlobsRight ==
    ASSUME NEW bs, GoodBlobs(bs), NEW mask, NEW ds, IsSeq(ds), NEW measured
    PROVE  PlacedRight(PlaceBlobs(bs, mask, ds, measured), ds, bs, mask,
                       HobsFor(bs, measured), measured)
<1> DEFINE all == HobList(bs)
           V == HobsFor(bs, measured)
           hobs == Keep(all, V)
           N == Len(hobs)
           f == CHOOSE h : IsPlaced(h, bs, mask, ds, hobs, measured, N)
<1>1. /\ IsSeq(all)
      /\ \A h \in ToSet(all) : GoodHob(bs, h)
      /\ \A h, k \in ToSet(all) : \A g \in Nat : InHob(h, g) /\ InHob(k, g) => h = k
  BY HobFacts
<1>2. V \subseteq ToSet(all)
  BY DEF HobsFor
<1>3. PlaceBlobs(bs, mask, ds, measured) = f[N]
  BY DEF PlaceBlobs, Where, HobsFor, IsPlaced
<1> HIDE DEF V, all
<1>4. hobs \in Seq(ToSet(all)) /\ ToSet(hobs) = V
  <2> DEFINE S == ToSet(all)
  <2>1. all \in Seq(S) /\ S \cap V = V
    BY <1>1, <1>2 DEF IsSeq
  <2> HIDE DEF S
  <2>2. hobs \in Seq(S)
    BY <2>1, KeepType
  <2>3. ToSet(hobs) = ToSet(all) \cap V
    BY <2>1, KeepElements
  <2> QED
    BY <2>1, <2>2, <2>3 DEF S
<1> HIDE DEF hobs
<1>5. IsSeq(hobs)
  BY <1>4, SeqIsSeq
<1>6. N \in Nat
  BY <1>4
<1>7. IsPlaced(f, bs, mask, ds, hobs, measured, N)
  <2> HIDE DEF N
  <2>1. \E h : IsPlaced(h, bs, mask, ds, hobs, measured, N)
    BY <1>6, PlacedExists
  <2> QED
    BY <2>1
<1> HIDE DEF f
<1>8. /\ \A h \in ToSet(hobs) : GoodHob(bs, h)
      /\ \A h, k \in ToSet(hobs) : \A g \in Nat : InHob(h, g) /\ InHob(k, g) => h = k
  BY <1>1, <1>2, <1>4
<1>9. PlacedRight(f[N], ds, bs, mask, ToSet(hobs), measured)
  BY <1>5, <1>7, <1>8, PlacedPages
<1> QED
  BY <1>3, <1>4, <1>9 DEF V

InArea(r, g) == g >= r.base /\ g < r.base + r.size

\* What the file holds once the blobs of bs are placed in ds.
HobsRight(out, ds, bs, mask, area) ==
    /\ IsSeq(out) /\ Others(out) = Others(ds)
    /\ \A g \in Nat :
         /\ \A h \in ToSet(HobList(bs)) : InHob(h, g) =>
              PagesAt(out, g) = <<HobPage(bs, mask, h, h.blob \notin Unmeasured, g)>>
         /\ (\A h \in ToSet(HobList(bs)) : ~InHob(h, g)) =>
              PagesAt(out, g) = IF g = area.base THEN <<Page(g, mask, "NORMAL", TRUE, HobList(bs))>>
                                ELSE IF InArea(area, g) THEN <<>> ELSE PagesAt(ds, g)

LEMMA PlaceHobsRight ==
    ASSUME NEW bs, GoodBlobs(bs), NEW mask, NEW ds, IsSeq(ds), NEW area,
           area.base \in Nat, area.size \in Nat \ {0}
    PROVE  HobsRight(PlaceHobs(bs, mask, area, ds), ds, bs, mask, area)
<1> DEFINE list == HobList(bs)
           one == <<list>>
           cut == WithoutPages(ds, area.base, area.size)
           page == DataPages(area.base, one, mask, TRUE)
           listed == Cat(cut, page)
           first == PlaceBlobs(bs, mask, listed, TRUE)
           out == PlaceBlobs(bs, mask, first, FALSE)
<1>1. out = PlaceHobs(bs, mask, area, ds)
  BY DEF PlaceHobs, Cat
<1>2. one \in Seq({list}) /\ Len(one) = 1 /\ one[1] = list
  <2> HIDE DEF list
  <2> QED
    OBVIOUS
<1> HIDE DEF one, list
<1>3. IsSeq(one)
  BY <1>2, SeqIsSeq
<1>4. IsSeq(cut) /\ IsSeq(page) /\ Others(cut) = Others(ds) /\ Others(page) = <<>>
  <2>1. IsSeq(cut)
    BY PagesWithout, 0 \in Nat
  <2>2. IsSeq(page)
    BY <1>3, PagesData, 0 \in Nat
  <2>3. Others(cut) = Others(ds)
    BY OthersWithout
  <2>4. Others(page) = <<>>
    BY <1>3, OthersData
  <2> QED
    BY <2>1, <2>2, <2>3, <2>4
<1>5. \A g \in Nat : PagesAt(cut, g) = IF InArea(area, g) THEN <<>> ELSE PagesAt(ds, g)
  BY PagesWithout DEF InArea
<1>6. \A g \in Nat : PagesAt(page, g) = IF g = area.base THEN <<Page(g, mask, "NORMAL", TRUE, list)>> ELSE <<>>
  <2> SUFFICES ASSUME NEW g \in Nat
               PROVE  PagesAt(page, g) = IF g = area.base THEN <<Page(g, mask, "NORMAL", TRUE, list)>> ELSE <<>>
    OBVIOUS
  <2>1. PagesAt(page, g) = IF g >= area.base /\ g < area.base + Len(one)
                           THEN <<Page(g, mask, "NORMAL", TRUE, one[g - area.base + 1])>> ELSE <<>>
    BY <1>3, PagesData
  <2>2. g >= area.base /\ g < area.base + Len(one) <=> g = area.base
    BY <1>2
  <2>3. g = area.base => g - area.base + 1 = 1
    OBVIOUS
  <2> QED
    BY <1>2, <2>1, <2>2, <2>3
<1> HIDE DEF cut, page
<1>7. IsSeq(listed) /\ Others(listed) = Others(ds)
  <2>1. IsSeq(listed)
    BY <1>4, CatIsSeq
  <2>2. Others(listed) = Cat(Others(cut), Others(page))
    BY <1>4, OthersCat
  <2>3. IsSeq(Others(ds))
    BY OthersIsSeq
  <2>4. Cat(Others(ds), <<>>) = Others(ds)
    BY <2>3, CatEmpty DEF IsSeq
  <2> QED
    BY <1>4, <2>1, <2>2, <2>4
<1>8. \A g \in Nat : PagesAt(listed, g) =
        IF g = area.base THEN <<Page(g, mask, "NORMAL", TRUE, list)>>
        ELSE IF InArea(area, g) THEN <<>> ELSE PagesAt(ds, g)
  <2> SUFFICES ASSUME NEW g \in Nat
               PROVE  PagesAt(listed, g) =
                        IF g = area.base THEN <<Page(g, mask, "NORMAL", TRUE, list)>>
                        ELSE IF InArea(area, g) THEN <<>> ELSE PagesAt(ds, g)
    OBVIOUS
  <2> DEFINE p == Page(g, mask, "NORMAL", TRUE, list)
             q == <<p>>
  <2>1. PagesAt(listed, g) = Cat(PagesAt(cut, g), PagesAt(page, g))
    BY <1>4, PagesCat
  <2>2. q \in Seq({p})
    <3> HIDE DEF p
    <3> QED
      OBVIOUS
  <2> HIDE DEF q
  <2>3. Cat(<<>>, q) = q
    BY <2>2, CatEmpty
  <2>4. Cat(PagesAt(ds, g), <<>>) = PagesAt(ds, g) /\ Cat(<<>>, <<>>) = <<>>
    <3>1. IsSeq(PagesAt(ds, g)) /\ IsSeq(<<>>)
      BY PagesIsSeq, EmptyIsSeq
    <3> QED
      BY <3>1, CatEmpty DEF IsSeq
  <2>5. InArea(area, area.base)
    BY DEF InArea
  <2> HIDE DEF listed
  <2> QED
    BY <1>5, <1>6, <2>1, <2>3, <2>4, <2>5 DEF q, p
<1> HIDE DEF listed
<1>9. PlacedRight(first, listed, bs, mask, HobsFor(bs, TRUE), TRUE)
  BY <1>7, PlaceBlobsRight
<1>10. IsSeq(first) /\ Others(first) = Others(listed)
  BY <1>9 DEF PlacedRight
<1> HIDE DEF first
<1>11. PlacedRight(out, first, bs, mask, HobsFor(bs, FALSE), FALSE)
  BY <1>10, PlaceBlobsRight
<1> HIDE DEF out
<1>12. IsSeq(out) /\ Others(out) = Others(ds)
  BY <1>7, <1>10, <1>11 DEF PlacedRight
<1>13. \A h, k \in ToSet(list) : \A g \in Nat : InHob(h, g) /\ InHob(k, g) => h = k
  BY HobFacts DEF list
<1>14. /\ \A h \in ToSet(list) : h \in HobsFor(bs, h.blob \notin Unmeasured)
       /\ HobsFor(bs, TRUE) = {h \in ToSet(list) : h.blob \notin Unmeasured}
       /\ HobsFor(bs, FALSE) = {h \in ToSet(list) : h.blob \in Unmeasured}
  BY DEF HobsFor, list
<1>15. ASSUME NEW g \in Nat, NEW h \in ToSet(list), InHob(h, g)
       PROVE  PagesAt(out, g) = <<HobPage(bs, mask, h, h.blob \notin Unmeasured, g)>>
  <2>1. CASE h.blob \in Unmeasured
    <3>1. h \in HobsFor(bs, FALSE) /\ (h.blob \notin Unmeasured) = FALSE
      BY <1>14, <1>15, <2>1
    <3>2. PagesAt(out, g) = <<HobPage(bs, mask, h, FALSE, g)>>
      BY <1>11, <1>15, <3>1 DEF PlacedRight
    <3> QED
      BY <3>1, <3>2
  <2>2. CASE h.blob \notin Unmeasured
    <3>1. h \in HobsFor(bs, TRUE) /\ (h.blob \notin Unmeasured) = TRUE
      BY <1>14, <1>15, <2>2
    <3>2. PagesAt(first, g) = <<HobPage(bs, mask, h, TRUE, g)>>
      BY <1>9, <1>15, <3>1 DEF PlacedRight
    <3>3. \A k \in HobsFor(bs, FALSE) : ~InHob(k, g)
      BY <1>13, <1>14, <1>15, <2>2
    <3>4. PagesAt(out, g) = PagesAt(first, g)
      BY <1>11, <3>3 DEF PlacedRight
    <3> QED
      BY <3>1, <3>2, <3>4
  <2> QED
    BY <2>1, <2>2
<1>16. ASSUME NEW g \in Nat, \A h \in ToSet(list) : ~InHob(h, g)
       PROVE  PagesAt(out, g) = PagesAt(listed, g)
  <2>1. /\ \A k \in HobsFor(bs, FALSE) : ~InHob(k, g)
        /\ \A k \in HobsFor(bs, TRUE) : ~InHob(k, g)
    BY <1>14, <1>16
  <2>2. PagesAt(out, g) = PagesAt(first, g)
    BY <1>11, <2>1 DEF PlacedRight
  <2>3. PagesAt(first, g) = PagesAt(listed, g)
    BY <1>9, <2>1 DEF PlacedRight
  <2> QED
    BY <2>2, <2>3
<1>17. HobsRight(out, ds, bs, mask, area)
  BY <1>8, <1>12, <1>15, <1>16 DEF HobsRight, list
<1> QED
  BY <1>1, <1>17

-----------------------------------------------------------------------------
(* The state of a build. *)

Mask(a) == Masks(a.platform)
\* The directives before and after the blobs are placed.
SnpPart(a, m) == IF "snp" \in Mask(a) THEN SnpPages(m) ELSE <<>>
FirmwarePart(a) == Cat(FirmwarePages(a), VarsPages(a))
Plain(a, m) ==
    Cat(Cat(Cat(Contexts(a, m), SnpPart(a, m)), Parameters(m, Mask(a))), FirmwarePart(a))
HobArea(m) == OfType(m, "IgvmHobArea")[1]
Placed(a, m, bs) ==
    IF DOMAIN bs = {} THEN Plain(a, m) ELSE PlaceHobs(bs, Mask(a), HobArea(m), Plain(a, m))

FinalKernel(a, k) == IF a.cmdline THEN Wrapped(a, k) ELSE k

Filling == {"snp", "params", "firmware", "hobs"}
Filled == {"finalize", "measure", "write", "manifest"}
Steps == {"idle", "wrap", "meta", "contexts"} \cup Filling \cup Filled

FilesInv == DOMAIN files = {"kernel", "igvm", "manifest"} /\ files.kernel \in Kernels
ArgsInv ==
    /\ step \in Steps
    /\ step # "idle" => args \in Builds
    /\ step \in {"contexts"} \cup Filling \cup Filled => meta = ParseMeta(args.firmware)
    /\ step \in Filling \cup Filled => ApsCanStart
    /\ step \in Filled => HobsHavePlace
    /\ step \in {"write", "manifest"} => UsesSnp
\* --kernel may change, so the blob is some content the file once had.
BlobInv ==
    /\ step = "wrap" => \E k \in Kernels : /\ blobs = BlobsOf(args, k)
                                           /\ kernelFile = IF args.kernel THEN k ELSE None
    /\ step \in {"meta", "contexts"} \cup Filling \cup Filled =>
         \E k \in Kernels : /\ blobs = BlobsOf(args, FinalKernel(args, k))
                            /\ ~args.cmdline => kernelFile = IF args.kernel THEN k ELSE None
DirectivesInv ==
    /\ step \in {"wrap", "meta", "contexts"} => directives = <<>>
    /\ step = "snp" => directives = Contexts(args, meta)
    /\ step = "params" => directives = Cat(Contexts(args, meta), SnpPart(args, meta))
    /\ step = "firmware" =>
         directives = Cat(Cat(Contexts(args, meta), SnpPart(args, meta)), Parameters(meta, Mask(args)))
    /\ step = "hobs" => directives = Plain(args, meta)
    /\ step = "finalize" => directives = Placed(args, meta, blobs)
    /\ step \in {"measure", "write", "manifest"} => directives = SortPages(Placed(args, meta, blobs))
BuildInv == FilesInv /\ ArgsInv /\ BlobInv /\ DirectivesInv

\* The walk over ds, after n directives.
IsWalked(P, ds) ==
    P = [n \in 0 .. Len(ds) |-> IF n = 0 THEN NewWalk ELSE MeasureDirective(P[n - 1], ds[n], ds)]
Walked(ds) == CHOOSE P : IsWalked(P, ds)

IsWalk(w) == DOMAIN w = {"at", "log", "batch", "prev", "vmsas"} /\ w.at \in Nat \ {0}
WalkInv ==
    /\ step \in {"wrap", "meta", "contexts", "finalize"} \cup Filling => walk = NewWalk
    /\ step = "measure" => /\ IsWalk(walk) /\ walk.at <= Len(directives) + 1
                           /\ walk = Walked(directives)[walk.at - 1]
    /\ step \in {"write", "manifest"} => walk.log = Digest(directives)

HoldsPage(ds, page) ==
    \E d \in Range(ds) : d.kind = "page" /\ d.gpa >= DataBase /\ d.data = page
ManifestInv ==
    LET m == files.manifest
    IN m # None => /\ m.digest = Digest(m.igvm)
                   /\ m.kernel # None /\ ~m.cmdline =>
                        \A page \in Range(m.kernel) : HoldsPage(m.igvm, page)

-----------------------------------------------------------------------------
(* What the assumptions say of a build. *)

LEMMA WrappedIsBlob ==
    ASSUME NEW a, NEW k, IsBlob(k)
    PROVE  IsBlob(Wrapped(a, k))
<1> DEFINE stub == <<"stub">>
           rd == IF a.initrd THEN <<"initrd">> ELSE <<>>
           S == ToSet(k) \cup {"stub", "initrd"}
           w == stub \o k
<1>1. k \in Seq(S) /\ stub \in Seq(S) /\ Len(stub) = 1 /\ rd \in Seq(S)
  <2> DEFINE K == ToSet(k)
  <2>1. k \in Seq(K) /\ K \subseteq S
    BY DEF IsBlob
  <2> HIDE DEF K, S
  <2>2. k \in Seq(S)
    BY <2>1
  <2>3. stub \in Seq(S) /\ Len(stub) = 1 /\ rd \in Seq(S)
    BY ShortSeqs DEF S
  <2> QED
    BY <2>2, <2>3
<1>2. Wrapped(a, k) = w \o rd
  BY DEF Wrapped
<1> HIDE DEF stub, rd, S
<1>3. w \in Seq(S) /\ Len(w) = 1 + Len(k) /\ Len(k) \in Nat
  BY <1>1, ConcatFacts
<1> HIDE DEF w
<1>4. w \o rd \in Seq(S) /\ Len(w \o rd) = Len(w) + Len(rd) /\ Len(rd) \in Nat
  BY <1>1, <1>3, ConcatFacts
<1> DEFINE x == w \o rd
<1>5. x \in Seq(S) /\ Len(x) # 0
  BY <1>3, <1>4
<1> HIDE DEF x
<1>6. x \in Seq(ToSet(x)) /\ x # <<>>
  BY <1>5, ElementsOf
<1> QED
  BY <1>2, <1>6 DEF IsBlob, x

LEMMA BlobFacts ==
    ASSUME NEW a \in Builds, NEW k \in Kernels
    PROVE  /\ GoodBlobs(BlobsOf(a, FinalKernel(a, k)))
           /\ BlobAddr(BlobsOf(a, FinalKernel(a, k)), Len(Given(BlobsOf(a, FinalKernel(a, k)))) + 1)
                + Len(a.vars) + Len(a.firmware.pages) <= FourG
           /\ Len(a.vars) \in Nat /\ Len(a.firmware.pages) \in Nat /\ a.smp \in Nat \ {0}
           /\ IsSeq(a.vars) /\ IsSeq(a.firmware.pages)
           /\ a.kernel \in BOOLEAN /\ a.cmdline \in BOOLEAN
<1> DEFINE f == FinalKernel(a, k)
           bs == BlobsOf(a, f)
<1>1. IsBlob(f)
  BY InputAssumption, WrappedIsBlob DEF FinalKernel
<1>2. "kernel" \in ToSet(BlobOrder)
  <2>1. BlobOrder \in Seq({"pk", "kek", "db", "dbx", "shim", "kernel"}) /\ Len(BlobOrder) = 6
        /\ BlobOrder[6] = "kernel"
    BY DEF BlobOrder
  <2>2. ToSet(BlobOrder) = {BlobOrder[i] : i \in 1 .. Len(BlobOrder)}
    BY <2>1, ElementsOf
  <2>3. 6 \in 1 .. 6
    OBVIOUS
  <2> QED
    BY <2>1, <2>2, <2>3
<1>3. DOMAIN a.blobs \subseteq ToSet(BlobOrder) /\ \A b \in DOMAIN a.blobs : IsBlob(a.blobs[b])
  BY InputAssumption
<1>4. GoodBlobs(bs)
  <2> HIDE DEF f
  <2> QED
    BY <1>1, <1>2, <1>3 DEF BlobsOf, GoodBlobs
<1>5. /\ IsBlob(a.firmware.pages) /\ a.vars \in Seq(ToSet(a.vars)) /\ a.smp \in Nat \ {0}
      /\ {a.kernel, a.cmdline} \subseteq BOOLEAN
      /\ BlobAddr(bs, Len(Given(bs)) + 1) + Len(a.vars) + Len(a.firmware.pages) <= FourG
  <2> HIDE DEF f
  <2>1. f = IF a.cmdline THEN Wrapped(a, k) ELSE k
    BY DEF f, FinalKernel
  <2> QED
    BY <2>1, InputAssumption
<1>6. IsSeq(a.vars) /\ IsSeq(a.firmware.pages)
  BY <1>5 DEF IsBlob, IsSeq
<1>7. Len(a.vars) \in Nat /\ Len(a.firmware.pages) \in Nat
  BY <1>6 DEF IsSeq
<1> QED
  BY <1>4, <1>5, <1>6, <1>7

LEMMA OfTypeFacts ==
    ASSUME NEW m, IsSeq(RegionsOf(m)), NEW type
    PROVE  /\ IsSeq(OfType(m, type))
           /\ ToSet(OfType(m, type)) = {r \in ToSet(RegionsOf(m)) : r.type = type}
           /\ OfType(m, type) # <<>> => OfType(m, type)[1] \in ToSet(OfType(m, type))
<1> DEFINE R == RegionsOf(m)
           S == ToSet(R)
           V == {r \in S : r.type = type}
           o == Keep(R, V)
<1>1. OfType(m, type) = o /\ R \in Seq(S) /\ S \cap V = V
  BY DEF OfType, Where, IsSeq
<1> HIDE DEF R, S, V
<1>2. o \in Seq(S)
  BY <1>1, KeepType
<1>3. ToSet(o) = ToSet(R) \cap V
  BY <1>1, KeepElements
<1> HIDE DEF o
<1>4. IsSeq(o)
  BY <1>2, SeqIsSeq
<1>5. ToSet(o) = {o[i] : i \in 1 .. Len(o)}
  BY <1>2, ElementsOf
<1>6. o # <<>> => 1 \in 1 .. Len(o)
  BY <1>2
<1> QED
  BY <1>1, <1>3, <1>4, <1>5, <1>6 DEF S, V, R

\* A region of the firmware of a, as FirmwareAssumption has it.
LEMMA RegionFacts ==
    ASSUME NEW a \in Builds, NEW m, m = ParseMeta(a.firmware)
    PROVE  /\ IsSeq(RegionsOf(m))
           /\ \A r \in ToSet(RegionsOf(m)) : r.base \in Nat /\ r.size \in Nat \ {0}
           /\ \A r \in ToSet(OfType(m, "IgvmHobArea")) :
                r.base \in Nat /\ r.size \in Nat \ {0} /\ r.base + r.size <= DataBase
<1> DEFINE R == RegionsOf(m)
<1>1. R \in Seq(ToSet(R))
  BY FirmwareAssumption
<1>2. \A i \in DOMAIN R : /\ R[i].base \in Nat /\ R[i].size \in Nat \ {0}
                          /\ R[i].type = "IgvmHobArea" => R[i].base + R[i].size <= DataBase
  BY FirmwareAssumption
<1> HIDE DEF R
<1>3. ToSet(R) = {R[i] : i \in 1 .. Len(R)} /\ DOMAIN R = 1 .. Len(R)
  BY <1>1, ElementsOf
<1>4. \A r \in ToSet(R) : /\ r.base \in Nat /\ r.size \in Nat \ {0}
                          /\ r.type = "IgvmHobArea" => r.base + r.size <= DataBase
  BY <1>2, <1>3
<1>5. IsSeq(RegionsOf(m))
  BY <1>1 DEF IsSeq, R
<1>6. ToSet(OfType(m, "IgvmHobArea")) = {r \in ToSet(R) : r.type = "IgvmHobArea"}
  BY <1>5, OfTypeFacts DEF R
<1> QED
  BY <1>4, <1>5, <1>6 DEF R

-----------------------------------------------------------------------------
(* The parts of the file are sequences. *)

LEMMA KeepIsSeq ==
    ASSUME NEW s, IsSeq(s), NEW V
    PROVE  IsSeq(Keep(s, V))
<1> DEFINE S == ToSet(s)
<1>1. s \in Seq(S)
  BY DEF IsSeq
<1> HIDE DEF S
<1>2. Keep(s, V) \in Seq(S)
  BY <1>1, KeepType
<1> QED
  BY <1>2, SeqIsSeq

LEMMA FunctionIsSeq ==
    ASSUME NEW n \in Nat, NEW f, f = [i \in 1 .. n |-> f[i]]
    PROVE  IsSeq(f) /\ Len(f) = n
<1> DEFINE S == {f[i] : i \in 1 .. n}
<1>1. f \in [1 .. n -> S]
  OBVIOUS
<1> HIDE DEF S
<1>2. f \in Seq(S) /\ Len(f) = n
  BY <1>1, FunIsSeq
<1> QED
  BY <1>2, SeqIsSeq

(* Sequences put one after the other make a sequence. *)
LEMMA FlatIsSeq ==
    ASSUME NEW n \in Nat, NEW f, f = [i \in 1 .. n |-> f[i]], \A i \in 1 .. n : IsSeq(f[i])
    PROVE  /\ \E S : f \in Seq(Seq(S))
           /\ Len(f) = n /\ IsSeq(FlattenSeq(f))
<1> DEFINE S == UNION {ToSet(f[i]) : i \in 1 .. n}
           U == Seq(S)
<1>1. \A i \in 1 .. n : f[i] \in U
  <2> SUFFICES ASSUME NEW i \in 1 .. n PROVE f[i] \in U
    OBVIOUS
  <2> DEFINE p == f[i]
  <2>1. p \in Seq(ToSet(p)) /\ ToSet(p) \subseteq S
    BY DEF IsSeq
  <2> HIDE DEF p, S
  <2>2. p \in Seq(S)
    BY <2>1
  <2> QED
    BY <2>2 DEF p
<1> HIDE DEF U
<1>2. f \in [1 .. n -> U]
  BY <1>1
<1>3. f \in Seq(U) /\ Len(f) = n
  BY <1>2, FunIsSeq
<1>4. f \in Seq(Seq(S))
  BY <1>3 DEF U
<1> HIDE DEF S
<1>5. FlattenSeq(f) \in Seq(S)
  BY <1>4, FlatType
<1>6. IsSeq(FlattenSeq(f))
  BY <1>5, SeqIsSeq
<1> QED
  BY <1>3, <1>4, <1>6

LEMMA ContextsIsSeq ==
    ASSUME NEW a, a.smp \in Nat, NEW m
    PROVE  IsSeq(Contexts(a, m))
<1> DEFINE one == Context({"native"}, Flat32Regs)
           x == IF "native" \in Masks(a.platform) /\ a.mode = "flat32" THEN <<one>> ELSE <<>>
           v == [vp \in 1 .. a.smp |-> Context({"snp"}, IF vp = 1 THEN BootRegs(a.mode)
                                                        ELSE RealModeRegs(m.reset))]
           y == IF "snp" \in Masks(a.platform) THEN v ELSE <<>>
<1>1. Contexts(a, m) = Cat(x, y)
  BY DEF Contexts, Cat
<1>2. IsSeq(x)
  <2> HIDE DEF one
  <2>1. <<one>> \in Seq({one})
    OBVIOUS
  <2> QED
    BY <2>1, SeqIsSeq, EmptyIsSeq
<1>3. IsSeq(v)
  <2>1. v = [i \in 1 .. a.smp |-> v[i]]
    OBVIOUS
  <2> HIDE DEF v
  <2> QED
    BY <2>1, FunctionIsSeq
<1>4. IsSeq(y)
  BY <1>3, EmptyIsSeq
<1> HIDE DEF x, y
<1> QED
  BY <1>1, <1>2, <1>4, CatIsSeq

AreaPages(r) == [i \in 1 .. r.size |-> Page(r.base + i - 1, {"snp"}, PageType(r.type), TRUE, None)]
Uncovered(m, s) ==
    {d \in ToSet(s) : \A p \in Range(OfType(m, "IgvmParamArea")) : ~Covers(p, d.gpa)}

LEMMA RegionPagesIsSeq ==
    ASSUME NEW m, NEW r, r.size \in Nat
    PROVE  /\ IsSeq(RegionPages(m, r)) /\ IsSeq(AreaPages(r))
           /\ RegionPages(m, r) = IF PageType(r.type) = None THEN <<>>
                                  ELSE Keep(AreaPages(r), Uncovered(m, AreaPages(r)))
<1> DEFINE f == AreaPages(r)
           V == Uncovered(m, f)
<1>1. RegionPages(m, r) = IF PageType(r.type) = None THEN <<>> ELSE Keep(f, V)
  BY DEF RegionPages, Where, AreaPages, Uncovered
<1>2. f = [i \in 1 .. r.size |-> f[i]]
  BY DEF AreaPages
<1> HIDE DEF f, V
<1>3. IsSeq(f)
  BY <1>2, FunctionIsSeq
<1>4. IsSeq(Keep(f, V))
  BY <1>3, KeepIsSeq
<1> QED
  BY <1>1, <1>3, <1>4, EmptyIsSeq DEF f, V

SnpParts(m) == [i \in 1 .. Len(RegionsOf(m)) |-> RegionPages(m, RegionsOf(m)[i])]

LEMMA SnpPagesIsSeq ==
    ASSUME NEW m, IsSeq(RegionsOf(m)), \A r \in ToSet(RegionsOf(m)) : r.size \in Nat
    PROVE  /\ IsSeq(SnpPages(m)) /\ SnpPages(m) = FlattenSeq(SnpParts(m))
           /\ Len(SnpParts(m)) = Len(RegionsOf(m)) /\ Len(RegionsOf(m)) \in Nat
           /\ \E S : SnpParts(m) \in Seq(Seq(S))
           /\ ToSet(RegionsOf(m)) = {RegionsOf(m)[i] : i \in 1 .. Len(RegionsOf(m))}
<1> DEFINE R == RegionsOf(m)
           f == SnpParts(m)
<1>1. R \in Seq(ToSet(R)) /\ Len(R) \in Nat /\ DOMAIN R = 1 .. Len(R)
  BY DEF IsSeq
<1>2. SnpPages(m) = FlattenSeq(f)
  BY <1>1 DEF SnpPages, SnpParts
<1>3. f = [i \in 1 .. Len(R) |-> f[i]]
  BY DEF SnpParts
<1>4. ToSet(R) = {R[i] : i \in 1 .. Len(R)}
  BY <1>1, ElementsOf
<1>5. \A i \in 1 .. Len(R) : IsSeq(f[i])
  <2>1. \A i \in 1 .. Len(R) : f[i] = RegionPages(m, R[i]) /\ R[i].size \in Nat
    BY <1>4 DEF SnpParts
  <2> QED
    BY <2>1, RegionPagesIsSeq
<1> HIDE DEF f
<1>6. IsSeq(FlattenSeq(f)) /\ Len(f) = Len(R) /\ \E S : f \in Seq(Seq(S))
  <2> HIDE DEF R
  <2> QED
    BY <1>1, <1>3, <1>5, FlatIsSeq
<1> QED
  BY <1>1, <1>2, <1>4, <1>6 DEF f

WantedParams(m) ==
    Where(RegionsOf(m), LAMBDA r : r.type \in {"IgvmParamMemoryMap", "IgvmParamVpCount"})
ParamList(m) == [i \in DOMAIN WantedParams(m) |->
                    Parameter(WantedParams(m)[i].type, WantedParams(m)[i].base)]

LEMMA ParametersIsSeq ==
    ASSUME NEW m, IsSeq(RegionsOf(m)), NEW mask
    PROVE  /\ IsSeq(Parameters(m, mask)) /\ IsSeq(ParamList(m))
           /\ Parameters(m, mask) =
                IF OfType(m, "IgvmParamArea") = <<>> THEN <<>>
                ELSE Cat(Cat(<<ParameterArea(OfType(m, "IgvmParamArea")[1].size)>>, ParamList(m)),
                         <<ParameterInsert(OfType(m, "IgvmParamArea")[1].base, mask)>>)
<1> DEFINE w == WantedParams(m)
           x == ParameterArea(OfType(m, "IgvmParamArea")[1].size)
           y == ParameterInsert(OfType(m, "IgvmParamArea")[1].base, mask)
           l == ParamList(m)
<1>1. IsSeq(w)
  BY KeepIsSeq DEF WantedParams, Where
<1>2. Len(w) \in Nat /\ DOMAIN w = 1 .. Len(w)
  BY <1>1 DEF IsSeq
<1>3. l = [i \in 1 .. Len(w) |-> l[i]]
  BY <1>2 DEF ParamList
<1>4. Parameters(m, mask) = IF OfType(m, "IgvmParamArea") = <<>> THEN <<>> ELSE Cat(Cat(<<x>>, l), <<y>>)
  BY DEF Parameters, ParamList, WantedParams, Cat
<1> HIDE DEF l, x, y, w
<1>5. IsSeq(l)
  BY <1>2, <1>3, FunctionIsSeq
<1>6. IsSeq(<<x>>) /\ IsSeq(<<y>>)
  <2>1. <<x>> \in Seq({x}) /\ <<y>> \in Seq({y})
    OBVIOUS
  <2> QED
    BY <2>1, SeqIsSeq
<1>7. IsSeq(Cat(<<x>>, l))
  BY <1>5, <1>6, CatIsSeq
<1>8. IsSeq(Cat(Cat(<<x>>, l), <<y>>))
  BY <1>6, <1>7, CatIsSeq
<1> QED
  BY <1>4, <1>5, <1>8, EmptyIsSeq DEF x, y, l

LowLen(a) == IF Len(a.firmware.pages) < LowPages THEN Len(a.firmware.pages) ELSE LowPages
LowCopy(a) == SubSeq(a.firmware.pages, Len(a.firmware.pages) - LowLen(a) + 1, Len(a.firmware.pages))
LowPart(a) == IF a.mode = "real16" THEN DataPages(OneM - LowLen(a), LowCopy(a), Mask(a), TRUE) ELSE <<>>
HighPart(a) == DataPages(FourG - Len(a.firmware.pages), a.firmware.pages, Mask(a), TRUE)

LEMMA FirmwareIsSeq ==
    ASSUME NEW a, IsSeq(a.firmware.pages), IsSeq(a.vars),
           Len(a.vars) + Len(a.firmware.pages) <= FourG
    PROVE  /\ IsSeq(LowCopy(a)) /\ Len(LowCopy(a)) = LowLen(a) /\ OneM - LowLen(a) \in Nat
           /\ LowLen(a) \in Nat /\ LowLen(a) <= LowPages
           /\ FourG - Len(a.firmware.pages) \in Nat
           /\ FourG - Len(a.vars) - Len(a.firmware.pages) \in Nat
           /\ IsSeq(LowPart(a)) /\ IsSeq(HighPart(a)) /\ IsSeq(VarsPages(a))
           /\ FirmwarePart(a) = Cat(Cat(LowPart(a), HighPart(a)), VarsPages(a))
           /\ Others(LowPart(a)) = <<>> /\ Others(HighPart(a)) = <<>> /\ Others(VarsPages(a)) = <<>>
<1> DEFINE fw == a.firmware.pages
           n == Len(fw)
           low == LowLen(a)
           c == LowCopy(a)
<1>1. {FourG, OneM, LowPages} \subseteq Nat /\ LowPages <= OneM /\ Len(a.vars) \in Nat /\ n \in Nat
  BY LayoutAssumption DEF IsSeq
<1>2. low \in Nat /\ low <= LowPages /\ low <= n
  <2> HIDE DEF n
  <2> QED
    BY <1>1 DEF LowLen, n
<1>3. OneM - low \in Nat /\ FourG - n \in Nat /\ FourG - Len(a.vars) - n \in Nat
  <2> DEFINE v == Len(a.vars)
  <2>1. v + n <= FourG
    OBVIOUS
  <2>2. v \in Nat /\ n \in Nat /\ FourG \in Nat /\ OneM \in Nat /\ LowPages \in Nat /\ LowPages <= OneM
    BY <1>1
  <2> HIDE DEF low, v, n
  <2>3. OneM - low \in Nat /\ FourG - n \in Nat /\ FourG - v - n \in Nat
    BY <1>2, <2>1, <2>2
  <2> QED
    BY <2>3 DEF v
<1>4. IsSeq(c) /\ Len(c) = low
  <2> DEFINE S == ToSet(fw)
             from == n - low + 1
  <2>1. fw \in Seq(S) /\ c = SubSeq(fw, from, n)
    BY DEF IsSeq, LowCopy
  <2>2. from \in Nat /\ from >= 1 /\ n - from + 1 = low /\ from <= n + 1
    <3> HIDE DEF n, low
    <3> QED
      BY <1>1, <1>2
  <2> HIDE DEF S, from, fw, c, low
  <2>3. c \in Seq(S) /\ Len(c) = low
    BY <1>1, <1>2, <2>1, <2>2
  <2> QED
    BY <2>3, SeqIsSeq
<1>5. FirmwarePart(a) = Cat(Cat(LowPart(a), HighPart(a)), VarsPages(a))
  BY DEF FirmwarePart, FirmwarePages, LowPart, HighPart, LowCopy, LowLen, Mask, Cat
<1>6. IsSeq(LowPart(a)) /\ IsSeq(HighPart(a)) /\ IsSeq(VarsPages(a))
  <2>1. IsSeq(DataPages(OneM - low, c, Mask(a), TRUE))
    BY <1>3, <1>4, PagesData, 0 \in Nat
  <2>2. IsSeq(HighPart(a))
    BY <1>3, PagesData, 0 \in Nat DEF HighPart
  <2>3. IsSeq(VarsPages(a))
    BY <1>3, PagesData, 0 \in Nat DEF VarsPages
  <2> QED
    BY <2>1, <2>2, <2>3, EmptyIsSeq DEF LowPart
<1>7. Others(LowPart(a)) = <<>> /\ Others(HighPart(a)) = <<>> /\ Others(VarsPages(a)) = <<>>
  <2>1. Others(DataPages(OneM - low, c, Mask(a), TRUE)) = <<>>
    BY <1>3, <1>4, OthersData
  <2>2. Others(HighPart(a)) = <<>>
    BY <1>3, OthersData DEF HighPart
  <2>3. Others(VarsPages(a)) = <<>>
    BY <1>3, OthersData DEF VarsPages
  <2>4. Others(<<>>) = <<>>
    <3>1. <<>> \in Seq({}) /\ Len(<<>>) = 0
      BY ShortSeqs
    <3> QED
      BY KeepEmpty DEF Others, Where
  <2> QED
    BY <2>1, <2>2, <2>3, <2>4 DEF LowPart
<1> QED
  BY <1>2, <1>3, <1>4, <1>5, <1>6, <1>7

-----------------------------------------------------------------------------
(* What the file holds. *)

\* A build that has got as far as placing its blobs.
Ready(a, m, bs) ==
    /\ a \in Builds /\ m = ParseMeta(a.firmware)
    /\ \E k \in Kernels : bs = BlobsOf(a, FinalKernel(a, k))
    /\ DOMAIN bs # {} => OfType(m, "IgvmHobArea") # <<>>

LEMMA ReadyFacts ==
    ASSUME NEW a, NEW m, NEW bs, Ready(a, m, bs)
    PROVE  /\ a \in Builds /\ m = ParseMeta(a.firmware) /\ GoodBlobs(bs)
           /\ BlobAddr(bs, Len(Given(bs)) + 1) + Len(a.vars) + Len(a.firmware.pages) <= FourG
           /\ BlobAddr(bs, Len(Given(bs)) + 1) \in Nat /\ BlobAddr(bs, Len(Given(bs)) + 1) >= DataBase
           /\ Len(a.vars) \in Nat /\ Len(a.firmware.pages) \in Nat /\ a.smp \in Nat \ {0}
           /\ Len(a.vars) + Len(a.firmware.pages) <= FourG - DataBase
           /\ IsSeq(a.vars) /\ IsSeq(a.firmware.pages)
           /\ DOMAIN bs # {} => /\ HobArea(m) \in ToSet(OfType(m, "IgvmHobArea"))
                                /\ HobArea(m).base \in Nat /\ HobArea(m).size \in Nat \ {0}
                                /\ HobArea(m).base + HobArea(m).size <= DataBase
<1>1. PICK k \in Kernels : bs = BlobsOf(a, FinalKernel(a, k))
  BY DEF Ready
<1>2. a \in Builds /\ m = ParseMeta(a.firmware)
  BY DEF Ready
<1>3. /\ GoodBlobs(bs)
      /\ BlobAddr(bs, Len(Given(bs)) + 1) + Len(a.vars) + Len(a.firmware.pages) <= FourG
      /\ Len(a.vars) \in Nat /\ Len(a.firmware.pages) \in Nat /\ a.smp \in Nat \ {0}
      /\ IsSeq(a.vars) /\ IsSeq(a.firmware.pages)
  BY <1>1, <1>2, BlobFacts
<1> DEFINE N == Len(Given(bs))
           e == BlobAddr(bs, N + 1)
           v == Len(a.vars)
           n == Len(a.firmware.pages)
<1>4. N \in Nat
  BY <1>3, GivenFacts
<1>5. e \in Nat /\ e >= DataBase
  <2>1. N \in 0 .. N
    BY <1>4
  <2> QED
    BY <1>3, <2>1, BlobsApart
<1>6. v + n <= FourG - DataBase
  <2>1. FourG \in Nat /\ DataBase \in Nat /\ e + v + n <= FourG /\ v \in Nat /\ n \in Nat
    BY <1>3, LayoutAssumption
  <2> HIDE DEF e, v, n
  <2> QED
    BY <1>5, <2>1
<1>7. ASSUME DOMAIN bs # {}
      PROVE  /\ HobArea(m) \in ToSet(OfType(m, "IgvmHobArea"))
             /\ HobArea(m).base \in Nat /\ HobArea(m).size \in Nat \ {0}
             /\ HobArea(m).base + HobArea(m).size <= DataBase
  <2>1. OfType(m, "IgvmHobArea") # <<>>
    BY <1>7 DEF Ready
  <2>2. IsSeq(RegionsOf(m))
    BY <1>2, RegionFacts
  <2>3. HobArea(m) \in ToSet(OfType(m, "IgvmHobArea"))
    BY <2>1, <2>2, OfTypeFacts DEF HobArea
  <2> QED
    BY <1>2, <2>3, RegionFacts
<1> QED
  BY <1>2, <1>3, <1>5, <1>6, <1>7

LEMMA PlainIsSeq ==
    ASSUME NEW a, NEW m, NEW bs, Ready(a, m, bs)
    PROVE  /\ IsSeq(Plain(a, m)) /\ IsSeq(Contexts(a, m)) /\ IsSeq(SnpPart(a, m))
           /\ IsSeq(Parameters(m, Mask(a))) /\ IsSeq(FirmwarePart(a))
           /\ IsSeq(LowPart(a)) /\ IsSeq(HighPart(a)) /\ IsSeq(VarsPages(a))
<1>1. /\ a \in Builds /\ m = ParseMeta(a.firmware) /\ a.smp \in Nat
      /\ IsSeq(a.vars) /\ IsSeq(a.firmware.pages)
  BY ReadyFacts
<1>2. Len(a.vars) + Len(a.firmware.pages) <= FourG
  <2> DEFINE v == Len(a.vars)
             n == Len(a.firmware.pages)
  <2>1. v + n <= FourG - DataBase /\ v \in Nat /\ n \in Nat /\ FourG \in Nat /\ DataBase \in Nat
    BY ReadyFacts, LayoutAssumption
  <2> HIDE DEF v, n
  <2>2. v + n <= FourG
    BY <2>1
  <2> QED
    BY <2>2 DEF v, n
<1>3. IsSeq(RegionsOf(m)) /\ \A r \in ToSet(RegionsOf(m)) : r.size \in Nat
  BY <1>1, RegionFacts
<1>4. IsSeq(Contexts(a, m))
  BY <1>1, ContextsIsSeq
<1>5. IsSeq(SnpPart(a, m))
  BY <1>3, SnpPagesIsSeq, EmptyIsSeq DEF SnpPart
<1>6. IsSeq(Parameters(m, Mask(a)))
  BY <1>3, ParametersIsSeq
<1>7. /\ IsSeq(LowPart(a)) /\ IsSeq(HighPart(a)) /\ IsSeq(VarsPages(a))
      /\ FirmwarePart(a) = Cat(Cat(LowPart(a), HighPart(a)), VarsPages(a))
  BY <1>1, <1>2, FirmwareIsSeq
<1>8. IsSeq(FirmwarePart(a))
  <2>1. IsSeq(Cat(LowPart(a), HighPart(a)))
    BY <1>7, CatIsSeq
  <2>2. IsSeq(Cat(Cat(LowPart(a), HighPart(a)), VarsPages(a)))
    BY <1>7, <2>1, CatIsSeq
  <2> QED
    BY <1>7, <2>2
<1>9. IsSeq(Cat(Contexts(a, m), SnpPart(a, m)))
  BY <1>4, <1>5, CatIsSeq
<1>10. IsSeq(Cat(Cat(Contexts(a, m), SnpPart(a, m)), Parameters(m, Mask(a))))
  BY <1>6, <1>9, CatIsSeq
<1>11. IsSeq(Plain(a, m))
  BY <1>8, <1>10, CatIsSeq DEF Plain
<1> QED
  BY <1>4, <1>5, <1>6, <1>7, <1>8, <1>11

(* The blobs are where they were placed, and the sort moves no page away. *)
LEMMA FileRight ==
    ASSUME NEW a, NEW m, NEW bs, Ready(a, m, bs)
    PROVE  /\ IsSeq(Placed(a, m, bs)) /\ IsSeq(SortPages(Placed(a, m, bs)))
           /\ Others(Placed(a, m, bs)) = Others(Plain(a, m))
           /\ DOMAIN bs # {} =>
                HobsRight(Placed(a, m, bs), Plain(a, m), bs, Mask(a), HobArea(m))
           /\ \A g \in 0 .. FourG - 1 :
                PagesAt(SortPages(Placed(a, m, bs)), g) = PagesAt(Placed(a, m, bs), g)
<1> DEFINE p == Placed(a, m, bs)
<1>1. IsSeq(Plain(a, m))
  BY PlainIsSeq
<1>2. DOMAIN bs # {} => HobsRight(p, Plain(a, m), bs, Mask(a), HobArea(m))
  <2> SUFFICES ASSUME DOMAIN bs # {} PROVE HobsRight(p, Plain(a, m), bs, Mask(a), HobArea(m))
    OBVIOUS
  <2>1. GoodBlobs(bs) /\ HobArea(m).base \in Nat /\ HobArea(m).size \in Nat \ {0}
    BY ReadyFacts
  <2>2. p = PlaceHobs(bs, Mask(a), HobArea(m), Plain(a, m))
    BY DEF Placed
  <2> HIDE DEF p
  <2> QED
    BY <1>1, <2>1, <2>2, PlaceHobsRight
<1>3. DOMAIN bs = {} => p = Plain(a, m)
  BY DEF Placed
<1>4. IsSeq(p) /\ Others(p) = Others(Plain(a, m))
  BY <1>1, <1>2, <1>3 DEF HobsRight
<1> HIDE DEF p
<1>5. \A g \in 0 .. FourG - 1 : PagesAt(SortPages(p), g) = PagesAt(p, g)
  BY <1>4, PagesSort
<1>6. IsSeq(SortPages(p))
  <2> DEFINE S == ToSet(p)
  <2>1. p \in Seq(S)
    BY <1>4 DEF IsSeq
  <2> HIDE DEF S
  <2>2. SortPages(p) \in Seq(S)
    BY <2>1, SortBuckets
  <2> QED
    BY <2>2, SeqIsSeq
<1> QED
  BY <1>2, <1>4, <1>5, <1>6 DEF p

(* The pages of a blob are in the file. *)
LEMMA BlobInFile ==
    ASSUME NEW a, NEW m, NEW bs, Ready(a, m, bs), NEW h \in ToSet(HobList(bs)),
           NEW i \in 1 .. Len(bs[h.blob])
    PROVE  /\ h.addr + i - 1 \in 0 .. FourG - 1 /\ h.addr + i - 1 >= DataBase
           /\ PagesAt(SortPages(Placed(a, m, bs)), h.addr + i - 1) =
                <<Page(h.addr + i - 1, Mask(a), "NORMAL", h.blob \notin Unmeasured, bs[h.blob][i])>>
           /\ h.blob \in DOMAIN bs
<1> DEFINE e == BlobAddr(bs, Len(Given(bs)) + 1)
           v == Len(a.vars)
           n == Len(a.firmware.pages)
           g == h.addr + i - 1
           l == Len(bs[h.blob])
<1>1. GoodBlobs(bs) /\ e + v + n <= FourG /\ e \in Nat /\ v \in Nat /\ n \in Nat
  BY ReadyFacts
<1>2. /\ h.blob \in DOMAIN bs /\ h.addr \in Nat /\ l \in Nat /\ h.length = l
      /\ h.addr >= DataBase /\ h.addr + h.length <= e
  BY <1>1, HobFacts DEF GoodHob
<1>3. FourG \in Nat /\ DataBase \in Nat
  BY LayoutAssumption
<1> HIDE DEF e, v, n
<1>4. g \in Nat /\ g <= FourG - 1 /\ g >= DataBase /\ g >= h.addr /\ g < h.addr + h.length /\ g - h.addr + 1 = i
  <2> HIDE DEF l
  <2>1. i \in 1 .. l
    BY DEF l
  <2> QED
    BY <1>1, <1>2, <1>3, <2>1
<1>5. InHob(h, g) /\ g \in 0 .. FourG - 1
  BY <1>3, <1>4 DEF InHob
<1>6. DOMAIN bs # {}
  BY <1>2
<1>7. HobsRight(Placed(a, m, bs), Plain(a, m), bs, Mask(a), HobArea(m))
  BY <1>6, FileRight
<1>8. PagesAt(Placed(a, m, bs), g) = <<HobPage(bs, Mask(a), h, h.blob \notin Unmeasured, g)>>
  BY <1>4, <1>5, <1>7 DEF HobsRight
<1>9. PagesAt(SortPages(Placed(a, m, bs)), g) = PagesAt(Placed(a, m, bs), g)
  BY <1>5, FileRight
<1>10. HobPage(bs, Mask(a), h, h.blob \notin Unmeasured, g) =
         Page(g, Mask(a), "NORMAL", h.blob \notin Unmeasured, bs[h.blob][i])
  BY <1>4 DEF HobPage
<1> QED
  BY <1>2, <1>4, <1>5, <1>8, <1>9, <1>10

(* The page of the HOBs is in the file. *)
LEMMA HobPageInFile ==
    ASSUME NEW a, NEW m, NEW bs, Ready(a, m, bs), DOMAIN bs # {}
    PROVE  PagesAt(SortPages(Placed(a, m, bs)), HobArea(m).base) =
             <<Page(HobArea(m).base, Mask(a), "NORMAL", TRUE, HobList(bs))>>
<1> DEFINE g == HobArea(m).base
<1>1. /\ GoodBlobs(bs) /\ g \in Nat /\ HobArea(m).size \in Nat \ {0}
      /\ g + HobArea(m).size <= DataBase
  BY ReadyFacts
<1>2. FourG \in Nat /\ DataBase \in Nat /\ DataBase <= FourG
  BY LayoutAssumption
<1>3. g < DataBase /\ g \in 0 .. FourG - 1
  BY <1>1, <1>2
<1>4. \A h \in ToSet(HobList(bs)) : ~InHob(h, g)
  <2>1. \A h \in ToSet(HobList(bs)) : h.addr >= DataBase /\ h.addr \in Nat
    BY <1>1, HobFacts DEF GoodHob
  <2> QED
    BY <1>1, <1>2, <1>3, <2>1 DEF InHob
<1>5. HobsRight(Placed(a, m, bs), Plain(a, m), bs, Mask(a), HobArea(m))
  BY FileRight
<1>6. PagesAt(Placed(a, m, bs), g) = <<Page(g, Mask(a), "NORMAL", TRUE, HobList(bs))>>
  BY <1>1, <1>4, <1>5 DEF HobsRight
<1>7. PagesAt(SortPages(Placed(a, m, bs)), g) = PagesAt(Placed(a, m, bs), g)
  BY <1>3, FileRight
<1> QED
  BY <1>6, <1>7

-----------------------------------------------------------------------------
(* The state of a build is what its command line, the firmware and the blobs *)
(* say.                                                                      *)

LEMMA BuildInit == Init => BuildInv
BY DEF Init, BuildInv, FilesInv, ArgsInv, BlobInv, DirectivesInv, Steps, Filling, Filled

LEMMA FilesStep == BuildInv /\ [Next]_vars => FilesInv'
<1> SUFFICES ASSUME BuildInv, [Next]_vars PROVE FilesInv'
  OBVIOUS
<1> USE DEF BuildInv, FilesInv
<1>1. CASE Start \/ BuildUki \/ ReadMeta \/ AddContexts \/ AddSnpPages \/ AddParams
  BY <1>1 DEF Start, BuildUki, ReadMeta, AddContexts, AddSnpPages, AddParams
<1>2. CASE AddFirmware \/ AddHobData \/ Finalize \/ MeasureNext \/ MeasureDone \/ Refuse
  BY <1>2 DEF AddFirmware, AddHobData, Finalize, MeasureNext, MeasureDone, Refuse
<1>3. CASE WriteIgvm \/ WriteManifest
  BY <1>3 DEF WriteIgvm, WriteManifest
<1>4. CASE Kill
  BY <1>4 DEF Kill
<1>5. CASE EditKernel
  BY <1>5 DEF EditKernel
<1>6. CASE UNCHANGED vars
  BY <1>6 DEF vars
<1> QED
  BY <1>1, <1>2, <1>3, <1>4, <1>5, <1>6 DEF Next

LEMMA ArgsStep == BuildInv /\ [Next]_vars => ArgsInv'
<1> SUFFICES ASSUME BuildInv, [Next]_vars PROVE ArgsInv'
  OBVIOUS
<1> USE DEF BuildInv, ArgsInv, Steps, Filling, Filled, Goes
<1>1. CASE Start
  BY <1>1 DEF Start
<1>2. CASE BuildUki
  BY <1>2 DEF BuildUki
<1>3. CASE ReadMeta
  BY <1>3 DEF ReadMeta
<1>4. CASE AddContexts
  BY <1>4 DEF AddContexts, ApsCanStart, UsesSnp
<1>5. CASE AddSnpPages \/ AddParams \/ AddFirmware
  BY <1>5 DEF AddSnpPages, AddParams, AddFirmware, ApsCanStart, UsesSnp
<1>6. CASE AddHobData
  BY <1>6 DEF AddHobData, HobsHavePlace, ApsCanStart, UsesSnp
<1>7. CASE Finalize
  BY <1>7 DEF Finalize, HobsHavePlace, ApsCanStart, UsesSnp
<1>8. CASE MeasureNext
  BY <1>8 DEF MeasureNext, HobsHavePlace, ApsCanStart, UsesSnp
<1>9. CASE MeasureDone
  BY <1>9 DEF MeasureDone, HobsHavePlace, ApsCanStart, UsesSnp
<1>10. CASE WriteIgvm
  BY <1>10 DEF WriteIgvm, HobsHavePlace, ApsCanStart, UsesSnp
<1>11. CASE WriteManifest \/ Refuse \/ Kill
  BY <1>11 DEF WriteManifest, Refuse, Kill
<1>12. CASE EditKernel \/ UNCHANGED vars
  BY <1>12 DEF EditKernel, vars, HobsHavePlace, ApsCanStart, UsesSnp
<1> QED
  BY <1>1, <1>2, <1>3, <1>4, <1>5, <1>6, <1>7, <1>8, <1>9, <1>10, <1>11, <1>12 DEF Next

LEMMA BlobStep == BuildInv /\ [Next]_vars => BlobInv'
<1> SUFFICES ASSUME BuildInv, [Next]_vars PROVE BlobInv'
  OBVIOUS
<1> USE DEF BuildInv, Filling, Filled, Goes
<1>0. step \in Steps
  BY DEF ArgsInv
<1>1. CASE Start
  BY <1>1 DEF Start, BlobInv, FilesInv
<1>2. CASE BuildUki
  <2>1. PICK k \in Kernels : blobs = BlobsOf(args, k) /\ kernelFile = IF args.kernel THEN k ELSE None
    BY <1>2 DEF BuildUki, BlobInv
  <2>2. /\ step' = "meta" /\ args' = args /\ kernelFile' = kernelFile /\ files.kernel \in Kernels
        /\ blobs' = IF args.cmdline THEN [blobs EXCEPT !["kernel"] = Wrapped(args, files.kernel)]
                    ELSE blobs
        /\ args.cmdline => args.kernel
    BY <1>2 DEF BuildUki, FilesInv, Usable
  <2>3. CASE args.cmdline
    <3> DEFINE w == Wrapped(args, files.kernel)
    <3>1. blobs' = [blobs EXCEPT !["kernel"] = w] /\ args.kernel
      BY <2>2, <2>3
    <3>2. FinalKernel(args, files.kernel) = w
      BY <2>3 DEF FinalKernel
    <3> HIDE DEF w
    <3>3. blobs' = BlobsOf(args, w)
      BY <2>1, <3>1 DEF BlobsOf
    <3>4. \E c \in Kernels : /\ blobs' = BlobsOf(args', FinalKernel(args', c))
                             /\ ~args'.cmdline => kernelFile' = IF args'.kernel THEN c ELSE None
      BY <2>2, <2>3, <3>2, <3>3
    <3> QED
      BY <2>2, <3>4 DEF BlobInv
  <2>4. CASE ~args.cmdline
    <3>1. FinalKernel(args, k) = k /\ blobs' = blobs
      BY <2>2, <2>4 DEF FinalKernel
    <3>2. \E c \in Kernels : /\ blobs' = BlobsOf(args', FinalKernel(args', c))
                             /\ ~args'.cmdline => kernelFile' = IF args'.kernel THEN c ELSE None
      BY <2>1, <2>2, <3>1
    <3> QED
      BY <2>2, <3>2 DEF BlobInv
  <2> QED
    BY <2>3, <2>4
<1>3. CASE /\ UNCHANGED <<args, kernelFile, blobs>>
           /\ step' = "wrap" => step = "wrap"
           /\ step' \in {"meta", "contexts"} \cup Filling \cup Filled =>
                step \in {"meta", "contexts"} \cup Filling \cup Filled
  BY <1>3 DEF BlobInv
<1>4. CASE ReadMeta \/ AddContexts \/ AddSnpPages \/ AddParams \/ AddFirmware \/ AddHobData
  BY <1>3, <1>4 DEF ReadMeta, AddContexts, AddSnpPages, AddParams, AddFirmware, AddHobData
<1>5. CASE Finalize \/ MeasureNext \/ MeasureDone \/ WriteIgvm \/ WriteManifest \/ Refuse \/ Kill
  BY <1>3, <1>5 DEF Finalize, MeasureNext, MeasureDone, WriteIgvm, WriteManifest, Refuse, Kill
<1>6. CASE EditKernel \/ UNCHANGED vars
  BY <1>3, <1>6 DEF EditKernel, vars
<1> QED
  BY <1>1, <1>2, <1>4, <1>5, <1>6 DEF Next

LEMMA DirectivesStep == BuildInv /\ [Next]_vars => DirectivesInv'
<1> SUFFICES ASSUME BuildInv, [Next]_vars PROVE DirectivesInv'
  OBVIOUS
<1> USE DEF Goes
<1>0. step \in Steps /\ DirectivesInv
  BY DEF BuildInv, ArgsInv
<1>1. CASE Start
  BY <1>1 DEF Start, DirectivesInv
<1>2. CASE BuildUki \/ ReadMeta
  BY <1>0, <1>2 DEF BuildUki, ReadMeta, DirectivesInv
<1>3. CASE AddContexts
  <2>1. /\ step' = "snp" /\ directives = <<>> /\ UNCHANGED <<args, meta, blobs>>
        /\ directives' = Cat(directives, Contexts(args, meta))
    BY <1>0, <1>3 DEF AddContexts, Add, DirectivesInv, Cat
  <2>2. args.smp \in Nat
    BY <1>3, InputAssumption DEF BuildInv, ArgsInv, AddContexts
  <2>3. IsSeq(Contexts(args, meta))
    BY <2>2, ContextsIsSeq
  <2>4. Cat(<<>>, Contexts(args, meta)) = Contexts(args, meta)
    BY <2>3, CatEmpty DEF IsSeq
  <2>5. directives' = Contexts(args', meta')
    BY <2>1, <2>4
  <2> QED
    BY <2>1, <2>5 DEF DirectivesInv
<1>4. CASE AddSnpPages
  <2>1. /\ step' = "params" /\ directives = Contexts(args, meta) /\ UNCHANGED <<args, meta, blobs>>
        /\ directives' = Cat(directives, SnpPart(args, meta))
    BY <1>0, <1>4 DEF AddSnpPages, Add, DirectivesInv, Cat, SnpPart, UsesSnp, Mask
  <2>2. directives' = Cat(Contexts(args', meta'), SnpPart(args', meta'))
    BY <2>1
  <2> QED
    BY <2>1, <2>2 DEF DirectivesInv
<1>5. CASE AddParams
  <2>1. /\ step' = "firmware" /\ UNCHANGED <<args, meta, blobs>>
        /\ directives = Cat(Contexts(args, meta), SnpPart(args, meta))
        /\ directives' = Cat(directives, Parameters(meta, Mask(args)))
    BY <1>0, <1>5 DEF AddParams, Add, DirectivesInv, Cat, Mask
  <2>2. directives' = Cat(Cat(Contexts(args', meta'), SnpPart(args', meta')), Parameters(meta', Mask(args')))
    BY <2>1
  <2> QED
    BY <2>1, <2>2 DEF DirectivesInv
<1>6. CASE AddFirmware
  <2>1. /\ step' = "hobs" /\ UNCHANGED <<args, meta, blobs>>
        /\ directives' = Cat(directives, FirmwarePart(args))
    BY <1>6 DEF AddFirmware, Add, Cat, FirmwarePart
  <2>2. directives = Cat(Cat(Contexts(args, meta), SnpPart(args, meta)), Parameters(meta, Mask(args)))
    BY <1>0, <1>6 DEF AddFirmware, DirectivesInv
  <2>3. directives' = Plain(args', meta')
    BY <2>1, <2>2 DEF Plain
  <2> QED
    BY <2>1, <2>3 DEF DirectivesInv
<1>7. CASE AddHobData
  <2>1. step' = "finalize" /\ directives = Plain(args, meta) /\ UNCHANGED <<args, meta, blobs>>
    BY <1>0, <1>7 DEF AddHobData, DirectivesInv
  <2>2. directives' = Placed(args, meta, blobs)
    BY <1>7, <2>1 DEF AddHobData, Placed, HobArea, Mask
  <2>3. directives' = Placed(args', meta', blobs')
    BY <2>1, <2>2
  <2> QED
    BY <2>1, <2>3 DEF DirectivesInv
<1>8. CASE Finalize
  <2>1. /\ step' = "measure" /\ directives = Placed(args, meta, blobs) /\ UNCHANGED <<args, meta, blobs>>
        /\ directives' = SortPages(directives)
    BY <1>0, <1>8 DEF Finalize, DirectivesInv
  <2>2. directives' = SortPages(Placed(args', meta', blobs'))
    BY <2>1
  <2> QED
    BY <2>1, <2>2 DEF DirectivesInv
<1>9. CASE MeasureNext \/ MeasureDone \/ WriteIgvm
  BY <1>0, <1>9 DEF MeasureNext, MeasureDone, WriteIgvm, DirectivesInv
<1>10. CASE WriteManifest \/ Refuse \/ Kill
  BY <1>10 DEF WriteManifest, Refuse, Kill, DirectivesInv
<1>11. CASE EditKernel \/ UNCHANGED vars
  BY <1>0, <1>11 DEF EditKernel, vars, DirectivesInv
<1> QED
  BY <1>1, <1>2, <1>3, <1>4, <1>5, <1>6, <1>7, <1>8, <1>9, <1>10, <1>11 DEF Next

LEMMA BuildInvariant == Spec => []BuildInv
<1>1. BuildInv /\ [Next]_vars => BuildInv'
  BY FilesStep, ArgsStep, BlobStep, DirectivesStep DEF BuildInv
<1> QED
  BY BuildInit, <1>1, PTL DEF Spec

LEMMA BuiltIsReady ==
    ASSUME BuildInv, Built
    PROVE  /\ Ready(args, meta, blobs) /\ directives = SortPages(Placed(args, meta, blobs))
           /\ UsesSnp /\ ApsCanStart
<1>1. step \in {"write", "manifest"}
  BY DEF Built
<1>2. args \in Builds /\ meta = ParseMeta(args.firmware) /\ HobsHavePlace /\ UsesSnp /\ ApsCanStart
  BY <1>1 DEF BuildInv, ArgsInv, Filling, Filled
<1>3. \E k \in Kernels : blobs = BlobsOf(args, FinalKernel(args, k))
  BY <1>1 DEF BuildInv, BlobInv, Filling, Filled
<1>4. directives = SortPages(Placed(args, meta, blobs))
  BY <1>1 DEF BuildInv, DirectivesInv
<1> QED
  BY <1>2, <1>3, <1>4 DEF Ready, HobsHavePlace

LEMMA HobsAreRight == BuildInv => HobsPointAtBlobs
<1> SUFFICES ASSUME BuildInv, Built, DOMAIN blobs # {}
             PROVE  LET list == PagesAt(directives, OfType(meta, "IgvmHobArea")[1].base)
                    IN /\ Len(list) = 1
                       /\ {h.blob : h \in Range(list[1].data)} = DOMAIN blobs
                       /\ \A h \in Range(list[1].data) : \A i \in 1 .. Len(blobs[h.blob]) :
                            LET at == PagesAt(directives, h.addr + i - 1)
                            IN /\ Len(at) = 1 /\ at[1].data = blobs[h.blob][i]
                               /\ at[1].measured <=> h.blob # "shim"
  BY DEF HobsPointAtBlobs
<1> DEFINE list == PagesAt(directives, OfType(meta, "IgvmHobArea")[1].base)
           L == HobList(blobs)
<1>1. Ready(args, meta, blobs) /\ directives = SortPages(Placed(args, meta, blobs))
  BY BuiltIsReady
<1>2. list = <<Page(HobArea(meta).base, Mask(args), "NORMAL", TRUE, L)>>
  BY <1>1, HobPageInFile DEF HobArea
<1>3. Len(list) = 1 /\ list[1].data = L
  <2> HIDE DEF list, L
  <2> QED
    BY <1>2 DEF Page
<1>4. Range(L) = ToSet(L)
  BY DEF Range, ToSet
<1>5. GoodBlobs(blobs)
  BY <1>1, ReadyFacts
<1>6. {h.blob : h \in ToSet(L)} = DOMAIN blobs
  BY <1>5, HobFacts
<1>7. ASSUME NEW h \in ToSet(L), NEW i \in 1 .. Len(blobs[h.blob])
      PROVE  LET at == PagesAt(directives, h.addr + i - 1)
             IN /\ Len(at) = 1 /\ at[1].data = blobs[h.blob][i]
                /\ at[1].measured <=> h.blob # "shim"
  <2> DEFINE at == PagesAt(directives, h.addr + i - 1)
             u == h.blob \notin Unmeasured
  <2>1. at = <<Page(h.addr + i - 1, Mask(args), "NORMAL", u, blobs[h.blob][i])>>
    BY <1>1, <1>7, BlobInFile
  <2>2. u <=> h.blob # "shim"
    BY DEF Unmeasured
  <2> HIDE DEF at, u
  <2>3. Len(at) = 1 /\ at[1].data = blobs[h.blob][i] /\ at[1].measured = u
    BY <2>1 DEF Page
  <2> QED
    BY <2>2, <2>3 DEF at
<1> HIDE DEF list, L
<1>8. /\ Len(list) = 1
      /\ {h.blob : h \in Range(list[1].data)} = DOMAIN blobs
      /\ \A h \in Range(list[1].data) : \A i \in 1 .. Len(blobs[h.blob]) :
           LET at == PagesAt(directives, h.addr + i - 1)
           IN /\ Len(at) = 1 /\ at[1].data = blobs[h.blob][i]
              /\ at[1].measured <=> h.blob # "shim"
  BY <1>3, <1>4, <1>6, <1>7
<1> QED
  BY <1>8 DEF list

\* The firmware finds every blob through the HOB page: for every set of blobs
\* that fits, the HOB page is in the file once, and each address it lists
\* holds that blob, page by page and once, measured unless it is the shim
\* (IgvmDataList::add, add_hob_data, remove_page_data_in_range, sort_pages).
THEOREM HobsStayRight == Spec => []HobsPointAtBlobs
BY BuildInvariant, HobsAreRight, PTL

-----------------------------------------------------------------------------
(* The digest is that of a walk over the whole file. *)

LEMMA WalkedExists ==
    ASSUME NEW ds, Len(ds) \in Nat
    PROVE  IsWalked(Walked(ds), ds)
<1> DEFINE st(x, n) == MeasureDirective(x, ds[n], ds)
           Solves(f, N) == f = [n \in 0 .. N |-> IF n = 0 THEN NewWalk ELSE st(f[n - 1], n)]
           T == {N \in Nat : \E f : Solves(f, N)}
<1> HIDE DEF st
<1>1. 0 \in T
  <2> DEFINE f == [n \in 0 .. 0 |-> NewWalk]
  <2>1. Solves(f, 0)
    OBVIOUS
  <2> QED
    BY <2>1
<1>2. ASSUME NEW N \in Nat, N \in T PROVE N + 1 \in T
  <2>1. PICK f : Solves(f, N)
    BY <1>2
  <2> DEFINE g == [n \in 0 .. N + 1 |-> IF n = N + 1 THEN st(f[N], N + 1) ELSE f[n]]
  <2>2. ASSUME NEW n \in 0 .. N + 1 PROVE g[n] = IF n = 0 THEN NewWalk ELSE st(g[n - 1], n)
    <3>1. CASE n = N + 1
      <4>1. N \in 0 .. N + 1 /\ N # N + 1 /\ n - 1 = N /\ n # 0
        BY <3>1
      <4>2. g[N] = f[N]
        BY <4>1
      <4> QED
        BY <3>1, <4>1, <4>2
    <3>2. CASE n # N + 1 /\ n # 0
      <4>1. n \in 0 .. N /\ n - 1 \in 0 .. N + 1 /\ n - 1 # N + 1
        BY <3>2
      <4>2. g[n - 1] = f[n - 1] /\ g[n] = f[n]
        BY <3>2, <4>1
      <4>3. f[n] = st(f[n - 1], n)
        BY <2>1, <3>2, <4>1
      <4> QED
        BY <3>2, <4>2, <4>3
    <3>3. CASE n = 0
      <4>1. 0 \in 0 .. N /\ n # N + 1
        BY <3>3
      <4>2. f[0] = NewWalk
        BY <2>1, <4>1
      <4> QED
        BY <3>3, <4>1, <4>2
    <3> QED
      BY <3>1, <3>2, <3>3
  <2>3. Solves(g, N + 1) /\ N + 1 \in Nat
    BY <2>2
  <2> HIDE DEF g, Solves
  <2> QED
    BY <2>3
<1> HIDE DEF T
<1>3. Nat \subseteq T
  BY <1>1, <1>2, SetInduction
<1>4. \E f : Solves(f, Len(ds))
  BY <1>3 DEF T
<1>5. \E f : IsWalked(f, ds)
  BY <1>4 DEF IsWalked, st
<1> QED
  BY <1>5 DEF Walked

LEMMA WalkShape ==
    ASSUME NEW w, IsWalk(w), NEW d, NEW ds
    PROVE  IsWalk(MeasureDirective(w, d, ds)) /\ MeasureDirective(w, d, ds).at = w.at + 1
<1> DEFINE F == {"at", "log", "batch", "prev", "vmsas"}
           same(x) == DOMAIN x = F /\ x.at = w.at
<1>1. DOMAIN w = F /\ w.at \in Nat \ {0}
  BY DEF IsWalk
<1>2. same(MeasurePage(w, d))
  BY <1>1 DEF MeasurePage
<1>3. same(MeasureContext(w, d)) /\ same(w) /\ \A size : same(MeasureInsert(w, d, size))
  BY <1>1 DEF MeasureContext, MeasureInsert
<1>4. \E x : same(x) /\ MeasureDirective(w, d, ds) = [x EXCEPT !.at = @ + 1]
  <2> HIDE DEF same
  <2>1. CASE d.kind \in {"page", "context", "insert"} /\ "snp" \notin d.mask
    BY <1>3, <2>1 DEF MeasureDirective
  <2>2. CASE ~(d.kind \in {"page", "context", "insert"} /\ "snp" \notin d.mask) /\ d.kind = "page"
    BY <1>2, <2>2 DEF MeasureDirective
  <2>3. CASE ~(d.kind \in {"page", "context", "insert"} /\ "snp" \notin d.mask) /\ d.kind = "context"
    BY <1>3, <2>3 DEF MeasureDirective
  <2>4. CASE ~(d.kind \in {"page", "context", "insert"} /\ "snp" \notin d.mask) /\ d.kind = "insert"
    <3> DEFINE x == MeasureInsert(w, d, AreaSize(ds))
    <3>1. same(x)
      BY <1>3
    <3>2. MeasureDirective(w, d, ds) = [x EXCEPT !.at = @ + 1]
      BY <2>4 DEF MeasureDirective
    <3> HIDE DEF x
    <3> QED
      BY <3>1, <3>2
  <2>5. CASE d.kind \notin {"page", "context", "insert"}
    BY <1>3, <2>5 DEF MeasureDirective
  <2> QED
    BY <2>1, <2>2, <2>3, <2>4, <2>5
<1>5. PICK x : same(x) /\ MeasureDirective(w, d, ds) = [x EXCEPT !.at = @ + 1]
  BY <1>4
<1> QED
  BY <1>1, <1>5 DEF IsWalk

LEMMA FilledIsReady ==
    ASSUME BuildInv, step \in Filled
    PROVE  Ready(args, meta, blobs) /\ IsSeq(SortPages(Placed(args, meta, blobs)))
<1>1. args \in Builds /\ meta = ParseMeta(args.firmware) /\ HobsHavePlace
  BY DEF BuildInv, ArgsInv, Filling, Filled
<1>2. \E k \in Kernels : blobs = BlobsOf(args, FinalKernel(args, k))
  BY DEF BuildInv, BlobInv, Filling, Filled
<1>3. Ready(args, meta, blobs)
  BY <1>1, <1>2 DEF Ready, HobsHavePlace
<1> QED
  BY <1>3, FileRight

LEMMA DirectivesIsSeq ==
    ASSUME BuildInv, step \in {"measure", "write", "manifest"}
    PROVE  IsSeq(directives) /\ Len(directives) \in Nat
<1>1. directives = SortPages(Placed(args, meta, blobs)) /\ step \in Filled
  BY DEF BuildInv, DirectivesInv, Filled
<1>2. IsSeq(directives)
  BY <1>1, FilledIsReady
<1> QED
  BY <1>2 DEF IsSeq

LEMMA WalkStep == BuildInv /\ WalkInv /\ [Next]_vars => WalkInv'
<1> SUFFICES ASSUME BuildInv, WalkInv, [Next]_vars PROVE WalkInv'
  OBVIOUS
<1> USE DEF Goes, Filling, Filled
<1>0. step \in Steps
  BY DEF BuildInv, ArgsInv
<1>1. CASE Start
  BY <1>1 DEF Start, WalkInv
<1>2. CASE BuildUki \/ ReadMeta \/ AddContexts \/ AddSnpPages \/ AddParams \/ AddFirmware \/ AddHobData
  BY <1>2 DEF BuildUki, ReadMeta, AddContexts, AddSnpPages, AddParams, AddFirmware, AddHobData, WalkInv
<1>3. CASE Finalize
  <2>1. step = "finalize" /\ step' = "measure" /\ walk' = walk
    BY <1>3 DEF Finalize
  <2>2. walk = NewWalk
    BY <2>1 DEF WalkInv
  <2>3. IsSeq(directives') /\ Len(directives') \in Nat
    <3>1. directives' = SortPages(Placed(args, meta, blobs)) /\ step \in Filled
      BY <1>3 DEF Finalize, BuildInv, DirectivesInv
    <3>2. IsSeq(directives')
      BY <3>1, FilledIsReady
    <3> QED
      BY <3>2 DEF IsSeq
  <2>4. IsWalked(Walked(directives'), directives')
    BY <2>3, WalkedExists
  <2> DEFINE P == Walked(directives')
             N == Len(directives')
  <2> HIDE DEF P, N
  <2>5. P[0] = NewWalk
    BY <2>3, <2>4 DEF IsWalked, P, N
  <2>6. walk'.at = 1 /\ IsWalk(walk')
    BY <2>1, <2>2 DEF NewWalk, IsWalk
  <2>7. walk'.at <= N + 1 /\ walk' = P[walk'.at - 1]
    BY <2>1, <2>2, <2>3, <2>5, <2>6 DEF N
  <2> QED
    BY <2>1, <2>6, <2>7 DEF WalkInv, P, N
<1>4. CASE MeasureNext
  <2>1. /\ step = "measure" /\ step' = "measure" /\ directives' = directives
        /\ walk.at <= Len(directives) /\ walk' = MeasureDirective(walk, directives[walk.at], directives)
    BY <1>4 DEF MeasureNext
  <2> DEFINE P == Walked(directives)
             N == Len(directives)
             n == walk.at
  <2>2. IsWalk(walk) /\ walk = P[n - 1] /\ n \in Nat \ {0}
    BY <2>1 DEF WalkInv, IsWalk
  <2>3. N \in Nat
    BY <2>1, DirectivesIsSeq
  <2>4. IsWalked(P, directives)
    BY <2>3, WalkedExists
  <2>5. IsWalk(walk') /\ walk'.at = n + 1
    BY <2>1, <2>2, WalkShape
  <2> HIDE DEF P, N, n
  <2>6. n \in 0 .. N /\ n # 0
    BY <2>1, <2>2, <2>3 DEF N, n
  <2>7. P[n] = MeasureDirective(P[n - 1], directives[n], directives)
    BY <2>4, <2>6 DEF IsWalked, N
  <2>8. walk' = P[n]
    BY <2>1, <2>2, <2>7 DEF n
  <2>9. walk'.at - 1 = n /\ walk'.at <= N + 1
    BY <2>5, <2>6, <2>3
  <2>10. walk' = P[walk'.at - 1]
    BY <2>8, <2>9
  <2>11. /\ step' = "measure" /\ IsWalk(walk') /\ walk'.at <= Len(directives') + 1
         /\ walk' = Walked(directives')[walk'.at - 1]
    BY <2>1, <2>5, <2>9, <2>10 DEF P, N
  <2> QED
    BY <2>11 DEF WalkInv
<1>5. CASE MeasureDone
  <2>1. /\ step = "measure" /\ step' = "write" /\ directives' = directives
        /\ walk.at > Len(directives) /\ walk' = MeasureRest(walk)
    BY <1>5 DEF MeasureDone
  <2> DEFINE P == Walked(directives)
             N == Len(directives)
             n == walk.at
  <2>2. IsWalk(walk) /\ walk = P[n - 1] /\ n \in Nat \ {0} /\ n <= N + 1
    BY <2>1 DEF WalkInv, IsWalk
  <2>3. N \in Nat
    BY <2>1, DirectivesIsSeq
  <2>4. Digest(directives) = MeasureRest(P[N]).log
    BY DEF Digest, Walked, IsWalked
  <2>5. n > N
    BY <2>1
  <2> HIDE DEF P, N, n
  <2>6. n - 1 = N
    BY <2>2, <2>3, <2>5
  <2>7. walk'.log = Digest(directives')
    BY <2>1, <2>2, <2>4, <2>6
  <2> QED
    BY <2>1, <2>7 DEF WalkInv
<1>6. CASE WriteIgvm
  BY <1>6 DEF WriteIgvm, WalkInv
<1>7. CASE WriteManifest \/ Refuse \/ Kill
  BY <1>7 DEF WriteManifest, Refuse, Kill, WalkInv
<1>8. CASE EditKernel \/ UNCHANGED vars
  BY <1>8 DEF EditKernel, vars, WalkInv
<1> QED
  BY <1>1, <1>2, <1>3, <1>4, <1>5, <1>6, <1>7, <1>8 DEF Next

LEMMA BlobKept ==
    ASSUME BuildInv, step = "manifest", kernelFile # None, ~args.cmdline, NEW i \in DOMAIN kernelFile
    PROVE  HoldsPage(directives, kernelFile[i])
<1>1. PICK k \in Kernels : /\ blobs = BlobsOf(args, FinalKernel(args, k))
                           /\ kernelFile = IF args.kernel THEN k ELSE None
  BY DEF BuildInv, BlobInv, Filling, Filled
<1>2. args.kernel /\ kernelFile = k
  BY <1>1
<1>3. "kernel" \in DOMAIN blobs /\ blobs["kernel"] = k
  <2>1. FinalKernel(args, k) = k
    BY DEF FinalKernel
  <2> QED
    BY <1>1, <1>2, <2>1 DEF BlobsOf
<1>4. Ready(args, meta, blobs) /\ directives = SortPages(Placed(args, meta, blobs))
  BY BuiltIsReady DEF Built
<1>5. GoodBlobs(blobs)
  BY <1>4, ReadyFacts
<1>6. {h.blob : h \in ToSet(HobList(blobs))} = DOMAIN blobs
  BY <1>5, HobFacts
<1>7. PICK h \in ToSet(HobList(blobs)) : h.blob = "kernel"
  BY <1>3, <1>6
<1>8. i \in 1 .. Len(k)
  <2>1. k \in Seq(ToSet(k))
    BY InputAssumption DEF IsBlob
  <2> QED
    BY <1>2, <2>1
<1> DEFINE g == h.addr + i - 1
           p == Page(g, Mask(args), "NORMAL", h.blob \notin Unmeasured, k[i])
<1>9. PagesAt(directives, g) = <<p>> /\ g >= DataBase
  BY <1>3, <1>4, <1>7, <1>8, BlobInFile
<1> DEFINE S == ToSet(directives)
<1>10. directives \in Seq(S)
  BY <1>4, FileRight DEF IsSeq
<1>11. p \in S
  <2> HIDE DEF S, p, g
  <2>1. PagesAt(directives, g) = Keep(directives, AtSet(S, g))
    BY <1>10, PagesKeep
  <2>2. Keep(directives, AtSet(S, g)) \in Seq(S)
    BY <1>10, KeepType
  <2>3. <<p>> \in Seq(S)
    BY <1>9, <2>1, <2>2
  <2>4. Len(<<p>>) = 1 /\ <<p>>[1] = p /\ 1 \in 1 .. 1
    OBVIOUS
  <2> QED
    BY <2>3, <2>4
<1>12. Range(directives) = S
  BY DEF Range, ToSet
<1>13. p.kind = "page" /\ p.gpa = g /\ p.data = k[i]
  BY DEF Page
<1> HIDE DEF p, g, S
<1> QED
  BY <1>2, <1>9, <1>11, <1>12, <1>13 DEF HoldsPage

LEMMA ManifestStep == BuildInv /\ WalkInv /\ ManifestInv /\ [Next]_vars => ManifestInv'
<1> SUFFICES ASSUME BuildInv, WalkInv, ManifestInv, [Next]_vars PROVE ManifestInv'
  OBVIOUS
<1>0. DOMAIN files = {"kernel", "igvm", "manifest"}
  BY DEF BuildInv, FilesInv
<1>1. CASE files'.manifest = files.manifest \/ files'.manifest = None
  BY <1>1 DEF ManifestInv, HoldsPage
<1>2. CASE Start \/ BuildUki \/ ReadMeta \/ AddContexts \/ AddSnpPages \/ AddParams
  BY <1>1, <1>2 DEF Start, BuildUki, ReadMeta, AddContexts, AddSnpPages, AddParams
<1>3. CASE AddFirmware \/ AddHobData \/ Finalize \/ MeasureNext \/ MeasureDone \/ Refuse
  BY <1>1, <1>3 DEF AddFirmware, AddHobData, Finalize, MeasureNext, MeasureDone, Refuse
<1>4. CASE WriteIgvm \/ Kill \/ EditKernel
  BY <1>0, <1>1, <1>4 DEF WriteIgvm, Kill, EditKernel
<1>5. CASE WriteManifest
  <2> DEFINE m == [igvm |-> directives, digest |-> walk.log, cmdline |-> args.cmdline,
                   kernel |-> kernelFile]
  <2>1. step = "manifest" /\ files'.manifest = m
    BY <1>0, <1>5 DEF WriteManifest, Goes
  <2>2. /\ m.igvm = directives /\ m.digest = walk.log
        /\ m.cmdline = args.cmdline /\ m.kernel = kernelFile
    OBVIOUS
  <2>3. walk.log = Digest(directives)
    BY <2>1 DEF WalkInv
  <2>4. ASSUME kernelFile # None, ~args.cmdline, NEW page \in Range(kernelFile)
        PROVE  HoldsPage(directives, page)
    <3>1. PICK i \in DOMAIN kernelFile : page = kernelFile[i]
      BY <2>4 DEF Range
    <3> QED
      BY <2>1, <2>4, <3>1, BlobKept
  <2> HIDE DEF m
  <2>5. /\ m.digest = Digest(m.igvm)
        /\ m.kernel # None /\ ~m.cmdline => \A page \in Range(m.kernel) : HoldsPage(m.igvm, page)
    BY <2>2, <2>3, <2>4
  <2> QED
    BY <2>1, <2>5 DEF ManifestInv
<1>6. CASE UNCHANGED vars
  BY <1>1, <1>6 DEF vars
<1> QED
  BY <1>2, <1>3, <1>4, <1>5, <1>6 DEF Next

LEMMA ManifestInvariant == Spec => [](WalkInv /\ ManifestInv)
<1>1. Init => WalkInv /\ ManifestInv
  BY DEF Init, WalkInv, ManifestInv, Filling
<1> QED
  BY <1>1, BuildInvariant, WalkStep, ManifestStep, PTL DEF Spec

\* A manifest that names the IGVM file on disk names the digest that a walk
\* over that file yields, and for a kernel that was not wrapped its very bytes,
\* however often --kernel changes while the command runs and wherever it is
\* killed (do_build, measure_snp, the manifest written from what was read).
THEOREM ManifestStaysHonest == Spec => []ManifestIsHonest
<1>1. ManifestInv => ManifestIsHonest
  BY DEF ManifestInv, ManifestIsHonest, HoldsPage
<1> QED
  BY <1>1, ManifestInvariant, PTL

-----------------------------------------------------------------------------
(* The pages of the file, address by address. *)

Covered(m, g) == \E p \in ToSet(OfType(m, "IgvmParamArea")) : InArea(p, g)
SnpPage(r, g) == Page(g, {"snp"}, PageType(r.type), TRUE, None)
\* The region gives its page at g to the file.
Gives(m, r, g) == PageType(r.type) # None /\ InArea(r, g) /\ ~Covered(m, g)

LEMMA RegionPagesAt ==
    ASSUME NEW m, NEW r, r.base \in Nat, r.size \in Nat, NEW g \in Nat
    PROVE  PagesAt(RegionPages(m, r), g) = IF Gives(m, r, g) THEN <<SnpPage(r, g)>> ELSE <<>>
<1> DEFINE n == r.size
           P(i) == Page(r.base + i - 1, {"snp"}, PageType(r.type), TRUE, None)
           S == {P(i) : i \in 1 .. n}
           f == AreaPages(r)
           U == Uncovered(m, f)
           A == AtSet(S, g)
           V == U \cap A
<1>1. /\ IsSeq(RegionPages(m, r))
      /\ RegionPages(m, r) = IF PageType(r.type) = None THEN <<>> ELSE Keep(f, U)
  BY RegionPagesIsSeq
<1>2. CASE PageType(r.type) = None
  <2>1. <<>> \in Seq(S)
    BY ShortSeqs
  <2>2. PagesAt(<<>>, g) = Keep(<<>>, A)
    <3> HIDE DEF S
    <3> QED
      BY <2>1, PagesKeep
  <2>3. PagesAt(<<>>, g) = <<>>
    BY <2>2, KeepEmpty
  <2> QED
    BY <1>1, <1>2, <2>3 DEF Gives
<1>3. CASE PageType(r.type) # None
  <2>1. f \in Seq(S) /\ Len(f) = n /\ \A i \in 1 .. n : f[i] = P(i)
    <3>1. f \in [1 .. n -> S] /\ \A i \in 1 .. n : f[i] = P(i)
      BY DEF AreaPages
    <3> HIDE DEF f, S
    <3> QED
      BY <3>1, FunIsSeq
  <2>2. PagesAt(Keep(f, U), g) = Keep(f, V)
    <3> HIDE DEF f, S, U, n
    <3>1. Keep(f, U) \in Seq(S)
      BY <2>1, KeepType
    <3>2. PagesAt(Keep(f, U), g) = Keep(Keep(f, U), AtSet(S, g))
      BY <3>1, PagesKeep
    <3> HIDE DEF A
    <3>3. Keep(Keep(f, U), A) = Keep(f, U \cap A)
      BY <2>1, KeepKeep
    <3> QED
      BY <3>2, <3>3 DEF A
  <2>3. \A i \in 1 .. n : f[i] \in V <=> r.base + i - 1 = g /\ ~Covered(m, g)
    <3>1. ToSet(f) = {f[i] : i \in 1 .. n}
      <4> HIDE DEF f, S
      <4> QED
        BY <2>1, ElementsOf
    <3>2. \A i \in 1 .. n : f[i] \in S /\ f[i] \in ToSet(f) /\ f[i].kind = "page" /\ f[i].gpa = r.base + i - 1
      <4>1. \A i \in 1 .. n : P(i) \in S /\ P(i).kind = "page" /\ P(i).gpa = r.base + i - 1
        BY DEF Page
      <4> HIDE DEF f, S, P
      <4> QED
        BY <2>1, <3>1, <4>1
    <3>3. \A x : (\A p \in Range(OfType(m, "IgvmParamArea")) : ~Covers(p, x)) <=> ~Covered(m, x)
      BY DEF Covered, Covers, InArea, Range, ToSet
    <3> HIDE DEF f, S
    <3> QED
      BY <3>2, <3>3 DEF Uncovered, AtSet
  <2>4. CASE InArea(r, g) /\ ~Covered(m, g)
    <3> DEFINE k == g - r.base + 1
    <3>1. k \in 1 .. n /\ \A i \in 1 .. n : r.base + i - 1 = g <=> i = k
      BY <2>4 DEF InArea
    <3>2. f[k] = SnpPage(r, g)
      <4>1. f[k] = P(k) /\ r.base + k - 1 = g
        BY <2>1, <3>1
      <4> QED
        BY <4>1 DEF SnpPage
    <3>3. Keep(f, V) = <<f[k]>>
      <4> HIDE DEF f, S, V, k, n
      <4>1. f \in Seq(S) /\ k \in 1 .. Len(f) /\ f[k] \in V /\ \A i \in 1 .. Len(f) : f[i] \in V => i = k
        BY <2>1, <2>3, <2>4, <3>1
      <4> QED
        BY <4>1, KeepOne
    <3> QED
      BY <1>1, <1>3, <2>2, <2>4, <3>2, <3>3 DEF Gives
  <2>5. CASE ~(InArea(r, g) /\ ~Covered(m, g))
    <3>1. \A i \in 1 .. n : ~(r.base + i - 1 = g /\ ~Covered(m, g))
      BY <2>5 DEF InArea
    <3>2. Keep(f, V) = <<>>
      <4> HIDE DEF f, S, V, n
      <4>1. f \in Seq(S) /\ \A i \in 1 .. Len(f) : f[i] \notin V
        BY <2>1, <2>3, <3>1
      <4> QED
        BY <4>1, KeepNone
    <3> QED
      BY <1>1, <1>3, <2>2, <2>5, <3>2 DEF Gives
  <2> QED
    BY <2>4, <2>5
<1> QED
  BY <1>2, <1>3

Apart(r, base, size) == r.base + r.size <= base \/ base + size <= r.base

\* What FirmwareAssumption says of the regions of a firmware.
LEMMA RegionsApart ==
    ASSUME NEW a \in Builds, NEW m, m = ParseMeta(a.firmware)
    PROVE  /\ \A i, j \in 1 .. Len(RegionsOf(m)) :
                /\ i # j /\ PageType(RegionsOf(m)[i].type) # None
                /\ PageType(RegionsOf(m)[j].type) # None
                => Apart(RegionsOf(m)[i], RegionsOf(m)[j].base, RegionsOf(m)[j].size)
           /\ \A r \in ToSet(RegionsOf(m)) :
                PageType(r.type) # None \/ r.type \in {"IgvmParamArea", "IgvmHobArea"} =>
                  r.base + r.size <= DataBase /\ Apart(r, OneM - LowPages, LowPages)
           /\ \A r, q \in ToSet(RegionsOf(m)) :
                r.type = "IgvmParamArea" /\ q.type = "IgvmHobArea" => Apart(r, q.base, q.size)
           /\ m # None => m.reset \in Nat \cup {None}
<1> DEFINE R == RegionsOf(m)
<1>1. R \in Seq(ToSet(R)) /\ (m # None => m.reset \in Nat \cup {None})
  BY FirmwareAssumption
<1>2. \A i, j \in DOMAIN R :
        /\ PageType(R[i].type) # None \/ R[i].type \in {"IgvmParamArea", "IgvmHobArea"} =>
             R[i].base + R[i].size <= DataBase /\ Apart(R[i], OneM - LowPages, LowPages)
        /\ i # j /\ PageType(R[i].type) # None /\ PageType(R[j].type) # None =>
             Apart(R[i], R[j].base, R[j].size)
        /\ R[i].type = "IgvmParamArea" /\ R[j].type = "IgvmHobArea" =>
             Apart(R[i], R[j].base, R[j].size)
  BY FirmwareAssumption DEF Apart
<1> HIDE DEF R
<1>3. ToSet(R) = {R[i] : i \in 1 .. Len(R)} /\ DOMAIN R = 1 .. Len(R)
  BY <1>1, ElementsOf
<1>4. /\ \A r \in ToSet(R) :
           PageType(r.type) # None \/ r.type \in {"IgvmParamArea", "IgvmHobArea"} =>
             r.base + r.size <= DataBase /\ Apart(r, OneM - LowPages, LowPages)
      /\ \A r, q \in ToSet(R) :
           r.type = "IgvmParamArea" /\ q.type = "IgvmHobArea" => Apart(r, q.base, q.size)
  BY <1>2, <1>3
<1> QED
  BY <1>1, <1>2, <1>3, <1>4 DEF R

(* At most one region gives a page. *)
LEMMA SnpPagesAt ==
    ASSUME NEW a \in Builds, NEW m, m = ParseMeta(a.firmware), NEW g \in Nat
    PROVE  /\ \A r \in ToSet(RegionsOf(m)) : Gives(m, r, g) => PagesAt(SnpPages(m), g) = <<SnpPage(r, g)>>
           /\ (\A r \in ToSet(RegionsOf(m)) : ~Gives(m, r, g)) => PagesAt(SnpPages(m), g) = <<>>
<1> DEFINE R == RegionsOf(m)
           N == Len(R)
           f == SnpParts(m)
<1>1. IsSeq(R) /\ \A r \in ToSet(R) : r.base \in Nat /\ r.size \in Nat \ {0}
  BY RegionFacts
<1>2. /\ SnpPages(m) = FlattenSeq(f) /\ Len(f) = N /\ N \in Nat /\ \E S : f \in Seq(Seq(S))
      /\ ToSet(R) = {R[i] : i \in 1 .. N}
  BY <1>1, SnpPagesIsSeq
<1>3. \A i \in 1 .. N : f[i] = RegionPages(m, R[i]) /\ R[i] \in ToSet(R)
  BY <1>2 DEF SnpParts
<1>4. PICK S : f \in Seq(Seq(S))
  BY <1>2
<1> DEFINE V == AtSet(S, g)
<1> HIDE DEF R, f, N
<1>5. \A i \in 1 .. N : Keep(f[i], V) = PagesAt(f[i], g)
  <2> SUFFICES ASSUME NEW i \in 1 .. N PROVE Keep(f[i], V) = PagesAt(f[i], g)
    OBVIOUS
  <2> DEFINE X == Seq(S)
             x == f[i]
  <2>1. f \in Seq(X) /\ i \in 1 .. Len(f)
    BY <1>2, <1>4
  <2> HIDE DEF X
  <2>2. x \in X
    BY <2>1
  <2> HIDE DEF x
  <2>3. x \in Seq(S)
    BY <2>2 DEF X
  <2> QED
    BY <2>3, PagesKeep DEF x
<1>6. \A i \in 1 .. N : Keep(f[i], V) = IF Gives(m, R[i], g) THEN <<SnpPage(R[i], g)>> ELSE <<>>
  BY <1>1, <1>3, <1>5, RegionPagesAt
<1>7. PagesAt(SnpPages(m), g) = Keep(FlattenSeq(f), V)
  <2>1. FlattenSeq(f) \in Seq(S)
    BY <1>4, FlatType
  <2> QED
    BY <1>2, <2>1, PagesKeep
<1>8. \A i, j \in 1 .. N : Gives(m, R[i], g) /\ Gives(m, R[j], g) => i = j
  <2> SUFFICES ASSUME NEW i \in 1 .. N, NEW j \in 1 .. N, Gives(m, R[i], g), Gives(m, R[j], g), i # j
               PROVE  FALSE
    OBVIOUS
  <2>1. Apart(R[i], R[j].base, R[j].size)
    BY RegionsApart DEF Gives, R, N
  <2>2. InArea(R[i], g) /\ InArea(R[j], g)
    BY DEF Gives
  <2>3. R[i].base \in Nat /\ R[i].size \in Nat /\ R[j].base \in Nat /\ R[j].size \in Nat
    BY <1>1, <1>3
  <2> QED
    BY <2>1, <2>2, <2>3 DEF Apart, InArea
<1> HIDE DEF V
<1>9. ASSUME NEW k \in 0 .. N, \A i \in 1 .. N : i # k => ~Gives(m, R[i], g)
      PROVE  PagesAt(SnpPages(m), g) = IF k = 0 THEN <<>> ELSE Keep(f[k], V)
  <2>1. k \in 0 .. Len(f) /\ \A i \in 1 .. Len(f) : i # k => Keep(f[i], V) = <<>>
    BY <1>2, <1>6, <1>9
  <2>2. Keep(FlattenSeq(f), V) = IF k = 0 THEN <<>> ELSE Keep(f[k], V)
    BY <1>4, <2>1, KeepFlat
  <2> QED
    BY <1>7, <2>2
<1>10. ASSUME NEW r \in ToSet(R), Gives(m, r, g) PROVE PagesAt(SnpPages(m), g) = <<SnpPage(r, g)>>
  <2>1. PICK k \in 1 .. N : r = R[k]
    BY <1>2
  <2>2. k \in 0 .. N /\ k # 0 /\ \A i \in 1 .. N : i # k => ~Gives(m, R[i], g)
    BY <1>2, <1>8, <1>10, <2>1
  <2>3. PagesAt(SnpPages(m), g) = Keep(f[k], V)
    BY <1>9, <2>2
  <2> QED
    BY <1>6, <1>10, <2>1, <2>3
<1>11. ASSUME \A r \in ToSet(R) : ~Gives(m, r, g) PROVE PagesAt(SnpPages(m), g) = <<>>
  <2>1. 0 \in 0 .. N /\ \A i \in 1 .. N : i # 0 => ~Gives(m, R[i], g)
    BY <1>2, <1>3, <1>11
  <2> QED
    BY <1>9, <2>1
<1> QED
  BY <1>10, <1>11 DEF R

LEMMA PagesNone ==
    ASSUME NEW S, NEW s \in Seq(S), \A i \in 1 .. Len(s) : s[i].kind # "page", NEW g
    PROVE  PagesAt(s, g) = <<>>
<1> DEFINE W == AtSet(S, g)
<1>1. \A i \in 1 .. Len(s) : s[i] \notin W
  BY DEF AtSet
<1>2. PagesAt(s, g) = Keep(s, W)
  BY PagesKeep
<1> HIDE DEF W
<1> QED
  BY <1>1, <1>2, KeepNone

\* The contexts of the boot vCPU and the others.
VpContexts(a, m) ==
    [vp \in 1 .. a.smp |-> Context({"snp"}, IF vp = 1 THEN BootRegs(a.mode) ELSE RealModeRegs(m.reset))]
NativeContext(a) ==
    IF "native" \in Mask(a) /\ a.mode = "flat32" THEN <<Context({"native"}, Flat32Regs)>> ELSE <<>>

LEMMA ContextParts ==
    ASSUME NEW a, a.smp \in Nat, NEW m, "snp" \in Mask(a)
    PROVE  /\ Contexts(a, m) = Cat(NativeContext(a), VpContexts(a, m))
           /\ \E S : NativeContext(a) \in Seq(S) /\ VpContexts(a, m) \in Seq(S)
           /\ Len(VpContexts(a, m)) = a.smp
           /\ \A i \in 1 .. Len(NativeContext(a)) :
                NativeContext(a)[i].kind = "context" /\ "snp" \notin NativeContext(a)[i].mask
           /\ \A i \in 1 .. a.smp :
                VpContexts(a, m)[i].kind = "context" /\ "snp" \in VpContexts(a, m)[i].mask
<1> DEFINE one == Context({"native"}, Flat32Regs)
           x == NativeContext(a)
           y == VpContexts(a, m)
<1>1. Contexts(a, m) = Cat(x, y)
  BY DEF Contexts, Cat, NativeContext, VpContexts, Mask
<1>2. IsSeq(x)
  <2> HIDE DEF one
  <2>1. <<one>> \in Seq({one})
    OBVIOUS
  <2> QED
    BY <2>1, SeqIsSeq, EmptyIsSeq DEF NativeContext, one
<1>3. IsSeq(y) /\ Len(y) = a.smp
  <2>1. y = [i \in 1 .. a.smp |-> y[i]]
    BY DEF VpContexts
  <2> HIDE DEF y
  <2> QED
    BY <2>1, FunctionIsSeq
<1>4. \A i \in 1 .. Len(x) : x[i].kind = "context" /\ "snp" \notin x[i].mask
  <2>1. one.kind = "context" /\ "snp" \notin one.mask
    BY DEF Context
  <2>2. x = <<one>> \/ x = <<>>
    BY DEF NativeContext
  <2> HIDE DEF x, one
  <2>3. CASE x = <<one>>
    <3>1. Len(x) = 1 /\ x[1] = one
      BY <2>3
    <3> QED
      BY <2>1, <3>1
  <2>4. CASE x = <<>>
    BY <2>4
  <2> QED
    BY <2>2, <2>3, <2>4
<1>5. \A i \in 1 .. a.smp : y[i].kind = "context" /\ "snp" \in y[i].mask
  BY DEF VpContexts, Context
<1> HIDE DEF x, y
<1>6. \E S : x \in Seq(S) /\ y \in Seq(S)
  BY <1>2, <1>3, OneSet
<1> QED
  BY <1>1, <1>3, <1>4, <1>5, <1>6 DEF x, y

LEMMA NoPagesInContexts ==
    ASSUME NEW a, a.smp \in Nat, NEW m, "snp" \in Mask(a), NEW g
    PROVE  PagesAt(Contexts(a, m), g) = <<>>
<1> DEFINE x == NativeContext(a)
           y == VpContexts(a, m)
<1>1. PICK S : x \in Seq(S) /\ y \in Seq(S)
  BY ContextParts
<1>2. /\ \A i \in 1 .. Len(x) : x[i].kind # "page"
      /\ \A i \in 1 .. Len(y) : y[i].kind # "page"
      /\ Contexts(a, m) = Cat(x, y)
  BY ContextParts
<1> HIDE DEF x, y
<1>3. PagesAt(x, g) = <<>> /\ PagesAt(y, g) = <<>>
  BY <1>1, <1>2, PagesNone
<1>4. IsSeq(x) /\ IsSeq(y)
  BY <1>1, SeqIsSeq
<1>5. PagesAt(Cat(x, y), g) = Cat(<<>>, <<>>)
  BY <1>3, <1>4, PagesCat
<1>6. Cat(<<>>, <<>>) = <<>>
  BY EmptyIsSeq, CatEmpty DEF IsSeq
<1> QED
  BY <1>2, <1>5, <1>6

\* The kinds of the directives about parameters.
LEMMA ParamParts ==
    ASSUME NEW m, IsSeq(RegionsOf(m))
    PROVE  \A i \in 1 .. Len(ParamList(m)) :
             ParamList(m)[i].kind \in {"IgvmParamMemoryMap", "IgvmParamVpCount"}
<1> DEFINE R == RegionsOf(m)
           S == ToSet(R)
           V == {r \in S : r.type \in {"IgvmParamMemoryMap", "IgvmParamVpCount"}}
           w == WantedParams(m)
<1>1. w = Keep(R, V) /\ R \in Seq(S)
  BY DEF WantedParams, Where, IsSeq
<1> HIDE DEF R, S
<1>2. w \in Seq(S \cap V)
  <2> HIDE DEF V
  <2> QED
    BY <1>1, KeepType
<1>3. \A i \in 1 .. Len(w) : w[i].type \in {"IgvmParamMemoryMap", "IgvmParamVpCount"}
  BY <1>2
<1>4. DOMAIN w = 1 .. Len(w) /\ Len(w) \in Nat
  BY <1>2
<1>5. ParamList(m) = [i \in 1 .. Len(w) |-> Parameter(w[i].type, w[i].base)]
  BY <1>4 DEF ParamList
<1> DEFINE p == ParamList(m)
<1>6. p = [i \in 1 .. Len(w) |-> p[i]] /\ \A i \in 1 .. Len(w) : p[i].kind = w[i].type
  BY <1>5 DEF Parameter
<1> HIDE DEF p, w
<1>7. Len(p) = Len(w)
  BY <1>4, <1>6, FunctionIsSeq
<1> QED
  BY <1>3, <1>6, <1>7 DEF p

LEMMA NoPagesInParameters ==
    ASSUME NEW m, IsSeq(RegionsOf(m)), NEW mask, NEW g
    PROVE  PagesAt(Parameters(m, mask), g) = <<>>
<1> DEFINE x == ParameterArea(OfType(m, "IgvmParamArea")[1].size)
           y == ParameterInsert(OfType(m, "IgvmParamArea")[1].base, mask)
           l == ParamList(m)
<1>1. /\ IsSeq(l)
      /\ Parameters(m, mask) = IF OfType(m, "IgvmParamArea") = <<>> THEN <<>> ELSE Cat(Cat(<<x>>, l), <<y>>)
  BY ParametersIsSeq
<1>2. \A i \in 1 .. Len(l) : l[i].kind # "page"
  BY ParamParts
<1>3. x.kind # "page" /\ y.kind # "page"
  BY DEF ParameterArea, ParameterInsert
<1> HIDE DEF x, y, l
<1>4. <<x>> \in Seq({x}) /\ <<y>> \in Seq({y}) /\ Len(<<x>>) = 1 /\ Len(<<y>>) = 1 /\ <<x>>[1] = x /\ <<y>>[1] = y
  OBVIOUS
<1> DEFINE xs == <<x>>
           ys == <<y>>
<1>5. xs \in Seq({x}) /\ ys \in Seq({y}) /\ Len(xs) = 1 /\ Len(ys) = 1 /\ xs[1] = x /\ ys[1] = y
  BY <1>4
<1> HIDE DEF xs, ys
<1>6. PagesAt(xs, g) = <<>> /\ PagesAt(ys, g) = <<>> /\ PagesAt(l, g) = <<>>
  <2>1. PagesAt(xs, g) = <<>>
    BY <1>3, <1>5, PagesNone
  <2>2. PagesAt(ys, g) = <<>>
    BY <1>3, <1>5, PagesNone
  <2>3. PagesAt(l, g) = <<>>
    BY <1>1, <1>2, PagesNone DEF IsSeq
  <2> QED
    BY <2>1, <2>2, <2>3
<1>7. IsSeq(xs) /\ IsSeq(ys)
  BY <1>5, SeqIsSeq
<1>8. Cat(<<>>, <<>>) = <<>>
  BY EmptyIsSeq, CatEmpty DEF IsSeq
<1>9. IsSeq(Cat(xs, l)) /\ PagesAt(Cat(xs, l), g) = <<>>
  BY <1>1, <1>6, <1>7, <1>8, CatIsSeq, PagesCat
<1>10. PagesAt(Cat(Cat(xs, l), ys), g) = <<>>
  BY <1>6, <1>7, <1>8, <1>9, PagesCat
<1>11. PagesAt(<<>>, g) = <<>>
  BY KeepEmpty DEF PagesAt, Where
<1> QED
  BY <1>1, <1>10, <1>11 DEF xs, ys

InLow(a, g) == a.mode = "real16" /\ g >= OneM - LowLen(a) /\ g < OneM
InHigh(a, g) == g >= FourG - Len(a.firmware.pages) /\ g < FourG
InVars(a, g) ==
    g >= FourG - Len(a.vars) - Len(a.firmware.pages) /\ g < FourG - Len(a.firmware.pages)

LEMMA FirmwarePagesAt ==
    ASSUME NEW a, IsSeq(a.firmware.pages), IsSeq(a.vars),
           Len(a.vars) + Len(a.firmware.pages) <= FourG, NEW g \in Nat
    PROVE  /\ PagesAt(LowPart(a), g) =
                IF InLow(a, g)
                THEN <<Page(g, Mask(a), "NORMAL", TRUE, LowCopy(a)[g - (OneM - LowLen(a)) + 1])>> ELSE <<>>
           /\ PagesAt(HighPart(a), g) =
                IF InHigh(a, g)
                THEN <<Page(g, Mask(a), "NORMAL", TRUE,
                            a.firmware.pages[g - (FourG - Len(a.firmware.pages)) + 1])>> ELSE <<>>
           /\ PagesAt(VarsPages(a), g) =
                IF InVars(a, g)
                THEN <<Page(g, Mask(a), "NORMAL", TRUE,
                            a.vars[g - (FourG - Len(a.vars) - Len(a.firmware.pages)) + 1])>> ELSE <<>>
<1> DEFINE n == Len(a.firmware.pages)
           v == Len(a.vars)
           low == LowLen(a)
           lb == OneM - low
           hb == FourG - n
           vb == FourG - v - n
<1>1. /\ IsSeq(LowCopy(a)) /\ Len(LowCopy(a)) = low /\ lb \in Nat /\ low \in Nat
      /\ hb \in Nat /\ vb \in Nat
  BY FirmwareIsSeq
<1>2. n \in Nat /\ v \in Nat /\ FourG \in Nat /\ OneM \in Nat
  BY LayoutAssumption DEF IsSeq
<1>3. lb + low = OneM /\ hb + n = FourG /\ vb + v = FourG - n
  <2> HIDE DEF n, v, low
  <2> QED
    BY <1>1, <1>2
<1>4. PagesAt(<<>>, g) = <<>>
  BY KeepEmpty DEF PagesAt, Where
<1> HIDE DEF lb, hb, vb
<1>5. PagesAt(DataPages(lb, LowCopy(a), Mask(a), TRUE), g) =
        IF g >= lb /\ g < lb + low THEN <<Page(g, Mask(a), "NORMAL", TRUE, LowCopy(a)[g - lb + 1])>> ELSE <<>>
  BY <1>1, PagesData
<1>6. PagesAt(DataPages(hb, a.firmware.pages, Mask(a), TRUE), g) =
        IF g >= hb /\ g < hb + n THEN <<Page(g, Mask(a), "NORMAL", TRUE, a.firmware.pages[g - hb + 1])>> ELSE <<>>
  BY <1>1, PagesData
<1>7. PagesAt(DataPages(vb, a.vars, Mask(a), TRUE), g) =
        IF g >= vb /\ g < vb + v THEN <<Page(g, Mask(a), "NORMAL", TRUE, a.vars[g - vb + 1])>> ELSE <<>>
  BY <1>1, PagesData
<1>8. /\ LowPart(a) = IF a.mode = "real16" THEN DataPages(lb, LowCopy(a), Mask(a), TRUE) ELSE <<>>
      /\ HighPart(a) = DataPages(hb, a.firmware.pages, Mask(a), TRUE)
      /\ VarsPages(a) = DataPages(vb, a.vars, Mask(a), TRUE)
  BY DEF LowPart, HighPart, VarsPages, lb, hb, vb, Mask
<1>9. PagesAt(LowPart(a), g) =
        IF InLow(a, g) THEN <<Page(g, Mask(a), "NORMAL", TRUE, LowCopy(a)[g - lb + 1])>> ELSE <<>>
  BY <1>3, <1>4, <1>5, <1>8 DEF InLow, lb
<1>10. PagesAt(HighPart(a), g) =
        IF InHigh(a, g) THEN <<Page(g, Mask(a), "NORMAL", TRUE, a.firmware.pages[g - hb + 1])>> ELSE <<>>
  BY <1>3, <1>6, <1>8 DEF InHigh, hb
<1>11. PagesAt(VarsPages(a), g) =
        IF InVars(a, g) THEN <<Page(g, Mask(a), "NORMAL", TRUE, a.vars[g - vb + 1])>> ELSE <<>>
  BY <1>3, <1>7, <1>8 DEF InVars, vb
<1> QED
  BY <1>9, <1>10, <1>11 DEF lb, hb, vb

PageShape(d, g) ==
    d.kind = "page" /\ d.gpa = g /\ "snp" \in d.mask /\ d.type \in {"NORMAL", "SECRETS", "CPUID"}
AtMostOne(s, g) == s = <<>> \/ \E d : s = <<d>> /\ PageShape(d, g)

\* Where the low copy of the firmware may be.
LowRange(a, g) == a.mode = "real16" /\ g \in OneM - LowPages .. OneM - 1

(* What is at an address before blobs are placed. *)
LEMMA PlainAt ==
    ASSUME NEW a, NEW m, NEW bs, Ready(a, m, bs), "snp" \in Mask(a), NEW g \in Nat
    PROVE  /\ \A r \in ToSet(RegionsOf(m)) : Gives(m, r, g) => PagesAt(Plain(a, m), g) = <<SnpPage(r, g)>>
           /\ \A i \in 1 .. Len(a.firmware.pages) : g = FourG - Len(a.firmware.pages) + i - 1 =>
                PagesAt(Plain(a, m), g) = <<Page(g, Mask(a), "NORMAL", TRUE, a.firmware.pages[i])>>
           /\ AtMostOne(PagesAt(Plain(a, m), g), g)
           /\ PagesAt(Plain(a, m), g) # <<>> =>
                \/ \E r \in ToSet(RegionsOf(m)) : Gives(m, r, g)
                \/ g \in DataBase .. FourG - 1
                \/ LowRange(a, g)
<1> DEFINE fw == a.firmware.pages
           n == Len(fw)
           v == Len(a.vars)
           low == LowLen(a)
           s == PagesAt(SnpPages(m), g)
           x == PagesAt(LowPart(a), g)
           y == PagesAt(HighPart(a), g)
           z == PagesAt(VarsPages(a), g)
           px == Page(g, Mask(a), "NORMAL", TRUE, LowCopy(a)[g - (OneM - LowLen(a)) + 1])
           py == Page(g, Mask(a), "NORMAL", TRUE, fw[g - (FourG - n) + 1])
           pz == Page(g, Mask(a), "NORMAL", TRUE, a.vars[g - (FourG - v - n) + 1])
           all == PagesAt(Plain(a, m), g)
<1>1. /\ a \in Builds /\ m = ParseMeta(a.firmware) /\ a.smp \in Nat /\ n \in Nat /\ v \in Nat
      /\ IsSeq(a.vars) /\ IsSeq(fw) /\ v + n <= FourG - DataBase
  BY ReadyFacts
<1>2. {FourG, OneM, DataBase, LowPages} \subseteq Nat /\ LowPages <= OneM /\ OneM <= DataBase /\ DataBase <= FourG
  BY LayoutAssumption
<1>3. v + n <= FourG
  <2> HIDE DEF v, n
  <2> QED
    BY <1>1, <1>2
<1>4. /\ x = IF InLow(a, g) THEN <<px>> ELSE <<>>
      /\ y = IF InHigh(a, g) THEN <<py>> ELSE <<>>
      /\ z = IF InVars(a, g) THEN <<pz>> ELSE <<>>
  BY <1>1, <1>3, FirmwarePagesAt
<1>5. low \in Nat /\ low <= LowPages /\ FirmwarePart(a) = Cat(Cat(LowPart(a), HighPart(a)), VarsPages(a))
  BY <1>1, <1>3, FirmwareIsSeq
<1>6. IsSeq(RegionsOf(m)) /\ \A r \in ToSet(RegionsOf(m)) : r.base \in Nat /\ r.size \in Nat \ {0}
  BY <1>1, RegionFacts
<1>7. /\ IsSeq(Contexts(a, m)) /\ IsSeq(SnpPart(a, m)) /\ IsSeq(Parameters(m, Mask(a))) /\ IsSeq(FirmwarePart(a))
      /\ IsSeq(LowPart(a)) /\ IsSeq(HighPart(a)) /\ IsSeq(VarsPages(a))
  BY PlainIsSeq
<1>8. all = Cat(s, Cat(Cat(x, y), z))
  <2> DEFINE c == Contexts(a, m)
             p == SnpPart(a, m)
             q == Parameters(m, Mask(a))
             f == FirmwarePart(a)
             l == LowPart(a)
             h == HighPart(a)
             w == VarsPages(a)
  <2>1. PagesAt(c, g) = <<>> /\ PagesAt(q, g) = <<>>
    BY <1>1, <1>6, NoPagesInContexts, NoPagesInParameters
  <2>2. PagesAt(p, g) = s /\ IsSeq(s)
    BY <1>7, PagesIsSeq DEF SnpPart
  <2>3. Plain(a, m) = Cat(Cat(Cat(c, p), q), f) /\ f = Cat(Cat(l, h), w)
    BY <1>5 DEF Plain
  <2> HIDE DEF s, x, y, z, c, p, q, f, l, h, w
  <2>4. IsSeq(c) /\ IsSeq(p) /\ IsSeq(q) /\ IsSeq(f) /\ IsSeq(l) /\ IsSeq(h) /\ IsSeq(w)
    BY <1>7 DEF c, p, q, f, l, h, w
  <2>5. IsSeq(Cat(l, h)) /\ PagesAt(Cat(l, h), g) = Cat(x, y)
    BY <2>4, CatIsSeq, PagesCat DEF x, y, l, h
  <2>6. PagesAt(f, g) = Cat(Cat(x, y), z)
    BY <2>3, <2>4, <2>5, PagesCat DEF z, w
  <2>7. Cat(<<>>, s) = s /\ Cat(s, <<>>) = s
    BY <2>2, CatEmpty DEF IsSeq
  <2>8. IsSeq(Cat(c, p)) /\ PagesAt(Cat(c, p), g) = s
    BY <2>1, <2>2, <2>4, <2>7, CatIsSeq, PagesCat
  <2>9. IsSeq(Cat(Cat(c, p), q)) /\ PagesAt(Cat(Cat(c, p), q), g) = s
    BY <2>1, <2>4, <2>7, <2>8, CatIsSeq, PagesCat
  <2>10. PagesAt(Cat(Cat(Cat(c, p), q), f), g) = Cat(s, PagesAt(f, g))
    BY <2>4, <2>9, PagesCat
  <2> QED
    BY <2>3, <2>6, <2>10
<1>9. /\ \A r \in ToSet(RegionsOf(m)) : Gives(m, r, g) => s = <<SnpPage(r, g)>>
      /\ (\A r \in ToSet(RegionsOf(m)) : ~Gives(m, r, g)) => s = <<>>
  BY <1>1, SnpPagesAt
<1>10. \A r \in ToSet(RegionsOf(m)) : Gives(m, r, g) =>
         g < DataBase /\ (g < OneM - LowPages \/ g >= OneM)
  <2> SUFFICES ASSUME NEW r \in ToSet(RegionsOf(m)), Gives(m, r, g)
               PROVE  g < DataBase /\ (g < OneM - LowPages \/ g >= OneM)
    OBVIOUS
  <2>1. PageType(r.type) # None /\ InArea(r, g)
    BY DEF Gives
  <2>2. r.base + r.size <= DataBase /\ Apart(r, OneM - LowPages, LowPages)
    BY <1>1, <2>1, RegionsApart
  <2>3. r.base \in Nat /\ r.size \in Nat
    BY <1>6
  <2> QED
    BY <1>2, <2>1, <2>2, <2>3 DEF Apart, InArea
<1>11. /\ InLow(a, g) => LowRange(a, g) /\ g < DataBase
       /\ InHigh(a, g) => g \in DataBase .. FourG - 1 /\ ~InLow(a, g) /\ ~InVars(a, g)
       /\ InVars(a, g) => g \in DataBase .. FourG - 1 /\ ~InLow(a, g)
       /\ LowRange(a, g) => g >= OneM - LowPages /\ g < OneM
       /\ \A i \in 1 .. n : g = FourG - n + i - 1 => InHigh(a, g) /\ g - (FourG - n) + 1 = i
  <2> HIDE DEF n, v, low, fw
  <2>1. InLow(a, g) <=> a.mode = "real16" /\ g >= OneM - low /\ g < OneM
    BY DEF InLow, low
  <2>2. InHigh(a, g) <=> g >= FourG - n /\ g < FourG
    BY DEF InHigh, n, fw
  <2>3. InVars(a, g) <=> g >= FourG - v - n /\ g < FourG - n
    BY DEF InVars, n, v, fw
  <2>4. LowRange(a, g) <=> a.mode = "real16" /\ g >= OneM - LowPages /\ g < OneM
    BY <1>2 DEF LowRange
  <2> QED
    BY <1>1, <1>2, <1>5, <2>1, <2>2, <2>3, <2>4
<1>12. \A e : Cat(<<>>, <<e>>) = <<e>> /\ Cat(<<e>>, <<>>) = <<e>>
  <2> SUFFICES ASSUME NEW e PROVE Cat(<<>>, <<e>>) = <<e>> /\ Cat(<<e>>, <<>>) = <<e>>
    OBVIOUS
  <2>1. <<e>> \in Seq({e})
    OBVIOUS
  <2> QED
    BY <2>1, CatEmpty
<1>13. Cat(<<>>, <<>>) = <<>>
  BY EmptyIsSeq, CatEmpty DEF IsSeq
<1>14. PageShape(px, g) /\ PageShape(py, g) /\ PageShape(pz, g)
  BY DEF PageShape, Page
<1>15. \A r \in ToSet(RegionsOf(m)) : Gives(m, r, g) => PageShape(SnpPage(r, g), g)
  BY NoneAssumption DEF PageShape, SnpPage, Page, Gives, PageType
<1>16. \A i \in 1 .. n : g = FourG - n + i - 1 => py = Page(g, Mask(a), "NORMAL", TRUE, fw[i])
  BY <1>11
<1> HIDE DEF s, x, y, z, px, py, pz, all, n, v, low, fw
<1>17. CASE \E r \in ToSet(RegionsOf(m)) : Gives(m, r, g)
  <2>1. PICK r \in ToSet(RegionsOf(m)) : Gives(m, r, g)
    BY <1>17
  <2>2. ~LowRange(a, g) /\ g \notin DataBase .. FourG - 1
    BY <1>2, <1>10, <1>11, <2>1
  <2>3. x = <<>> /\ y = <<>> /\ z = <<>>
    BY <1>4, <1>11, <2>2
  <2>4. all = Cat(s, <<>>)
    BY <1>8, <1>13, <2>3
  <2>5. \A q \in ToSet(RegionsOf(m)) : Gives(m, q, g) => all = <<SnpPage(q, g)>>
    BY <1>9, <1>12, <2>4
  <2>6. AtMostOne(all, g)
    BY <1>15, <2>1, <2>5 DEF AtMostOne
  <2>7. \A i \in 1 .. n : g # FourG - n + i - 1
    BY <1>11, <2>2
  <2> QED
    BY <1>17, <2>5, <2>6, <2>7 DEF all, n, fw
<1>18. CASE ~\E r \in ToSet(RegionsOf(m)) : Gives(m, r, g)
  <2>1. s = <<>>
    BY <1>9, <1>18
  <2>2. CASE InLow(a, g)
    <3>1. x = <<px>> /\ y = <<>> /\ z = <<>>
      BY <1>4, <1>11, <2>2
    <3>2. all = <<px>>
      BY <1>8, <1>12, <2>1, <3>1
    <3>3. AtMostOne(all, g)
      BY <1>14, <3>2 DEF AtMostOne
    <3>4. \A i \in 1 .. n : g # FourG - n + i - 1
      BY <1>11, <2>2
    <3> QED
      BY <1>11, <1>18, <2>2, <3>3, <3>4 DEF all, n, fw
  <2>3. CASE InHigh(a, g)
    <3>1. x = <<>> /\ y = <<py>> /\ z = <<>>
      BY <1>4, <1>11, <2>3
    <3>2. all = <<py>>
      BY <1>8, <1>12, <2>1, <3>1
    <3>3. AtMostOne(all, g)
      BY <1>14, <3>2 DEF AtMostOne
    <3> QED
      BY <1>11, <1>16, <1>18, <2>3, <3>2, <3>3 DEF all, n, fw
  <2>4. CASE InVars(a, g)
    <3>1. x = <<>> /\ y = <<>> /\ z = <<pz>>
      BY <1>4, <1>11, <2>4
    <3>2. all = <<pz>>
      BY <1>8, <1>12, <1>13, <2>1, <3>1
    <3>3. AtMostOne(all, g)
      BY <1>14, <3>2 DEF AtMostOne
    <3>4. \A i \in 1 .. n : g # FourG - n + i - 1
      BY <1>11, <2>4
    <3> QED
      BY <1>11, <1>18, <2>4, <3>3, <3>4 DEF all, n, fw
  <2>5. CASE ~InLow(a, g) /\ ~InHigh(a, g) /\ ~InVars(a, g)
    <3>1. all = <<>>
      BY <1>4, <1>8, <1>13, <2>1, <2>5
    <3>2. AtMostOne(all, g)
      BY <3>1 DEF AtMostOne
    <3>3. \A i \in 1 .. n : g # FourG - n + i - 1
      BY <1>11, <2>5
    <3> QED
      BY <1>18, <3>1, <3>2, <3>3 DEF all, n, fw
  <2> QED
    BY <2>2, <2>3, <2>4, <2>5
<1> QED
  BY <1>17, <1>18

LEMMA RegionsLow ==
    ASSUME NEW a \in Builds, NEW m, m = ParseMeta(a.firmware), NEW r \in ToSet(RegionsOf(m)), NEW g \in Nat,
           InArea(r, g), PageType(r.type) # None \/ r.type \in {"IgvmParamArea", "IgvmHobArea"}
    PROVE  g < DataBase /\ ~LowRange(a, g)
<1>1. r.base + r.size <= DataBase /\ Apart(r, OneM - LowPages, LowPages)
  BY RegionsApart
<1>2. r.base \in Nat /\ r.size \in Nat
  BY RegionFacts
<1>3. {OneM, DataBase, LowPages} \subseteq Nat /\ LowPages <= OneM
  BY LayoutAssumption
<1> QED
  BY <1>1, <1>2, <1>3 DEF Apart, InArea, LowRange

FirmwareIsAt(a, ds, g) ==
    \A i \in 1 .. Len(a.firmware.pages) : g = FourG - Len(a.firmware.pages) + i - 1 =>
       PagesAt(ds, g) = <<Page(g, Mask(a), "NORMAL", TRUE, a.firmware.pages[i])>>

(* What is at an address of the file. *)
LEMMA FileAt ==
    ASSUME NEW a, NEW m, NEW bs, Ready(a, m, bs), "snp" \in Mask(a), NEW g \in 0 .. FourG - 1
    PROVE  /\ AtMostOne(PagesAt(SortPages(Placed(a, m, bs)), g), g)
           /\ \A r \in ToSet(RegionsOf(m)) :
                Gives(m, r, g) /\ (DOMAIN bs # {} => ~InArea(HobArea(m), g)) =>
                  PagesAt(SortPages(Placed(a, m, bs)), g) = <<SnpPage(r, g)>>
           /\ FirmwareIsAt(a, SortPages(Placed(a, m, bs)), g)
           /\ PagesAt(SortPages(Placed(a, m, bs)), g) # <<>> =>
                \/ \E r \in ToSet(RegionsOf(m)) : Gives(m, r, g)
                \/ g \in DataBase .. FourG - 1
                \/ LowRange(a, g)
                \/ DOMAIN bs # {} /\ InArea(HobArea(m), g)
           /\ Covered(m, g) => PagesAt(SortPages(Placed(a, m, bs)), g) = <<>>
<1> DEFINE fw == a.firmware.pages
           n == Len(fw)
           v == Len(a.vars)
           e == BlobAddr(bs, Len(Given(bs)) + 1)
           F == PagesAt(SortPages(Placed(a, m, bs)), g)
           P == PagesAt(Plain(a, m), g)
           R == ToSet(RegionsOf(m))
           hob == DOMAIN bs # {} /\ InArea(HobArea(m), g)
<1>1. {FourG, DataBase} \subseteq Nat /\ DataBase <= FourG /\ g \in Nat
  BY LayoutAssumption
<1>2. /\ \A r \in R : Gives(m, r, g) => P = <<SnpPage(r, g)>>
      /\ \A i \in 1 .. n : g = FourG - n + i - 1 => P = <<Page(g, Mask(a), "NORMAL", TRUE, fw[i])>>
      /\ AtMostOne(P, g)
      /\ P # <<>> => \/ \E r \in R : Gives(m, r, g)
                     \/ g \in DataBase .. FourG - 1
                     \/ LowRange(a, g)
  BY <1>1, PlainAt
<1>3. /\ a \in Builds /\ m = ParseMeta(a.firmware) /\ n \in Nat /\ v \in Nat /\ GoodBlobs(bs)
      /\ e + v + n <= FourG /\ e \in Nat /\ e >= DataBase
  BY ReadyFacts
<1>4. F = PagesAt(Placed(a, m, bs), g)
  BY FileRight
<1>5. \A r \in R : Gives(m, r, g) => g < DataBase /\ ~LowRange(a, g)
  BY <1>1, <1>3, RegionsLow DEF Gives
<1>6. \A i \in 1 .. n : g = FourG - n + i - 1 => g >= e /\ g >= DataBase
  <2> HIDE DEF n, v, e
  <2> QED
    BY <1>1, <1>3
<1> HIDE DEF n, v, e, F, P, R
<1>7. ASSUME Covered(m, g),
             \/ \E r \in R : Gives(m, r, g)
             \/ g \in DataBase .. FourG - 1
             \/ LowRange(a, g)
             \/ hob
      PROVE  FALSE
  <2>1. PICK p \in ToSet(OfType(m, "IgvmParamArea")) : InArea(p, g)
    BY <1>7 DEF Covered
  <2>2. IsSeq(RegionsOf(m))
    BY <1>3, RegionFacts
  <2>3. p \in R /\ p.type = "IgvmParamArea"
    BY <2>1, <2>2, OfTypeFacts DEF R
  <2>4. g < DataBase /\ ~LowRange(a, g)
    BY <1>1, <1>3, <2>1, <2>3, RegionsLow DEF R
  <2>5. ~\E r \in R : Gives(m, r, g)
    BY <1>7 DEF Gives
  <2>6. hob
    BY <1>1, <1>7, <2>4, <2>5
  <2>7. HobArea(m) \in ToSet(OfType(m, "IgvmHobArea"))
    BY <2>6, ReadyFacts
  <2>8. HobArea(m) \in R /\ HobArea(m).type = "IgvmHobArea"
    BY <2>2, <2>7, OfTypeFacts DEF R
  <2>9. Apart(p, HobArea(m).base, HobArea(m).size)
    BY <1>3, <2>3, <2>8, RegionsApart DEF R
  <2>10. p.base \in Nat /\ p.size \in Nat /\ HobArea(m).base \in Nat /\ HobArea(m).size \in Nat
    BY <1>3, <2>3, <2>8, RegionFacts DEF R
  <2> QED
    BY <1>1, <2>1, <2>6, <2>9, <2>10 DEF Apart, InArea
<1>8. CASE DOMAIN bs = {}
  <2>1. F = P
    BY <1>4, <1>8 DEF Placed, P
  <2> QED
    BY <1>2, <1>7, <1>8, <2>1 DEF F, R, n, FirmwareIsAt
<1>9. CASE DOMAIN bs # {}
  <2>1. HobsRight(Placed(a, m, bs), Plain(a, m), bs, Mask(a), HobArea(m))
    BY <1>9, FileRight
  <2>2. CASE \E h \in ToSet(HobList(bs)) : InHob(h, g)
    <3>1. PICK h \in ToSet(HobList(bs)) : InHob(h, g)
      BY <2>2
    <3> DEFINE p == HobPage(bs, Mask(a), h, h.blob \notin Unmeasured, g)
    <3>2. F = <<p>>
      BY <1>1, <1>4, <2>1, <3>1 DEF HobsRight
    <3>3. /\ h.addr \in Nat /\ h.length \in Nat /\ h.addr >= DataBase /\ h.addr + h.length <= e
      BY <1>3, HobFacts DEF GoodHob, e
    <3>4. g >= DataBase /\ g < e
      BY <1>1, <1>3, <3>1, <3>3 DEF InHob
    <3>5. PageShape(p, g)
      BY DEF PageShape, HobPage, Page
    <3> HIDE DEF p
    <3>6. AtMostOne(F, g)
      BY <3>2, <3>5 DEF AtMostOne
    <3>7. g \in DataBase .. FourG - 1
      BY <1>1, <3>4
    <3>8. ~\E r \in R : Gives(m, r, g)
      BY <1>1, <1>5, <3>4
    <3>9. \A i \in 1 .. n : g # FourG - n + i - 1
      BY <1>1, <1>3, <1>6, <3>4
    <3> QED
      BY <1>7, <3>6, <3>7, <3>8, <3>9 DEF F, R, n, FirmwareIsAt
  <2>3. CASE \A h \in ToSet(HobList(bs)) : ~InHob(h, g)
    <3> DEFINE p == Page(g, Mask(a), "NORMAL", TRUE, HobList(bs))
    <3>1. F = IF g = HobArea(m).base THEN <<p>> ELSE IF InArea(HobArea(m), g) THEN <<>> ELSE P
      BY <1>1, <1>4, <2>1, <2>3 DEF HobsRight, P
    <3>2. PageShape(p, g)
      BY DEF PageShape, Page
    <3>3. HobArea(m).base \in Nat /\ HobArea(m).size \in Nat \ {0} /\ HobArea(m).base + HobArea(m).size <= DataBase
      BY <1>9, ReadyFacts
    <3>4. g = HobArea(m).base => InArea(HobArea(m), g)
      BY <3>3 DEF InArea
    <3>5. InArea(HobArea(m), g) => g < DataBase
      BY <1>1, <3>3 DEF InArea
    <3> HIDE DEF p
    <3>6. CASE InArea(HobArea(m), g)
      <4>1. F = <<p>> \/ F = <<>>
        BY <3>1, <3>6
      <4>2. AtMostOne(F, g)
        BY <3>2, <4>1 DEF AtMostOne
      <4>3. \A i \in 1 .. n : g # FourG - n + i - 1
        BY <1>1, <1>6, <3>5, <3>6
      <4> QED
        BY <1>7, <1>9, <3>6, <4>2, <4>3 DEF F, R, n, FirmwareIsAt
    <3>7. CASE ~InArea(HobArea(m), g)
      <4>1. F = P
        BY <3>1, <3>4, <3>7
      <4> QED
        BY <1>2, <1>7, <3>7, <4>1 DEF F, R, n, FirmwareIsAt
    <3> QED
      BY <3>6, <3>7
  <2> QED
    BY <2>2, <2>3
<1> QED
  BY <1>8, <1>9

-----------------------------------------------------------------------------
(* The directives of the file that are no pages. *)

InsertSet(S) == {d \in S : d.kind = "insert"}
AreaSet(S) == {d \in S : d.kind = "area"}
SnpContextSet(S) == {d \in S : d.kind = "context" /\ "snp" \in d.mask}

LEMMA OnlyOthers ==
    ASSUME NEW S, NEW s \in Seq(S), \A i \in 1 .. Len(s) : s[i].kind # "page"
    PROVE  Others(s) = s
<1>1. Others(s) = Keep(s, OtherSet(S))
  BY OthersKeep
<1>2. \A i \in 1 .. Len(s) : s[i] \in OtherSet(S)
  BY DEF OtherSet
<1>3. Keep(s, OtherSet(S)) = s
  BY <1>2, KeepAll
<1> QED
  BY <1>1, <1>3

LEMMA RegionOthers ==
    ASSUME NEW m, NEW r, r.size \in Nat
    PROVE  Others(RegionPages(m, r)) = <<>>
<1> DEFINE n == r.size
           P(i) == Page(r.base + i - 1, {"snp"}, PageType(r.type), TRUE, None)
           S == {P(i) : i \in 1 .. n}
           f == AreaPages(r)
           U == Uncovered(m, f)
           k == Keep(f, U)
<1>1. RegionPages(m, r) = IF PageType(r.type) = None THEN <<>> ELSE k
  BY RegionPagesIsSeq
<1>2. \A d \in S : d.kind = "page"
  BY DEF Page
<1>3. f \in Seq(S)
  <2> HIDE DEF P
  <2>1. f \in [1 .. n -> S]
    BY DEF AreaPages, P
  <2> HIDE DEF S, f
  <2> QED
    BY <2>1, FunIsSeq
<1> HIDE DEF S, f, U, P
<1>4. k \in Seq(S)
  BY <1>3, KeepType
<1> HIDE DEF k
<1>5. \A i \in 1 .. Len(k) : k[i].kind = "page"
  BY <1>2, <1>4
<1>6. Others(k) = <<>>
  BY <1>4, <1>5, OthersNone
<1>7. Others(<<>>) = <<>>
  <2>1. <<>> \in Seq(S) /\ \A i \in 1 .. Len(<<>>) : <<>>[i].kind = "page"
    OBVIOUS
  <2> QED
    BY <2>1, OthersNone
<1> QED
  BY <1>1, <1>6, <1>7

LEMMA SnpOthers ==
    ASSUME NEW m, IsSeq(RegionsOf(m)), \A r \in ToSet(RegionsOf(m)) : r.size \in Nat
    PROVE  Others(SnpPages(m)) = <<>>
<1> DEFINE R == RegionsOf(m)
           f == SnpParts(m)
           N == Len(R)
<1>1. /\ SnpPages(m) = FlattenSeq(f) /\ Len(f) = N /\ N \in Nat
      /\ ToSet(R) = {R[i] : i \in 1 .. N}
  BY SnpPagesIsSeq
<1>2. PICK S : f \in Seq(Seq(S))
  BY SnpPagesIsSeq
<1> DEFINE W == OtherSet(S)
<1>3. ASSUME NEW i \in 1 .. Len(f) PROVE Keep(f[i], W) = <<>>
  <2>1. f[i] = RegionPages(m, R[i]) /\ R[i].size \in Nat
    BY <1>1 DEF SnpParts
  <2>2. f[i] \in Seq(S)
    <3> DEFINE U == Seq(S)
    <3> HIDE DEF U, f
    <3>1. f \in Seq(U)
      BY <1>2 DEF U
    <3>2. f[i] \in U
      BY <3>1
    <3> QED
      BY <3>2 DEF U
  <2>3. Others(f[i]) = <<>>
    BY <2>1, RegionOthers
  <2> HIDE DEF f
  <2>4. Others(f[i]) = Keep(f[i], W)
    BY <2>2, OthersKeep
  <2> QED
    BY <2>3, <2>4
<1> HIDE DEF f, W
<1>4. 0 \in 0 .. Len(f)
  BY <1>1
<1>5. \A i \in 1 .. Len(f) : i # 0 => Keep(f[i], W) = <<>>
  BY <1>3
<1>6. Keep(FlattenSeq(f), W) = IF 0 = 0 THEN <<>> ELSE Keep(f[0], W)
  BY <1>2, <1>4, <1>5, KeepFlat
<1>7. FlattenSeq(f) \in Seq(S)
  BY <1>2, FlatType
<1>8. Others(FlattenSeq(f)) = Keep(FlattenSeq(f), W)
  BY <1>7, OthersKeep DEF W
<1> QED
  BY <1>1, <1>6, <1>8

LEMMA CatIdentity ==
    ASSUME NEW s, IsSeq(s)
    PROVE  Cat(s, <<>>) = s /\ Cat(<<>>, s) = s
BY CatEmpty DEF IsSeq

LEMMA SeqLarger ==
    ASSUME NEW S, NEW T, S \subseteq T, NEW s \in Seq(S)
    PROVE  s \in Seq(T)
<1>1. s \in [1 .. Len(s) -> T] /\ Len(s) \in Nat
  OBVIOUS
<1> QED
  BY <1>1, FunIsSeq

LEMMA NoOthersIn ==
    ASSUME NEW a, NEW m, NEW bs, Ready(a, m, bs)
    PROVE  Others(SnpPart(a, m)) = <<>> /\ Others(FirmwarePart(a)) = <<>>
<1> DEFINE v == Len(a.vars)
           n == Len(a.firmware.pages)
<1>1. /\ a \in Builds /\ m = ParseMeta(a.firmware)
      /\ IsSeq(a.vars) /\ IsSeq(a.firmware.pages)
  BY ReadyFacts
<1>2. v + n <= FourG
  <2>1. v + n <= FourG - DataBase /\ v \in Nat /\ n \in Nat /\ FourG \in Nat /\ DataBase \in Nat
    BY ReadyFacts, LayoutAssumption
  <2> HIDE DEF v, n
  <2> QED
    BY <2>1
<1>3. IsSeq(RegionsOf(m)) /\ \A r \in ToSet(RegionsOf(m)) : r.size \in Nat
  BY <1>1, RegionFacts
<1>4. Others(<<>>) = <<>>
  BY KeepEmpty DEF Others, Where
<1>5. Others(SnpPart(a, m)) = <<>>
  BY <1>3, <1>4, SnpOthers DEF SnpPart
<1> DEFINE x == LowPart(a)
           y == HighPart(a)
           z == VarsPages(a)
<1>6. /\ FirmwarePart(a) = Cat(Cat(x, y), z) /\ IsSeq(x) /\ IsSeq(y) /\ IsSeq(z)
      /\ Others(x) = <<>> /\ Others(y) = <<>> /\ Others(z) = <<>>
  BY <1>1, <1>2, FirmwareIsSeq
<1> HIDE DEF x, y, z
<1>7. Cat(<<>>, <<>>) = <<>>
  BY EmptyIsSeq, CatIdentity
<1>8. IsSeq(Cat(x, y)) /\ Others(Cat(x, y)) = <<>>
  BY <1>6, <1>7, CatIsSeq, OthersCat
<1>9. Others(Cat(Cat(x, y), z)) = <<>>
  BY <1>6, <1>7, <1>8, OthersCat
<1> QED
  BY <1>5, <1>6, <1>9

LEMMA ContextOthers ==
    ASSUME NEW a, a.smp \in Nat, NEW m, "snp" \in Mask(a)
    PROVE  Others(Contexts(a, m)) = Contexts(a, m)
<1> DEFINE x == NativeContext(a)
           y == VpContexts(a, m)
<1>1. PICK S : x \in Seq(S) /\ y \in Seq(S)
  BY ContextParts
<1>2. /\ \A i \in 1 .. Len(x) : x[i].kind # "page"
      /\ \A i \in 1 .. Len(y) : y[i].kind # "page"
      /\ Contexts(a, m) = Cat(x, y)
  BY ContextParts
<1> HIDE DEF x, y
<1>3. Others(x) = x /\ Others(y) = y
  BY <1>1, <1>2, OnlyOthers
<1>4. IsSeq(x) /\ IsSeq(y)
  BY <1>1, SeqIsSeq
<1>5. Others(Cat(x, y)) = Cat(x, y)
  BY <1>3, <1>4, OthersCat
<1> QED
  BY <1>2, <1>5

LEMMA ParameterOthers ==
    ASSUME NEW m, IsSeq(RegionsOf(m)), NEW mask
    PROVE  Others(Parameters(m, mask)) = Parameters(m, mask)
<1> DEFINE x == ParameterArea(OfType(m, "IgvmParamArea")[1].size)
           y == ParameterInsert(OfType(m, "IgvmParamArea")[1].base, mask)
           l == ParamList(m)
<1>1. /\ IsSeq(l)
      /\ Parameters(m, mask) = IF OfType(m, "IgvmParamArea") = <<>> THEN <<>> ELSE Cat(Cat(<<x>>, l), <<y>>)
  BY ParametersIsSeq
<1>2. \A i \in 1 .. Len(l) : l[i].kind # "page"
  BY ParamParts
<1>3. x.kind # "page" /\ y.kind # "page"
  BY DEF ParameterArea, ParameterInsert
<1> HIDE DEF x, y, l
<1> DEFINE xs == <<x>>
           ys == <<y>>
<1>5. xs \in Seq({x}) /\ ys \in Seq({y}) /\ Len(xs) = 1 /\ Len(ys) = 1 /\ xs[1] = x /\ ys[1] = y
  OBVIOUS
<1> HIDE DEF xs, ys
<1>6. Others(xs) = xs
  BY <1>3, <1>5, OnlyOthers
<1>7. Others(ys) = ys
  BY <1>3, <1>5, OnlyOthers
<1>8. Others(l) = l
  BY <1>1, <1>2, OnlyOthers DEF IsSeq
<1>9. IsSeq(xs) /\ IsSeq(ys)
  BY <1>5, SeqIsSeq
<1>10. IsSeq(Cat(xs, l)) /\ Others(Cat(xs, l)) = Cat(xs, l)
  BY <1>1, <1>6, <1>8, <1>9, CatIsSeq, OthersCat
<1>11. Others(Cat(Cat(xs, l), ys)) = Cat(Cat(xs, l), ys)
  BY <1>7, <1>9, <1>10, OthersCat
<1>12. Others(<<>>) = <<>>
  BY KeepEmpty DEF Others, Where
<1> QED
  BY <1>1, <1>11, <1>12 DEF xs, ys

LEMMA PlainOthers ==
    ASSUME NEW a, NEW m, NEW bs, Ready(a, m, bs), "snp" \in Mask(a)
    PROVE  Others(Plain(a, m)) = Cat(Contexts(a, m), Parameters(m, Mask(a)))
<1> DEFINE c == Contexts(a, m)
           s == SnpPart(a, m)
           p == Parameters(m, Mask(a))
           f == FirmwarePart(a)
<1>1. IsSeq(c) /\ IsSeq(s) /\ IsSeq(p) /\ IsSeq(f)
  BY PlainIsSeq
<1>2. Others(s) = <<>> /\ Others(f) = <<>>
  BY NoOthersIn
<1>3. a \in Builds /\ m = ParseMeta(a.firmware) /\ a.smp \in Nat
  BY ReadyFacts
<1>4. Others(c) = c
  BY <1>3, ContextOthers
<1>5. IsSeq(RegionsOf(m))
  BY <1>3, RegionFacts
<1>6. Others(p) = p
  BY <1>5, ParameterOthers
<1>7. Plain(a, m) = Cat(Cat(Cat(c, s), p), f)
  BY DEF Plain
<1> HIDE DEF c, s, p, f
<1>8. IsSeq(Cat(c, s)) /\ Others(Cat(c, s)) = c
  BY <1>1, <1>2, <1>4, CatIsSeq, OthersCat, CatIdentity
<1>9. IsSeq(Cat(Cat(c, s), p)) /\ Others(Cat(Cat(c, s), p)) = Cat(c, p)
  BY <1>1, <1>6, <1>8, CatIsSeq, OthersCat
<1>10. IsSeq(Cat(c, p))
  BY <1>1, CatIsSeq
<1>11. Others(Cat(Cat(Cat(c, s), p), f)) = Cat(c, p)
  BY <1>1, <1>2, <1>9, <1>10, OthersCat, CatIdentity
<1> QED
  BY <1>7, <1>11 DEF c, p

LEMMA MemoryNotEmpty ==
    ASSUME NEW a, NEW m, NEW bs, Ready(a, m, bs)
    PROVE  0 \in 0 .. FourG - 1 /\ FourG \in Nat
<1> DEFINE n == Len(a.firmware.pages)
           v == Len(a.vars)
<1>1. a \in Builds /\ v + n <= FourG - DataBase /\ v \in Nat /\ n \in Nat /\ IsSeq(a.firmware.pages)
  BY ReadyFacts
<1>2. a.firmware.pages # <<>>
  BY <1>1, InputAssumption DEF IsBlob
<1>3. n # 0
  BY <1>1, <1>2 DEF IsSeq
<1> HIDE DEF n, v
<1> QED
  BY <1>1, <1>3, LayoutAssumption

(* The sort keeps what is no page in its order. *)
LEMMA FileOthers ==
    ASSUME NEW a, NEW m, NEW bs, Ready(a, m, bs), "snp" \in Mask(a)
    PROVE  Others(SortPages(Placed(a, m, bs))) = Cat(Contexts(a, m), Parameters(m, Mask(a)))
<1> DEFINE p == Placed(a, m, bs)
           S == ToSet(p)
           V == OtherSet(S)
<1>1. IsSeq(p) /\ Others(p) = Others(Plain(a, m))
  BY FileRight
<1>2. p \in Seq(S)
  BY <1>1 DEF IsSeq
<1> HIDE DEF p, S
<1>3. \A d \in S : d \in V => SortKey(d) = 0
  BY DEF OtherSet, SortKey
<1>4. 0 \in 0 .. FourG - 1
  BY MemoryNotEmpty
<1> HIDE DEF V
<1>5. Keep(SortPages(p), V) = Keep(p, V)
  BY <1>2, <1>3, <1>4, SortKeeps
<1>6. SortPages(p) \in Seq(S)
  BY <1>2, SortBuckets
<1>7. Others(SortPages(p)) = Keep(SortPages(p), V) /\ Others(p) = Keep(p, V)
  BY <1>2, <1>6, OthersKeep DEF V
<1>8. Others(SortPages(p)) = Others(Plain(a, m))
  BY <1>1, <1>5, <1>7
<1> QED
  BY <1>8, PlainOthers DEF p

FirstArea(m) == OfType(m, "IgvmParamArea")[1]
AreaDirective(m) == ParameterArea(FirstArea(m).size)
InsertDirective(a, m) == ParameterInsert(FirstArea(m).base, Mask(a))

LEMMA ParamKeeps ==
    ASSUME NEW a, NEW m, IsSeq(RegionsOf(m)), OfType(m, "IgvmParamArea") # <<>>, NEW S,
           AreaDirective(m) \in S, InsertDirective(a, m) \in S, ParamList(m) \in Seq(S)
    PROVE  /\ Parameters(m, Mask(a)) \in Seq(S)
           /\ Keep(Parameters(m, Mask(a)), InsertSet(S)) = <<InsertDirective(a, m)>>
           /\ Keep(Parameters(m, Mask(a)), AreaSet(S)) = <<AreaDirective(m)>>
           /\ Keep(Parameters(m, Mask(a)), SnpContextSet(S)) = <<>>
<1> DEFINE x == AreaDirective(m)
           y == InsertDirective(a, m)
           l == ParamList(m)
           p == Parameters(m, Mask(a))
           A == InsertSet(S)
           B == AreaSet(S)
           C == SnpContextSet(S)
<1>1. p = Cat(Cat(<<x>>, l), <<y>>)
  BY ParametersIsSeq DEF AreaDirective, InsertDirective, FirstArea
<1>2. \A i \in 1 .. Len(l) : l[i].kind \in {"IgvmParamMemoryMap", "IgvmParamVpCount"}
  BY ParamParts
<1>3. x.kind = "area" /\ y.kind = "insert"
  BY DEF ParameterArea, ParameterInsert, AreaDirective, InsertDirective
<1> HIDE DEF x, y, l, p
<1> DEFINE xs == <<x>>
           ys == <<y>>
<1>5. xs \in Seq(S) /\ ys \in Seq(S) /\ Len(xs) = 1 /\ Len(ys) = 1 /\ xs[1] = x /\ ys[1] = y /\ l \in Seq(S)
  BY DEF x, y, l
<1>6. x \in B /\ x \notin A /\ x \notin C /\ y \in A /\ y \notin B /\ y \notin C
  BY <1>3 DEF InsertSet, AreaSet, SnpContextSet, x, y
<1>7. \A i \in 1 .. Len(l) : l[i] \notin A /\ l[i] \notin B /\ l[i] \notin C
  BY <1>2 DEF InsertSet, AreaSet, SnpContextSet
<1> DEFINE z == Cat(xs, l)
<1> HIDE DEF xs, ys, A, B, C
<1>8. z \in Seq(S)
  BY <1>5, CatType
<1>9. \A V : Keep(z, V) = Cat(Keep(xs, V), Keep(l, V))
  BY <1>5, KeepCat
<1>10. Keep(l, A) = <<>> /\ Keep(l, B) = <<>> /\ Keep(l, C) = <<>>
  BY <1>5, <1>7, KeepNone
<1>11. Keep(xs, A) = <<>> /\ Keep(xs, C) = <<>>
  BY <1>5, <1>6, KeepNone
<1>12. Keep(xs, B) = xs
  BY <1>5, <1>6, KeepAll
<1>13. Keep(ys, B) = <<>> /\ Keep(ys, C) = <<>>
  BY <1>5, <1>6, KeepNone
<1>14. Keep(ys, A) = ys
  BY <1>5, <1>6, KeepAll
<1> HIDE DEF z
<1>15. \A V : Keep(Cat(z, ys), V) = Cat(Keep(z, V), Keep(ys, V))
  BY <1>5, <1>8, KeepCat
<1>16. p = Cat(z, ys)
  BY <1>1 DEF z, xs, ys
<1>17. /\ Cat(<<>>, <<>>) = <<>> /\ Cat(xs, <<>>) = xs /\ Cat(<<>>, ys) = ys
  BY <1>5, EmptyIsSeq, CatIdentity, SeqIsSeq
<1>18. Keep(p, A) = ys
  BY <1>9, <1>10, <1>11, <1>14, <1>15, <1>16, <1>17
<1>19. Keep(p, B) = xs
  BY <1>9, <1>10, <1>12, <1>13, <1>15, <1>16, <1>17
<1>20. Keep(p, C) = <<>>
  BY <1>9, <1>10, <1>11, <1>13, <1>15, <1>16, <1>17
<1>21. p \in Seq(S)
  BY <1>5, <1>8, <1>16, CatType
<1> QED
  BY <1>18, <1>19, <1>20, <1>21 DEF xs, ys, A, B, C, p, x, y

LEMMA ContextKeeps ==
    ASSUME NEW a, a.smp \in Nat, NEW m, "snp" \in Mask(a), NEW S,
           NativeContext(a) \in Seq(S), VpContexts(a, m) \in Seq(S)
    PROVE  /\ Contexts(a, m) \in Seq(S)
           /\ Keep(Contexts(a, m), InsertSet(S)) = <<>>
           /\ Keep(Contexts(a, m), AreaSet(S)) = <<>>
           /\ Keep(Contexts(a, m), SnpContextSet(S)) = VpContexts(a, m)
<1> DEFINE x == NativeContext(a)
           y == VpContexts(a, m)
           A == InsertSet(S)
           B == AreaSet(S)
           C == SnpContextSet(S)
<1>1. Contexts(a, m) = Cat(x, y) /\ Len(y) = a.smp
  BY ContextParts
<1>2. \A i \in 1 .. Len(x) : x[i].kind = "context" /\ "snp" \notin x[i].mask
  BY ContextParts
<1>3. \A i \in 1 .. Len(y) : y[i].kind = "context" /\ "snp" \in y[i].mask
  BY <1>1, ContextParts
<1>4. x \in Seq(S) /\ y \in Seq(S)
  OBVIOUS
<1> HIDE DEF x, y
<1>5. \A i \in 1 .. Len(x) : x[i] \notin A /\ x[i] \notin B /\ x[i] \notin C
  BY <1>2 DEF InsertSet, AreaSet, SnpContextSet
<1>6. \A i \in 1 .. Len(y) : y[i] \notin A /\ y[i] \notin B
  BY <1>3 DEF InsertSet, AreaSet
<1>7. \A i \in 1 .. Len(y) : y[i] \in C
  BY <1>3, <1>4 DEF SnpContextSet
<1> HIDE DEF A, B, C
<1>8. Keep(x, A) = <<>> /\ Keep(x, B) = <<>> /\ Keep(x, C) = <<>>
  BY <1>4, <1>5, KeepNone
<1>9. Keep(y, A) = <<>> /\ Keep(y, B) = <<>>
  BY <1>4, <1>6, KeepNone
<1>10. Keep(y, C) = y
  BY <1>4, <1>7, KeepAll
<1>11. \A V : Keep(Cat(x, y), V) = Cat(Keep(x, V), Keep(y, V))
  BY <1>4, KeepCat
<1>12. Cat(<<>>, <<>>) = <<>> /\ Cat(<<>>, y) = y
  BY <1>4, EmptyIsSeq, CatIdentity, SeqIsSeq
<1>13. Cat(x, y) \in Seq(S)
  BY <1>4, CatType
<1> QED
  BY <1>1, <1>8, <1>9, <1>10, <1>11, <1>12, <1>13 DEF A, B, C, y

(* What the file holds besides pages. *)
LEMMA FileParts ==
    ASSUME NEW a, NEW m, NEW bs, Ready(a, m, bs), "snp" \in Mask(a), NEW ds,
           ds = SortPages(Placed(a, m, bs))
    PROVE  \E S :
             /\ ds \in Seq(S)
             /\ Keep(ds, InsertSet(S)) = IF OfType(m, "IgvmParamArea") = <<>> THEN <<>> ELSE <<InsertDirective(a, m)>>
             /\ Keep(ds, AreaSet(S)) = IF OfType(m, "IgvmParamArea") = <<>> THEN <<>> ELSE <<AreaDirective(m)>>
             /\ Keep(ds, SnpContextSet(S)) = VpContexts(a, m)
<1> DEFINE x == NativeContext(a)
           y == VpContexts(a, m)
           l == ParamList(m)
           c == Contexts(a, m)
           p == Parameters(m, Mask(a))
           S == ToSet(ds) \cup ToSet(x) \cup ToSet(y) \cup ToSet(l) \cup {AreaDirective(m), InsertDirective(a, m)}
<1>1. IsSeq(ds) /\ Others(ds) = Cat(c, p)
  BY FileRight, FileOthers
<1>2. a \in Builds /\ m = ParseMeta(a.firmware) /\ a.smp \in Nat
  BY ReadyFacts
<1>3. IsSeq(RegionsOf(m))
  BY <1>2, RegionFacts
<1>4. IsSeq(l)
  BY <1>3, ParametersIsSeq
<1>5. IsSeq(x) /\ IsSeq(y)
  BY <1>2, ContextParts, SeqIsSeq
<1>6. ds \in Seq(ToSet(ds)) /\ l \in Seq(ToSet(l)) /\ x \in Seq(ToSet(x)) /\ y \in Seq(ToSet(y))
  BY <1>1, <1>4, <1>5 DEF IsSeq
<1>7. /\ ToSet(ds) \subseteq S /\ ToSet(l) \subseteq S /\ ToSet(x) \subseteq S /\ ToSet(y) \subseteq S
      /\ AreaDirective(m) \in S /\ InsertDirective(a, m) \in S
  OBVIOUS
<1> HIDE DEF S, x, y, l, c, p
<1>8. ds \in Seq(S)
  BY <1>6, <1>7, SeqLarger
<1>9. l \in Seq(S)
  BY <1>6, <1>7, SeqLarger
<1>10. x \in Seq(S)
  BY <1>6, <1>7, SeqLarger
<1>11. y \in Seq(S)
  BY <1>6, <1>7, SeqLarger
<1> DEFINE A == InsertSet(S)
           B == AreaSet(S)
           C == SnpContextSet(S)
           O == OtherSet(S)
           none == OfType(m, "IgvmParamArea") = <<>>
<1>12. /\ c \in Seq(S) /\ Keep(c, A) = <<>> /\ Keep(c, B) = <<>> /\ Keep(c, C) = y
  BY <1>2, <1>10, <1>11, ContextKeeps DEF x, y, c
<1>13. /\ p \in Seq(S) /\ Keep(p, A) = (IF none THEN <<>> ELSE <<InsertDirective(a, m)>>)
       /\ Keep(p, B) = (IF none THEN <<>> ELSE <<AreaDirective(m)>>) /\ Keep(p, C) = <<>>
  <2>1. CASE none
    <3>1. p = <<>>
      BY <1>3, <2>1, ParametersIsSeq DEF p
    <3>2. p \in Seq(S)
      BY <3>1
    <3>3. Keep(p, A) = <<>> /\ Keep(p, B) = <<>> /\ Keep(p, C) = <<>>
      BY <3>1, KeepEmpty
    <3> QED
      BY <2>1, <3>2, <3>3
  <2>2. CASE ~none
    <3>1. /\ p \in Seq(S) /\ Keep(p, A) = <<InsertDirective(a, m)>>
          /\ Keep(p, B) = <<AreaDirective(m)>> /\ Keep(p, C) = <<>>
      BY <1>3, <1>7, <1>9, <2>2, ParamKeeps DEF p, l
    <3> QED
      BY <2>2, <3>1
  <2> QED
    BY <2>1, <2>2
<1>14. O \cap A = A /\ O \cap B = B /\ O \cap C = C
  BY DEF OtherSet, InsertSet, AreaSet, SnpContextSet
<1> HIDE DEF A, B, C, O, none
<1>15. \A V : Keep(Keep(ds, O), V) = Keep(ds, O \cap V)
  BY <1>8, KeepKeep
<1>16. Keep(ds, O) = Cat(c, p)
  BY <1>1, <1>8, OthersKeep DEF O
<1>17. \A V : Keep(Cat(c, p), V) = Cat(Keep(c, V), Keep(p, V))
  BY <1>12, <1>13, KeepCat
<1>18. \A V : O \cap V = V => Keep(ds, V) = Cat(Keep(c, V), Keep(p, V))
  BY <1>15, <1>16, <1>17
<1>19. Keep(ds, A) = Cat(<<>>, Keep(p, A)) /\ Keep(ds, B) = Cat(<<>>, Keep(p, B)) /\ Keep(ds, C) = Cat(y, <<>>)
  BY <1>12, <1>13, <1>14, <1>18
<1>20. IsSeq(Keep(p, A)) /\ IsSeq(Keep(p, B)) /\ IsSeq(y)
  BY <1>11, <1>13, KeepIsSeq, SeqIsSeq
<1>21. Keep(ds, A) = Keep(p, A) /\ Keep(ds, B) = Keep(p, B) /\ Keep(ds, C) = y
  BY <1>19, <1>20, CatIdentity
<1>22. /\ Keep(ds, A) = (IF none THEN <<>> ELSE <<InsertDirective(a, m)>>)
       /\ Keep(ds, B) = (IF none THEN <<>> ELSE <<AreaDirective(m)>>)
  BY <1>13, <1>21
<1> QED
  BY <1>8, <1>21, <1>22 DEF A, B, C, none, y

LEMMA PageFound ==
    ASSUME NEW ds, IsSeq(ds), NEW i \in 1 .. Len(ds), ds[i].kind = "page"
    PROVE  /\ PagesAt(ds, ds[i].gpa) # <<>>
           /\ \A d : PagesAt(ds, ds[i].gpa) = <<d>> => d = ds[i]
           /\ \A j \in 1 .. Len(ds) : /\ ds[j].kind = "page" /\ ds[j].gpa = ds[i].gpa
                                      /\ Len(PagesAt(ds, ds[i].gpa)) <= 1
                                      => j = i
<1> DEFINE S == ToSet(ds)
           g == ds[i].gpa
           V == AtSet(S, g)
           p == PagesAt(ds, g)
<1>1. ds \in Seq(S)
  BY DEF IsSeq
<1>2. ds[i] \in V
  BY <1>1 DEF AtSet
<1>3. p = Keep(ds, V)
  BY <1>1, PagesKeep
<1>4. S = {ds[j] : j \in 1 .. Len(ds)}
  BY <1>1, ElementsOf
<1>5. \A j \in 1 .. Len(ds) : ds[j].kind = "page" /\ ds[j].gpa = g => ds[j] \in V
  BY <1>4 DEF AtSet
<1> HIDE DEF V
<1>6. ToSet(Keep(ds, V)) = ToSet(ds) \cap V
  BY <1>1, KeepElements
<1>7. ds[i] \in ToSet(p)
  BY <1>2, <1>3, <1>4, <1>6
<1>8. p \in Seq(S)
  BY <1>1, <1>3, KeepType
<1>9. ToSet(p) = {p[j] : j \in 1 .. Len(p)}
  BY <1>8, ElementsOf
<1> HIDE DEF p, S
<1>10. p # <<>>
  BY <1>7, <1>9
<1>11. ASSUME NEW d, p = <<d>> PROVE d = ds[i]
  <2>1. Len(p) = 1 /\ p[1] = d
    BY <1>11
  <2> QED
    BY <1>7, <1>9, <2>1
<1>12. ASSUME NEW j \in 1 .. Len(ds), ds[j].kind = "page", ds[j].gpa = g, Len(p) <= 1, j # i
       PROVE  FALSE
  <2> DEFINE n == Len(p)
  <2>1. ds[j] \in V
    BY <1>5, <1>12
  <2>2. i < j \/ j < i
    BY <1>12
  <2>3. Len(Keep(ds, V)) >= 2
    BY <1>1, <1>2, <2>1, <2>2, KeepTwo
  <2>4. n >= 2 /\ n <= 1 /\ n \in Nat
    BY <1>3, <1>8, <1>12, <2>3
  <2> HIDE DEF n
  <2> QED
    BY <2>4
<1> QED
  BY <1>10, <1>11, <1>12 DEF p

(* Pages ascend in the file. *)
LEMMA FilePages ==
    ASSUME NEW a, NEW m, NEW bs, Ready(a, m, bs), "snp" \in Mask(a), NEW ds,
           ds = SortPages(Placed(a, m, bs))
    PROVE  /\ IsSeq(ds)
           /\ \A i \in 1 .. Len(ds) : ds[i].kind = "page" =>
                ds[i].gpa \in 0 .. FourG - 1 /\ PageShape(ds[i], ds[i].gpa)
           /\ \A i, j \in 1 .. Len(ds) : i < j /\ ds[i].kind = "page" =>
                /\ ds[j].kind = "page" => ds[i].gpa < ds[j].gpa
                /\ ds[j].kind # "page" => ds[i].gpa = 0
<1>1. IsSeq(ds) /\ IsSeq(Placed(a, m, bs))
  BY FileRight
<1>2. /\ \A i \in 1 .. Len(ds) : SortKey(ds[i]) \in 0 .. FourG - 1
      /\ \A i, j \in 1 .. Len(ds) : i < j => SortKey(ds[i]) <= SortKey(ds[j])
  BY <1>1, SortOrdered
<1>3. \A g \in 0 .. FourG - 1 : AtMostOne(PagesAt(ds, g), g)
  BY FileAt
<1>4. ASSUME NEW i \in 1 .. Len(ds), ds[i].kind = "page"
      PROVE  /\ ds[i].gpa \in 0 .. FourG - 1 /\ SortKey(ds[i]) = ds[i].gpa
             /\ PageShape(ds[i], ds[i].gpa) /\ Len(PagesAt(ds, ds[i].gpa)) <= 1
  <2> DEFINE g == ds[i].gpa
             p == PagesAt(ds, g)
  <2>1. SortKey(ds[i]) = g
    BY <1>4 DEF SortKey
  <2>2. g \in 0 .. FourG - 1
    BY <1>2, <2>1
  <2>3. AtMostOne(p, g)
    BY <1>3, <2>2
  <2>4. p # <<>> /\ \A d : p = <<d>> => d = ds[i]
    BY <1>1, <1>4, PageFound
  <2> HIDE DEF p, g
  <2>5. PICK d : p = <<d>> /\ PageShape(d, g)
    BY <2>3, <2>4 DEF AtMostOne
  <2>6. Len(p) = 1
    BY <2>5
  <2>7. Len(p) <= 1
    BY <2>6
  <2>8. PageShape(ds[i], g)
    BY <2>4, <2>5
  <2> QED
    BY <2>1, <2>2, <2>7, <2>8 DEF p, g
<1>5. ASSUME NEW i \in 1 .. Len(ds), NEW j \in 1 .. Len(ds), i < j, ds[i].kind = "page"
      PROVE  /\ ds[j].kind = "page" => ds[i].gpa < ds[j].gpa
             /\ ds[j].kind # "page" => ds[i].gpa = 0
  <2>1. SortKey(ds[i]) = ds[i].gpa /\ ds[i].gpa \in 0 .. FourG - 1 /\ Len(PagesAt(ds, ds[i].gpa)) <= 1
    BY <1>4, <1>5
  <2>2. ds[i].gpa <= SortKey(ds[j])
    BY <1>2, <1>5, <2>1
  <2>3. CASE ds[j].kind = "page"
    <3>1. SortKey(ds[j]) = ds[j].gpa /\ ds[j].gpa \in 0 .. FourG - 1
      BY <1>4, <2>3
    <3>2. i # j
      BY <1>5
    <3>3. ds[j].gpa # ds[i].gpa
      BY <1>1, <1>5, <2>1, <2>3, <3>2, PageFound
    <3> DEFINE x == ds[i].gpa
               y == ds[j].gpa
    <3>4. x \in 0 .. FourG - 1 /\ y \in 0 .. FourG - 1 /\ x <= y /\ x # y
      BY <2>1, <2>2, <3>1, <3>3
    <3> HIDE DEF x, y
    <3>5. x < y
      BY <3>4, LayoutAssumption
    <3> QED
      BY <2>3, <3>5 DEF x, y
  <2>4. CASE ds[j].kind # "page"
    <3>1. SortKey(ds[j]) = 0
      BY <2>4 DEF SortKey
    <3> DEFINE x == ds[i].gpa
    <3>2. x <= 0 /\ x \in 0 .. FourG - 1
      BY <2>1, <2>2, <3>1
    <3> HIDE DEF x
    <3>3. x = 0
      BY <3>2, LayoutAssumption
    <3> QED
      BY <2>4, <3>3 DEF x
  <2> QED
    BY <2>3, <2>4
<1> QED
  BY <1>1, <1>4, <1>5

LEMMA OneKept ==
    ASSUME NEW S, NEW s \in Seq(S), NEW V, NEW x, Keep(s, V) = <<x>>
    PROVE  \E k \in 1 .. Len(s) : s[k] = x /\ \A i \in 1 .. Len(s) : s[i] \in V <=> i = k
<1> DEFINE p == Keep(s, V)
<1>1. ToSet(p) = ToSet(s) \cap V
  BY KeepElements
<1>2. ToSet(s) = {s[i] : i \in 1 .. Len(s)}
  BY ElementsOf
<1>3. p \in Seq(S)
  BY KeepType
<1>4. ToSet(p) = {p[i] : i \in 1 .. Len(p)}
  BY <1>3, ElementsOf
<1>5. p = <<x>>
  OBVIOUS
<1>6. \A i, j \in 1 .. Len(s) : i < j /\ s[i] \in V /\ s[j] \in V => Len(p) >= 2
  BY KeepTwo
<1> HIDE DEF p
<1>7. Len(p) = 1 /\ p[1] = x
  BY <1>5
<1>8. x \in ToSet(p)
  BY <1>4, <1>7
<1>9. PICK k \in 1 .. Len(s) : s[k] = x /\ x \in V
  BY <1>1, <1>2, <1>8
<1>10. ASSUME NEW i \in 1 .. Len(s), s[i] \in V, i # k PROVE FALSE
  <2>1. i < k \/ k < i
    BY <1>10
  <2>2. Len(p) >= 2
    BY <1>6, <1>9, <1>10, <2>1
  <2> QED
    BY <1>7, <2>2
<1> QED
  BY <1>9, <1>10

LEMMA NoneKept ==
    ASSUME NEW S, NEW s \in Seq(S), NEW V, Keep(s, V) = <<>>
    PROVE  \A i \in 1 .. Len(s) : s[i] \notin V
<1> DEFINE p == Keep(s, V)
<1>1. ToSet(p) = ToSet(s) \cap V
  BY KeepElements
<1>2. ToSet(s) = {s[i] : i \in 1 .. Len(s)}
  BY ElementsOf
<1>3. p = <<>> /\ ToSet(<<>>) = {}
  BY DEF ToSet
<1> HIDE DEF p
<1> QED
  BY <1>1, <1>2, <1>3

\* The k-th directive is the only insertion of parameters; k = 0: there is none.
InsertIsAt(ds, k) == \A i \in 1 .. Len(ds) : ds[i].kind = "insert" <=> i = k

LEMMA FileInserts ==
    ASSUME NEW a, NEW m, NEW bs, Ready(a, m, bs), "snp" \in Mask(a), NEW ds,
           ds = SortPages(Placed(a, m, bs))
    PROVE  \E k \in 0 .. Len(ds) :
             /\ InsertIsAt(ds, k)
             /\ k = 0 <=> OfType(m, "IgvmParamArea") = <<>>
             /\ k # 0 => ds[k] = InsertDirective(a, m) /\ AreaSize(ds) = FirstArea(m).size
<1>1. PICK S : /\ ds \in Seq(S)
               /\ Keep(ds, InsertSet(S)) = IF OfType(m, "IgvmParamArea") = <<>> THEN <<>> ELSE <<InsertDirective(a, m)>>
               /\ Keep(ds, AreaSet(S)) = IF OfType(m, "IgvmParamArea") = <<>> THEN <<>> ELSE <<AreaDirective(m)>>
  BY FileParts
<1>2. \A i \in 1 .. Len(ds) : ds[i] \in InsertSet(S) <=> ds[i].kind = "insert"
  BY <1>1 DEF InsertSet
<1>3. Len(ds) \in Nat
  BY <1>1
<1>4. CASE OfType(m, "IgvmParamArea") = <<>>
  <2>1. Keep(ds, InsertSet(S)) = <<>>
    BY <1>1, <1>4
  <2>2. \A i \in 1 .. Len(ds) : ds[i] \notin InsertSet(S)
    BY <1>1, <2>1, NoneKept
  <2>3. InsertIsAt(ds, 0)
    BY <1>2, <1>3, <2>2 DEF InsertIsAt
  <2> QED
    BY <1>3, <1>4, <2>3
<1>5. CASE OfType(m, "IgvmParamArea") # <<>>
  <2>1. Keep(ds, InsertSet(S)) = <<InsertDirective(a, m)>> /\ Keep(ds, AreaSet(S)) = <<AreaDirective(m)>>
    BY <1>1, <1>5
  <2>2. PICK k \in 1 .. Len(ds) : /\ ds[k] = InsertDirective(a, m)
                                  /\ \A i \in 1 .. Len(ds) : ds[i] \in InsertSet(S) <=> i = k
    BY <1>1, <2>1, OneKept
  <2>3. InsertIsAt(ds, k) /\ k \in 0 .. Len(ds) /\ k # 0
    BY <1>2, <1>3, <2>2 DEF InsertIsAt
  <2>4. AreaSize(ds) = FirstArea(m).size
    <3> DEFINE T == ToSet(ds)
               V == {d \in T : d.kind = "area"}
               W == AreaSet(S)
               x == AreaDirective(m)
    <3>1. T = {ds[i] : i \in 1 .. Len(ds)}
      BY <1>1, ElementsOf
    <3>2. \A i \in 1 .. Len(ds) : ds[i] \in V <=> ds[i] \in W
      BY <1>1, <3>1 DEF AreaSet
    <3> DEFINE p == Keep(ds, V)
    <3>3. AreaSize(ds) = IF p = <<>> THEN None ELSE p[Len(p)].size
      BY DEF AreaSize, Where
    <3> HIDE DEF V, W
    <3>4. p = <<x>>
      BY <1>1, <2>1, <3>2, KeepSame DEF W
    <3>5. x.size = FirstArea(m).size
      BY DEF AreaDirective, ParameterArea
    <3> HIDE DEF p, x
    <3>6. p # <<>> /\ Len(p) = 1 /\ p[1] = x
      BY <3>4
    <3> QED
      BY <3>3, <3>5, <3>6
  <2> QED
    BY <1>5, <2>2, <2>3, <2>4
<1> QED
  BY <1>4, <1>5

-----------------------------------------------------------------------------
(* The walk, directive by directive. *)

Records(s) == [i \in DOMAIN s |-> Classify(s[i])]
VmsaRecords(s) == [i \in DOMAIN s |-> PageInfo("VMSA", VmsaGpa, Vmsa(s[i].regs))]
InsertRecords(d, size) == [i \in 1 .. size |-> PageInfo("UNMEASURED", d.gpa + i - 1, "zeros")]

LEMMA PageStep ==
    ASSUME NEW w, IsWalk(w), NEW d, NEW ds, d.kind = "page", "snp" \in d.mask
    PROVE  /\ MeasureDirective(w, d, ds).vmsas = w.vmsas
           /\ Continues(w, d) => /\ MeasureDirective(w, d, ds).log = w.log
                                 /\ MeasureDirective(w, d, ds).batch = Append(w.batch, Classify(d))
           /\ ~Continues(w, d) => /\ MeasureDirective(w, d, ds).log = w.log \o w.batch
                                  /\ MeasureDirective(w, d, ds).batch = Append(<<>>, Classify(d))
<1> DEFINE c == Classify(d)
           f == IF Continues(w, d) THEN w ELSE [w EXCEPT !.log = @ \o w.batch, !.batch = <<>>]
           p == [f EXCEPT !.batch = Append(@, c), !.prev = [page |-> d, at |-> w.at]]
<1>1. MeasureDirective(w, d, ds) = [p EXCEPT !.at = @ + 1]
  BY DEF MeasureDirective, MeasurePage
<1>2. DOMAIN w = {"at", "log", "batch", "prev", "vmsas"}
  BY DEF IsWalk
<1>3. CASE Continues(w, d)
  <2> HIDE DEF c
  <2>1. f = w
    BY <1>3
  <2> HIDE DEF f
  <2>2. p.log = w.log /\ p.batch = Append(w.batch, c) /\ p.vmsas = w.vmsas /\ DOMAIN p = DOMAIN w
    BY <1>2, <2>1
  <2> HIDE DEF p
  <2> QED
    BY <1>1, <1>2, <1>3, <2>2 DEF c
<1>4. CASE ~Continues(w, d)
  <2> HIDE DEF c
  <2>1. f = [w EXCEPT !.log = @ \o w.batch, !.batch = <<>>]
    BY <1>4
  <2>2. f.log = w.log \o w.batch /\ f.batch = <<>> /\ f.vmsas = w.vmsas /\ DOMAIN f = DOMAIN w
    BY <1>2, <2>1
  <2> HIDE DEF f
  <2>3. p.log = w.log \o w.batch /\ p.batch = Append(<<>>, c) /\ p.vmsas = w.vmsas /\ DOMAIN p = DOMAIN w
    BY <1>2, <2>2
  <2> HIDE DEF p
  <2> QED
    BY <1>1, <1>2, <1>4, <2>3 DEF c
<1> QED
  BY <1>3, <1>4

LEMMA ContextStep ==
    ASSUME NEW w, IsWalk(w), NEW d, NEW ds, d.kind = "context", "snp" \in d.mask
    PROVE  /\ MeasureDirective(w, d, ds).vmsas = Append(w.vmsas, PageInfo("VMSA", VmsaGpa, Vmsa(d.regs)))
           /\ MeasureDirective(w, d, ds).log = w.log /\ MeasureDirective(w, d, ds).batch = w.batch
           /\ MeasureDirective(w, d, ds).prev = w.prev
<1> DEFINE r == PageInfo("VMSA", VmsaGpa, Vmsa(d.regs))
           p == [w EXCEPT !.vmsas = Append(@, r)]
<1>1. MeasureDirective(w, d, ds) = [p EXCEPT !.at = @ + 1]
  BY DEF MeasureDirective, MeasureContext
<1>2. DOMAIN w = {"at", "log", "batch", "prev", "vmsas"}
  BY DEF IsWalk
<1> HIDE DEF r
<1>3. /\ p.log = w.log /\ p.batch = w.batch /\ p.prev = w.prev /\ p.vmsas = Append(w.vmsas, r)
      /\ DOMAIN p = DOMAIN w
  BY <1>2
<1> HIDE DEF p
<1> QED
  BY <1>1, <1>2, <1>3 DEF r

LEMMA InsertStep ==
    ASSUME NEW w, IsWalk(w), NEW d, NEW ds, d.kind = "insert", "snp" \in d.mask
    PROVE  /\ MeasureDirective(w, d, ds).log = w.log \o InsertRecords(d, AreaSize(ds))
           /\ MeasureDirective(w, d, ds).vmsas = w.vmsas /\ MeasureDirective(w, d, ds).batch = w.batch
           /\ MeasureDirective(w, d, ds).prev = w.prev
<1> DEFINE r == InsertRecords(d, AreaSize(ds))
           p == [w EXCEPT !.log = @ \o r]
<1>1. MeasureDirective(w, d, ds) = [p EXCEPT !.at = @ + 1]
  BY DEF MeasureDirective, MeasureInsert, InsertRecords
<1>2. DOMAIN w = {"at", "log", "batch", "prev", "vmsas"}
  BY DEF IsWalk
<1> HIDE DEF r
<1>3. /\ p.log = w.log \o r /\ p.batch = w.batch /\ p.prev = w.prev /\ p.vmsas = w.vmsas
      /\ DOMAIN p = DOMAIN w
  BY <1>2
<1> HIDE DEF p
<1> QED
  BY <1>1, <1>2, <1>3 DEF r

LEMMA OtherStep ==
    ASSUME NEW w, IsWalk(w), NEW d, NEW ds,
           d.kind \in {"page", "context", "insert"} => "snp" \notin d.mask
    PROVE  /\ MeasureDirective(w, d, ds).log = w.log
           /\ MeasureDirective(w, d, ds).vmsas = w.vmsas /\ MeasureDirective(w, d, ds).batch = w.batch
           /\ MeasureDirective(w, d, ds).prev = w.prev
<1>1. MeasureDirective(w, d, ds) = [w EXCEPT !.at = @ + 1]
  <2>1. CASE d.kind \in {"page", "context", "insert"}
    BY <2>1 DEF MeasureDirective
  <2>2. CASE d.kind \notin {"page", "context", "insert"}
    BY <2>2 DEF MeasureDirective
  <2> QED
    BY <2>1, <2>2
<1>2. DOMAIN w = {"at", "log", "batch", "prev", "vmsas"}
  BY DEF IsWalk
<1> QED
  BY <1>1, <1>2

LEMMA CatAppend ==
    ASSUME NEW a, NEW b, IsSeq(a), IsSeq(b), NEW x
    PROVE  Cat(a, Append(b, x)) = Append(Cat(a, b), x) /\ IsSeq(Append(b, x))
<1> DEFINE S == ToSet(a) \cup ToSet(b) \cup {x}
<1>1. a \in Seq(ToSet(a)) /\ b \in Seq(ToSet(b)) /\ ToSet(a) \subseteq S /\ ToSet(b) \subseteq S /\ x \in S
  BY DEF IsSeq
<1> HIDE DEF S
<1>2. a \in Seq(S)
  BY <1>1, SeqLarger
<1>3. b \in Seq(S)
  BY <1>1, SeqLarger
<1>4. x \in S
  BY <1>1
<1>5. Append(b, x) \in Seq(S)
  BY <1>3, <1>4
<1>6. a \o Append(b, x) = Append(a \o b, x)
  BY <1>2, <1>3, <1>4
<1> QED
  BY <1>5, <1>6, SeqIsSeq DEF Cat

LEMMA AppendOf ==
    ASSUME NEW n \in Nat, NEW f, IsSeq(f), Len(f) = n, NEW y, NEW g, IsSeq(g), Len(g) = n + 1,
           \A i \in 1 .. n : g[i] = f[i], g[n + 1] = y
    PROVE  g = Append(f, y)
<1> DEFINE T == ToSet(f) \cup ToSet(g) \cup {y}
           h == Append(f, y)
<1>1. /\ f \in Seq(ToSet(f)) /\ g \in Seq(ToSet(g)) /\ ToSet(f) \subseteq T /\ ToSet(g) \subseteq T
      /\ y \in T
  BY DEF IsSeq
<1> HIDE DEF T
<1>2. f \in Seq(T)
  BY <1>1, SeqLarger
<1>3. g \in Seq(T)
  BY <1>1, SeqLarger
<1>4. /\ h \in Seq(T) /\ Len(h) = n + 1 /\ h[n + 1] = y
      /\ \A i \in 1 .. n : h[i] = f[i]
  BY <1>1, <1>2
<1> HIDE DEF h
<1>5. \A i \in 1 .. n + 1 : g[i] = h[i]
  BY <1>4
<1>6. g = h
  BY <1>3, <1>4, <1>5
<1> QED
  BY <1>6 DEF h

LEMMA RecordsAppend ==
    ASSUME NEW S, NEW s \in Seq(S), NEW x \in S
    PROVE  /\ Records(Append(s, x)) = Append(Records(s), Classify(x))
           /\ VmsaRecords(Append(s, x)) = Append(VmsaRecords(s), PageInfo("VMSA", VmsaGpa, Vmsa(x.regs)))
           /\ IsSeq(Records(s)) /\ IsSeq(VmsaRecords(s))
<1> DEFINE n == Len(s)
           t == Append(s, x)
           c(d) == Classify(d)
           v(d) == PageInfo("VMSA", VmsaGpa, Vmsa(d.regs))
           rs == Records(s)
           vs == VmsaRecords(s)
           rt == Records(t)
           vt == VmsaRecords(t)
<1>1. /\ n \in Nat /\ DOMAIN s = 1 .. n /\ DOMAIN t = 1 .. n + 1 /\ t[n + 1] = x
      /\ \A i \in 1 .. n : t[i] = s[i]
  OBVIOUS
<1>2. /\ rs = [i \in 1 .. n |-> c(s[i])] /\ vs = [i \in 1 .. n |-> v(s[i])]
      /\ rt = [i \in 1 .. n + 1 |-> c(t[i])] /\ vt = [i \in 1 .. n + 1 |-> v(t[i])]
  BY <1>1 DEF Records, VmsaRecords
<1> HIDE DEF n, t, c, v, rs, vs, rt, vt
<1>3. rs = [i \in 1 .. n |-> rs[i]] /\ vs = [i \in 1 .. n |-> vs[i]]
  BY <1>2
<1>4. IsSeq(rs) /\ Len(rs) = n
  BY <1>1, <1>3, FunctionIsSeq
<1>5. IsSeq(vs) /\ Len(vs) = n
  BY <1>1, <1>3, FunctionIsSeq
<1>7. rt = Append(rs, c(x))
  <2>0. rt = [i \in 1 .. n + 1 |-> rt[i]] /\ n + 1 \in Nat
    BY <1>1, <1>2
  <2>1. IsSeq(rt) /\ Len(rt) = n + 1
    BY <2>0, FunctionIsSeq
  <2>3. \A i \in 1 .. n : rt[i] = rs[i]
    BY <1>1, <1>2
  <2>2. rt[n + 1] = c(x)
    BY <1>1, <1>2
  <2> QED
    BY <1>1, <1>4, <2>1, <2>2, <2>3, AppendOf
<1>8. vt = Append(vs, v(x))
  <2>0. vt = [i \in 1 .. n + 1 |-> vt[i]] /\ n + 1 \in Nat
    BY <1>1, <1>2
  <2>1. IsSeq(vt) /\ Len(vt) = n + 1
    BY <2>0, FunctionIsSeq
  <2>3. \A i \in 1 .. n : vt[i] = vs[i]
    BY <1>1, <1>2
  <2>2. vt[n + 1] = v(x)
    BY <1>1, <1>2
  <2> QED
    BY <1>1, <1>5, <2>1, <2>2, <2>3, AppendOf
<1> QED
  BY <1>4, <1>5, <1>7, <1>8 DEF rs, vs, rt, vt, t, c, v

PageSet(S) == {d \in S : d.kind = "page"}

\* What the walk needs of a file: its pages are for SNP, at most one directive
\* inserts parameters, and at most one page is before it.
Walkable(S, ds, k) ==
    /\ ds \in Seq(S) /\ k \in 0 .. Len(ds) /\ InsertIsAt(ds, k)
    /\ k # 0 => "snp" \in ds[k].mask /\ AreaSize(ds) \in Nat
    /\ \A i \in 1 .. Len(ds) : ds[i].kind = "page" => "snp" \in ds[i].mask
    /\ \A i, j \in 1 .. Len(ds) : i < j /\ j < k => ~(ds[i].kind = "page" /\ ds[j].kind = "page")

\* The parameters that n directives inserted.
Inserted(ds, k, n) == IF k = 0 \/ n < k THEN <<>> ELSE InsertRecords(ds[k], AreaSize(ds))

\* After n directives log and batch hold the parameters and then the pages.
\* Nothing is flushed before the parameters are in.
WalkHolds(S, ds, k, n, w) ==
    /\ IsWalk(w) /\ IsSeq(w.log) /\ IsSeq(w.batch)
    /\ Cat(w.log, w.batch) = Cat(Inserted(ds, k, n), Records(Keep(SubSeq(ds, 1, n), PageSet(S))))
    /\ n < k => w.log = <<>>
    /\ (\A j \in 1 .. n : ds[j].kind # "page") => w.prev = None
    /\ w.vmsas = VmsaRecords(Keep(SubSeq(ds, 1, n), SnpContextSet(S)))

LEMMA InsertedIsSeq ==
    ASSUME NEW S, NEW ds, NEW k, Walkable(S, ds, k), NEW n
    PROVE  IsSeq(Inserted(ds, k, n)) /\ (k # 0 => IsSeq(InsertRecords(ds[k], AreaSize(ds))))
<1>1. ASSUME k # 0 PROVE IsSeq(InsertRecords(ds[k], AreaSize(ds)))
  <2> DEFINE r == InsertRecords(ds[k], AreaSize(ds))
             z == AreaSize(ds)
  <2>1. z \in Nat
    BY <1>1 DEF Walkable
  <2>2. r = [i \in 1 .. z |-> r[i]]
    BY DEF InsertRecords
  <2> HIDE DEF r, z
  <2>3. IsSeq(r)
    BY <2>1, <2>2, FunctionIsSeq
  <2> QED
    BY <2>3 DEF r
<1> QED
  BY <1>1, EmptyIsSeq DEF Inserted

LEMMA WalkGoesOn ==
    ASSUME NEW S, NEW ds, NEW k, Walkable(S, ds, k), NEW n \in 0 .. Len(ds) - 1, NEW w,
           WalkHolds(S, ds, k, n, w)
    PROVE  WalkHolds(S, ds, k, n + 1, MeasureDirective(w, ds[n + 1], ds))
<1> DEFINE d == ds[n + 1]
           pre == SubSeq(ds, 1, n)
           new == SubSeq(ds, 1, n + 1)
           P == PageSet(S)
           C == SnpContextSet(S)
           x == MeasureDirective(w, d, ds)
           pg == Keep(pre, P)
           cx == Keep(pre, C)
           R == Records(pg)
           I == Inserted(ds, k, n)
           J == Inserted(ds, k, n + 1)
<1>1. ds \in Seq(S) /\ Len(ds) \in Nat /\ k \in 0 .. Len(ds) /\ n + 1 \in 1 .. Len(ds) /\ n \in Nat
  BY DEF Walkable
<1>2. pre \in Seq(S) /\ d \in S /\ new = Append(pre, d)
  BY <1>1
<1>3. /\ d.kind = "insert" <=> n + 1 = k
      /\ d.kind = "page" => "snp" \in d.mask
  BY <1>1 DEF Walkable, InsertIsAt
<1>4. /\ IsWalk(w) /\ IsSeq(w.log) /\ IsSeq(w.batch)
      /\ Cat(w.log, w.batch) = Cat(I, R)
      /\ n < k => w.log = <<>>
      /\ (\A j \in 1 .. n : ds[j].kind # "page") => w.prev = None
      /\ w.vmsas = VmsaRecords(cx)
  BY DEF WalkHolds
<1>5. d \in P <=> d.kind = "page"
  BY <1>2 DEF PageSet
<1>6. d \in C <=> d.kind = "context" /\ "snp" \in d.mask
  BY <1>2 DEF SnpContextSet
<1>7. IsWalk(x)
  BY <1>4, WalkShape
<1>8. IsSeq(I)
  BY InsertedIsSeq
<1>9. n + 1 # k => J = I
  BY <1>1 DEF Inserted
<1> HIDE DEF pre, new, P, C, d, I, J
<1>10. Keep(new, P) = IF d \in P THEN Append(pg, d) ELSE pg
  BY <1>2, KeepAppend
<1>11. Keep(new, C) = IF d \in C THEN Append(cx, d) ELSE cx
  BY <1>2, KeepAppend
<1>12. pg \in Seq(S) /\ cx \in Seq(S)
  BY <1>2, KeepType
<1> HIDE DEF pg, cx, x
<1>13. /\ Records(Append(pg, d)) = Append(R, Classify(d)) /\ IsSeq(R)
  BY <1>2, <1>12, RecordsAppend
<1>14. VmsaRecords(Append(cx, d)) = Append(VmsaRecords(cx), PageInfo("VMSA", VmsaGpa, Vmsa(d.regs)))
  BY <1>2, <1>12, RecordsAppend
<1> HIDE DEF R
\* It suffices to show the parts for the values above.
<1>15. ASSUME IsSeq(x.log), IsSeq(x.batch), Cat(x.log, x.batch) = Cat(J, Records(Keep(new, P))),
              n + 1 < k => x.log = <<>>,
              (\A j \in 1 .. n + 1 : ds[j].kind # "page") => x.prev = None,
              x.vmsas = VmsaRecords(Keep(new, C))
       PROVE  WalkHolds(S, ds, k, n + 1, x)
  BY <1>7, <1>15 DEF WalkHolds, new, P, C, J
<1>16. CASE d.kind = "page"
  <2>1. /\ x.vmsas = w.vmsas
        /\ Continues(w, d) => x.log = w.log /\ x.batch = Append(w.batch, Classify(d))
        /\ ~Continues(w, d) => x.log = w.log \o w.batch /\ x.batch = Append(<<>>, Classify(d))
    BY <1>3, <1>4, <1>16, PageStep DEF x
  <2>2. n + 1 # k /\ d \in P /\ d \notin C
    BY <1>3, <1>5, <1>6, <1>16
  <2>3. x.vmsas = VmsaRecords(Keep(new, C))
    BY <1>4, <1>11, <2>1, <2>2
  <2>4. Records(Keep(new, P)) = Append(R, Classify(d)) /\ J = I
    BY <1>9, <1>10, <1>13, <2>2
  <2>5. n + 1 < k => x.log = <<>>
    <3> SUFFICES ASSUME n + 1 < k PROVE x.log = <<>>
      OBVIOUS
    <3>1. n < k
      BY <1>1
    <3>2. \A j \in 1 .. n : ds[j].kind # "page"
      <4> SUFFICES ASSUME NEW j \in 1 .. n PROVE ds[j].kind # "page"
        OBVIOUS
      <4>1. j \in 1 .. Len(ds) /\ j < n + 1
        BY <1>1
      <4>2. ~(ds[j].kind = "page" /\ ds[n + 1].kind = "page")
        BY <1>1, <4>1 DEF Walkable
      <4> QED
        BY <1>16, <4>2 DEF d
    <3>3. Continues(w, d)
      BY <1>4, <3>2 DEF Continues
    <3> QED
      BY <1>4, <2>1, <3>1, <3>3
  <2>6. (\A j \in 1 .. n + 1 : ds[j].kind # "page") => x.prev = None
    BY <1>1, <1>16 DEF d
  <2> DEFINE c == Classify(d)
             lg == w.log
             bt == w.batch
  <2>7. IsSeq(lg) /\ IsSeq(bt) /\ Cat(lg, bt) = Cat(I, R)
    BY <1>4
  <2>8. /\ Continues(w, d) => x.log = lg /\ x.batch = Append(bt, c)
        /\ ~Continues(w, d) => x.log = Cat(lg, bt) /\ x.batch = Append(<<>>, c)
    BY <2>1 DEF Cat
  <2> HIDE DEF c, lg, bt
  <2>9. Cat(I, Append(R, c)) = Append(Cat(I, R), c)
    BY <1>8, <1>13, CatAppend
  <2>10. IsSeq(x.log) /\ IsSeq(x.batch) /\ Cat(x.log, x.batch) = Append(Cat(I, R), c)
    <3>1. CASE Continues(w, d)
      <4>1. Cat(lg, Append(bt, c)) = Append(Cat(lg, bt), c) /\ IsSeq(Append(bt, c))
        BY <2>7, CatAppend
      <4> QED
        BY <2>7, <2>8, <3>1, <4>1
    <3>2. CASE ~Continues(w, d)
      <4>1. IsSeq(Cat(lg, bt)) /\ IsSeq(<<>>)
        BY <2>7, CatIsSeq, EmptyIsSeq
      <4>2. /\ Cat(Cat(lg, bt), Append(<<>>, c)) = Append(Cat(Cat(lg, bt), <<>>), c)
            /\ IsSeq(Append(<<>>, c))
        <5> DEFINE nil == <<>>
                   z == Cat(lg, bt)
        <5>1. IsSeq(z) /\ IsSeq(nil)
          BY <4>1
        <5> HIDE DEF nil, z
        <5>2. Cat(z, Append(nil, c)) = Append(Cat(z, nil), c) /\ IsSeq(Append(nil, c))
          BY <5>1, CatAppend
        <5> QED
          BY <5>2 DEF nil, z
      <4>3. Cat(Cat(lg, bt), <<>>) = Cat(lg, bt)
        BY <4>1, CatIdentity
      <4> DEFINE e == Append(<<>>, c)
                 z == Cat(lg, bt)
      <4>4. x.log = z /\ x.batch = e
        BY <2>8, <3>2
      <4>5. IsSeq(z) /\ IsSeq(e) /\ Cat(z, e) = Append(z, c) /\ z = Cat(I, R)
        BY <2>7, <4>1, <4>2, <4>3
      <4> HIDE DEF e, z
      <4> QED
        BY <4>4, <4>5
    <3> QED
      BY <3>1, <3>2
  <2>11. Cat(x.log, x.batch) = Cat(J, Records(Keep(new, P)))
    BY <2>4, <2>9, <2>10 DEF c
  <2>12. IsSeq(x.log) /\ IsSeq(x.batch)
    BY <2>10
  <2> QED
    BY <1>15, <2>3, <2>5, <2>6, <2>11, <2>12 DEF x, d
<1>17. CASE d.kind = "insert" /\ "snp" \in d.mask
  <2> DEFINE r == InsertRecords(d, AreaSize(ds))
  <2>1. x.log = w.log \o r /\ x.vmsas = w.vmsas /\ x.batch = w.batch /\ x.prev = w.prev
    BY <1>4, <1>17, InsertStep DEF x
  <2>2. n + 1 = k /\ n < k /\ k # 0 /\ d \notin P /\ d \notin C
    BY <1>1, <1>3, <1>5, <1>6, <1>17
  <2>3. J = r /\ I = <<>>
    BY <2>2 DEF J, I, Inserted, d
  <2>4. IsSeq(r)
    BY <2>2, InsertedIsSeq DEF d
  <2> HIDE DEF r
  <2>5. w.log = <<>>
    BY <1>4, <2>2
  <2>6. x.log = r
    BY <2>1, <2>4, <2>5, CatIdentity DEF Cat
  <2>7. w.batch = R
    BY <1>4, <1>13, <2>3, <2>5, CatIdentity
  <2>8. Keep(new, P) = pg /\ Keep(new, C) = cx
    BY <1>10, <1>11, <2>2
  <2>9. Cat(x.log, x.batch) = Cat(J, Records(Keep(new, P)))
    BY <2>1, <2>3, <2>6, <2>7, <2>8 DEF R
  <2>10. n + 1 < k => x.log = <<>>
    BY <1>1, <2>2
  <2>11. (\A j \in 1 .. n + 1 : ds[j].kind # "page") => x.prev = None
    BY <1>1, <1>4, <2>1
  <2>12. x.vmsas = VmsaRecords(Keep(new, C))
    BY <1>4, <2>1, <2>8
  <2>13. IsSeq(x.log) /\ IsSeq(x.batch)
    BY <1>4, <2>1, <2>4, <2>6
  <2> QED
    BY <1>15, <2>9, <2>10, <2>11, <2>12, <2>13 DEF x, d
<1>18. CASE d.kind = "context" /\ "snp" \in d.mask
  <2>1. /\ x.vmsas = Append(w.vmsas, PageInfo("VMSA", VmsaGpa, Vmsa(d.regs)))
        /\ x.log = w.log /\ x.batch = w.batch /\ x.prev = w.prev
    BY <1>4, <1>18, ContextStep DEF x
  <2>2. n + 1 # k /\ d \notin P /\ d \in C
    BY <1>3, <1>5, <1>6, <1>18
  <2>3. Keep(new, P) = pg /\ Keep(new, C) = Append(cx, d) /\ J = I
    BY <1>9, <1>10, <1>11, <2>2
  <2>4. Cat(x.log, x.batch) = Cat(J, Records(Keep(new, P)))
    BY <1>4, <2>1, <2>3 DEF R
  <2>5. n + 1 < k => x.log = <<>>
    BY <1>1, <1>4, <2>1
  <2>6. (\A j \in 1 .. n + 1 : ds[j].kind # "page") => x.prev = None
    BY <1>1, <1>4, <2>1
  <2>7. x.vmsas = VmsaRecords(Keep(new, C))
    BY <1>4, <1>14, <2>1, <2>3
  <2>8. IsSeq(x.log) /\ IsSeq(x.batch)
    BY <1>4, <2>1
  <2> QED
    BY <1>15, <2>4, <2>5, <2>6, <2>7, <2>8 DEF x, d
<1>19. CASE d.kind # "page" /\ ~(d.kind \in {"insert", "context"} /\ "snp" \in d.mask)
  <2>1. x.log = w.log /\ x.vmsas = w.vmsas /\ x.batch = w.batch /\ x.prev = w.prev
    BY <1>4, <1>19, OtherStep DEF x
  <2>2. d \notin P /\ d \notin C
    BY <1>5, <1>6, <1>19
  <2>3. n + 1 # k
    <3> SUFFICES ASSUME n + 1 = k PROVE FALSE
      OBVIOUS
    <3>1. d.kind = "insert" /\ "snp" \in d.mask
      BY <1>1, <1>3 DEF Walkable, d
    <3> QED
      BY <1>19, <3>1
  <2>4. Keep(new, P) = pg /\ Keep(new, C) = cx /\ J = I
    BY <1>9, <1>10, <1>11, <2>2, <2>3
  <2>5. Cat(x.log, x.batch) = Cat(J, Records(Keep(new, P)))
    BY <1>4, <2>1, <2>4 DEF R
  <2>6. n + 1 < k => x.log = <<>>
    BY <1>1, <1>4, <2>1
  <2>7. (\A j \in 1 .. n + 1 : ds[j].kind # "page") => x.prev = None
    BY <1>1, <1>4, <2>1
  <2>8. x.vmsas = VmsaRecords(Keep(new, C))
    BY <1>4, <2>1, <2>4
  <2>9. IsSeq(x.log) /\ IsSeq(x.batch)
    BY <1>4, <2>1
  <2> QED
    BY <1>15, <2>5, <2>6, <2>7, <2>8, <2>9 DEF x, d
<1> QED
  BY <1>16, <1>17, <1>18, <1>19

LEMMA WalkedSteps ==
    ASSUME NEW ds, Len(ds) \in Nat
    PROVE  /\ Walked(ds)[0] = NewWalk
           /\ \A n \in 1 .. Len(ds) : Walked(ds)[n] = MeasureDirective(Walked(ds)[n - 1], ds[n], ds)
<1> DEFINE P == Walked(ds)
           N == Len(ds)
<1>1. IsWalked(P, ds)
  BY WalkedExists
<1> HIDE DEF P
<1>2. P[0] = NewWalk
  BY <1>1 DEF IsWalked
<1>3. ASSUME NEW n \in 1 .. N PROVE P[n] = MeasureDirective(P[n - 1], ds[n], ds)
  <2>1. n \in 0 .. N /\ n # 0
    OBVIOUS
  <2> QED
    BY <1>1, <2>1 DEF IsWalked
<1> QED
  BY <1>2, <1>3 DEF P

LEMMA DigestIs ==
    ASSUME NEW S, NEW ds, NEW k, Walkable(S, ds, k)
    PROVE  Digest(ds) = Cat(Cat(Inserted(ds, k, Len(ds)), Records(Keep(ds, PageSet(S)))),
                            VmsaRecords(Keep(ds, SnpContextSet(S))))
<1> DEFINE N == Len(ds)
           P == Walked(ds)
           H(n) == WalkHolds(S, ds, k, n, P[n])
           T == {n \in Nat : n <= N => H(n)}
<1>1. ds \in Seq(S) /\ N \in Nat /\ k \in 0 .. N
  BY DEF Walkable
<1>2. P[0] = NewWalk /\ \A n \in 1 .. N : P[n] = MeasureDirective(P[n - 1], ds[n], ds)
  BY <1>1, WalkedSteps
<1>3. Digest(ds) = MeasureRest(P[N]).log
  BY DEF Digest, Walked, IsWalked
<1>4. SubSeq(ds, 1, N) = ds
  BY <1>1
<1>5. SubSeq(ds, 1, 0) = <<>>
  BY <1>1
<1> HIDE DEF P, N
<1>6. P[0] = NewWalk
  BY <1>1, <1>2
<1>7. H(0)
  <2> DEFINE w == NewWalk
  <2>1. w.log = <<>> /\ w.batch = <<>> /\ w.prev = None /\ w.vmsas = <<>> /\ IsWalk(w)
    BY DEF NewWalk, IsWalk
  <2>2. \A V : Keep(SubSeq(ds, 1, 0), V) = <<>>
    BY <1>5, KeepEmpty
  <2>3. Records(<<>>) = <<>> /\ VmsaRecords(<<>>) = <<>>
    BY DEF Records, VmsaRecords
  <2>4. Inserted(ds, k, 0) = <<>>
    BY <1>1 DEF Inserted
  <2>5. WalkHolds(S, ds, k, 0, w)
    <3> HIDE DEF w
    <3> QED
      BY <2>1, <2>2, <2>3, <2>4, EmptyIsSeq DEF WalkHolds
  <2> QED
    BY <1>6, <2>5
<1>8. ASSUME NEW n \in Nat, n + 1 <= N, H(n) PROVE H(n + 1)
  <2>1. n \in 0 .. Len(ds) - 1 /\ n + 1 \in 0 .. N /\ n + 1 # 0 /\ n + 1 - 1 = n
    <3> HIDE DEF H
    <3>1. Len(ds) = N
      BY DEF N
    <3> QED
      BY <1>1, <1>8, <3>1
  <2>2. P[n + 1] = MeasureDirective(P[n], ds[n + 1], ds)
    <3> HIDE DEF H
    <3> DEFINE q == n + 1
    <3>1. q \in 1 .. N /\ q - 1 = n
      BY <1>1, <1>8
    <3> HIDE DEF q
    <3>2. P[q] = MeasureDirective(P[q - 1], ds[q], ds)
      BY <1>2, <3>1
    <3> QED
      BY <3>1, <3>2 DEF q
  <2>3. WalkHolds(S, ds, k, n + 1, MeasureDirective(P[n], ds[n + 1], ds))
    BY <1>8, <2>1, WalkGoesOn
  <2> QED
    BY <2>2, <2>3
<1> HIDE DEF H
<1>9. 0 \in T
  BY <1>7
<1>10. ASSUME NEW n \in Nat, n \in T PROVE n + 1 \in T
  <2> SUFFICES ASSUME n + 1 <= N PROVE H(n + 1)
    OBVIOUS
  <2>1. n <= N
    BY <1>1
  <2>2. H(n)
    BY <1>10, <2>1
  <2> QED
    BY <1>8, <2>2
<1> HIDE DEF T
<1>11. Nat \subseteq T
  BY <1>9, <1>10, SetInduction
<1>12. N \in T
  BY <1>1, <1>11
<1>13. H(N)
  BY <1>1, <1>12 DEF T
<1> DEFINE w == P[N]
           lg == w.log
           bt == w.batch
           vm == w.vmsas
           R == Records(Keep(ds, PageSet(S)))
           V == VmsaRecords(Keep(ds, SnpContextSet(S)))
           I == Inserted(ds, k, N)
<1>14. /\ IsWalk(w) /\ IsSeq(lg) /\ IsSeq(bt) /\ Cat(lg, bt) = Cat(I, R) /\ vm = V
  BY <1>4, <1>13 DEF H, WalkHolds
<1>15. MeasureRest(w).log = (lg \o bt) \o vm
  <2>1. DOMAIN w = {"at", "log", "batch", "prev", "vmsas"}
    BY <1>14 DEF IsWalk
  <2> HIDE DEF w
  <2>2. MeasureRest(w).log = lg \o bt \o vm
    BY <2>1 DEF MeasureRest
  <2> QED
    BY <2>2
<1>16. MeasureRest(w).log = Cat(Cat(lg, bt), vm)
  BY <1>15 DEF Cat
<1> HIDE DEF w, lg, bt, vm, R, V, I
<1>17. Digest(ds) = Cat(Cat(I, R), V)
  BY <1>3, <1>14, <1>16 DEF w
<1> QED
  BY <1>17 DEF I, R, V, N

\* The records of the parameters.
ParamRecords(a, m) ==
    IF OfType(m, "IgvmParamArea") = <<>> THEN <<>>
    ELSE InsertRecords(InsertDirective(a, m), FirstArea(m).size)

\* K lists the pages of the file in ascending order.
PageListOf(K, ds) ==
    /\ IsSeq(K) /\ ToSet(K) = {d \in ToSet(ds) : d.kind = "page"}
    /\ \A i, j \in 1 .. Len(K) : i < j => K[i].gpa < K[j].gpa

LEMMA FileDigest ==
    ASSUME NEW a, NEW m, NEW bs, Ready(a, m, bs), "snp" \in Mask(a), NEW ds,
           ds = SortPages(Placed(a, m, bs))
    PROVE  \E K : /\ PageListOf(K, ds)
                  /\ Digest(ds) = Cat(Cat(ParamRecords(a, m), Records(K)), VmsaRecords(VpContexts(a, m)))
<1>1. PICK S : ds \in Seq(S) /\ Keep(ds, SnpContextSet(S)) = VpContexts(a, m)
  BY FileParts
<1>2. PICK k \in 0 .. Len(ds) :
             /\ InsertIsAt(ds, k)
             /\ k = 0 <=> OfType(m, "IgvmParamArea") = <<>>
             /\ k # 0 => ds[k] = InsertDirective(a, m) /\ AreaSize(ds) = FirstArea(m).size
  BY FileInserts
<1>3. /\ \A i \in 1 .. Len(ds) : ds[i].kind = "page" =>
                ds[i].gpa \in 0 .. FourG - 1 /\ PageShape(ds[i], ds[i].gpa)
      /\ \A i, j \in 1 .. Len(ds) : i < j /\ ds[i].kind = "page" =>
                /\ ds[j].kind = "page" => ds[i].gpa < ds[j].gpa
                /\ ds[j].kind # "page" => ds[i].gpa = 0
  BY FilePages
<1>4. a \in Builds /\ m = ParseMeta(a.firmware)
  BY ReadyFacts
<1>5. OfType(m, "IgvmParamArea") # <<>> => FirstArea(m).size \in Nat
  <2> SUFFICES ASSUME OfType(m, "IgvmParamArea") # <<>> PROVE FirstArea(m).size \in Nat
    OBVIOUS
  <2>1. IsSeq(RegionsOf(m)) /\ \A r \in ToSet(RegionsOf(m)) : r.size \in Nat
    BY <1>4, RegionFacts
  <2>2. FirstArea(m) \in ToSet(RegionsOf(m))
    BY <2>1, OfTypeFacts DEF FirstArea
  <2> QED
    BY <2>1, <2>2
<1>6. Len(ds) \in Nat
  BY <1>1
<1>7. Walkable(S, ds, k)
  <2>1. k # 0 => "snp" \in ds[k].mask /\ AreaSize(ds) \in Nat
    BY <1>2, <1>5 DEF InsertDirective, ParameterInsert
  <2>2. \A i \in 1 .. Len(ds) : ds[i].kind = "page" => "snp" \in ds[i].mask
    BY <1>3 DEF PageShape
  <2>3. ASSUME NEW i \in 1 .. Len(ds), NEW j \in 1 .. Len(ds), i < j, j < k,
               ds[i].kind = "page", ds[j].kind = "page"
        PROVE  FALSE
    <3>1. k \in 1 .. Len(ds) /\ i < k
      BY <1>2, <1>6, <2>3
    <3>2. ds[k].kind # "page"
      BY <1>2, <3>1 DEF InsertIsAt
    <3>3. ds[i].gpa = 0 /\ ds[j].gpa = 0 /\ ds[i].gpa < ds[j].gpa
      BY <1>3, <2>3, <3>1, <3>2
    <3> QED
      BY <3>3
  <2> QED
    BY <1>1, <1>2, <2>1, <2>2, <2>3 DEF Walkable
<1>8. Inserted(ds, k, Len(ds)) = ParamRecords(a, m)
  <2>1. ~(Len(ds) < k)
    BY <1>2, <1>6
  <2>2. CASE k = 0
    BY <1>2, <2>2 DEF Inserted, ParamRecords
  <2>3. CASE k # 0
    <3>1. OfType(m, "IgvmParamArea") # <<>> /\ ds[k] = InsertDirective(a, m) /\ AreaSize(ds) = FirstArea(m).size
      BY <1>2, <2>3
    <3>2. Inserted(ds, k, Len(ds)) = InsertRecords(ds[k], AreaSize(ds))
      BY <2>1, <2>3 DEF Inserted
    <3> QED
      BY <3>1, <3>2 DEF ParamRecords
  <2> QED
    BY <2>2, <2>3
<1> DEFINE V == PageSet(S)
           K == Keep(ds, V)
           R == {p \in S \X S : p[1].gpa < p[2].gpa}
<1>9. \A i \in 1 .. Len(ds) : ds[i] \in V <=> ds[i].kind = "page"
  BY <1>1 DEF PageSet
<1>10. ASSUME NEW i \in 1 .. Len(ds), NEW j \in 1 .. Len(ds), i < j, ds[i] \in V, ds[j] \in V
       PROVE  <<ds[i], ds[j]>> \in R
  <2>1. ds[i].gpa < ds[j].gpa
    BY <1>3, <1>9, <1>10
  <2>2. ds[i] \in S /\ ds[j] \in S
    BY <1>1
  <2> QED
    BY <2>1, <2>2
<1>11. \A x, y : <<x, y>> \in R => x.gpa < y.gpa
  OBVIOUS
<1> HIDE DEF V, R
<1>12. \A i, j \in 1 .. Len(K) : i < j => <<K[i], K[j]>> \in R
  BY <1>1, <1>10, KeepOrdered
<1>13. ToSet(K) = ToSet(ds) \cap V
  BY <1>1, KeepElements
<1>14. ToSet(ds) = {ds[i] : i \in 1 .. Len(ds)}
  BY <1>1, ElementsOf
<1>15. K \in Seq(S)
  BY <1>1, KeepType
<1>16. IsSeq(K)
  BY <1>15, SeqIsSeq
<1>17. PageListOf(K, ds)
  <2>1. ToSet(K) = {d \in ToSet(ds) : d.kind = "page"}
    BY <1>9, <1>13, <1>14
  <2> HIDE DEF K
  <2>2. \A i, j \in 1 .. Len(K) : i < j => K[i].gpa < K[j].gpa
    BY <1>11, <1>12
  <2> QED
    BY <1>16, <2>1, <2>2 DEF PageListOf
<1>18. Digest(ds) = Cat(Cat(Inserted(ds, k, Len(ds)), Records(Keep(ds, PageSet(S)))),
                        VmsaRecords(Keep(ds, SnpContextSet(S))))
  BY <1>7, DigestIs
<1>19. Digest(ds) = Cat(Cat(ParamRecords(a, m), Records(K)), VmsaRecords(VpContexts(a, m)))
  BY <1>1, <1>8, <1>18 DEF V
<1> QED
  BY <1>17, <1>19

-----------------------------------------------------------------------------
(* The digest of a file. *)

LEMMA ThreeParts ==
    ASSUME NEW a, NEW b, NEW c, IsSeq(a), IsSeq(b), IsSeq(c), NEW t, t = Cat(Cat(a, b), c)
    PROVE  /\ Len(a) \in Nat /\ Len(b) \in Nat /\ Len(c) \in Nat
           /\ Len(t) = Len(a) + Len(b) + Len(c) /\ IsSeq(t)
           /\ \A i \in 1 .. Len(a) : t[i] = a[i]
           /\ \A i \in 1 .. Len(b) : t[Len(a) + i] = b[i]
           /\ \A i \in 1 .. Len(c) : t[Len(a) + Len(b) + i] = c[i]
<1> DEFINE S == ToSet(a) \cup ToSet(b) \cup ToSet(c)
           e == Cat(a, b)
           la == Len(a)
           lb == Len(b)
           lc == Len(c)
           le == Len(e)
<1>1. /\ a \in Seq(ToSet(a)) /\ b \in Seq(ToSet(b)) /\ c \in Seq(ToSet(c))
      /\ ToSet(a) \subseteq S /\ ToSet(b) \subseteq S /\ ToSet(c) \subseteq S
  BY DEF IsSeq
<1> HIDE DEF S
<1>2. a \in Seq(S)
  BY <1>1, SeqLarger
<1>3. b \in Seq(S)
  BY <1>1, SeqLarger
<1>4. c \in Seq(S)
  BY <1>1, SeqLarger
<1>5. e \in Seq(S) /\ le = la + lb
  BY <1>2, <1>3, CatType
<1>6. (\A i \in 1 .. la : e[i] = a[i]) /\ (\A i \in 1 .. lb : e[la + i] = b[i])
  BY <1>2, <1>3, CatFacts
<1>7. la \in Nat /\ lb \in Nat /\ lc \in Nat
  BY <1>2, <1>3, <1>4
<1> HIDE DEF e
<1>8. Cat(e, c) \in Seq(S) /\ Len(Cat(e, c)) = le + lc
  BY <1>4, <1>5, CatType
<1>9. (\A i \in 1 .. le : Cat(e, c)[i] = e[i]) /\ (\A i \in 1 .. lc : Cat(e, c)[le + i] = c[i])
  <2>1. e \in Seq(S)
    BY <1>5
  <2> QED
    BY <1>4, <2>1, CatFacts
<1>10. t = Cat(e, c)
  BY DEF e
<1>11. IsSeq(t)
  BY <1>8, <1>10, SeqIsSeq
<1> HIDE DEF la, lb, lc, le
<1>12. \A i \in 1 .. la : t[i] = a[i]
  <2> SUFFICES ASSUME NEW i \in 1 .. la PROVE t[i] = a[i]
    OBVIOUS
  <2>1. i \in 1 .. le
    BY <1>5, <1>7
  <2>2. Cat(e, c)[i] = e[i] /\ e[i] = a[i]
    BY <1>6, <1>9, <2>1
  <2> QED
    BY <1>10, <2>2
<1>13. \A i \in 1 .. lb : t[la + i] = b[i]
  <2> SUFFICES ASSUME NEW i \in 1 .. lb PROVE t[la + i] = b[i]
    OBVIOUS
  <2>1. la + i \in 1 .. le
    BY <1>5, <1>7
  <2> QED
    BY <1>6, <1>9, <1>10, <2>1
<1>14. \A i \in 1 .. lc : t[la + lb + i] = c[i]
  BY <1>5, <1>9, <1>10
<1>15. Len(t) = la + lb + lc
  BY <1>5, <1>8, <1>10
<1> QED
  BY <1>7, <1>11, <1>12, <1>13, <1>14, <1>15 DEF la, lb, lc

LEMMA ClassifyFacts ==
    ASSUME NEW d, d.type \in {"NORMAL", "SECRETS", "CPUID"}
    PROVE  /\ Classify(d).gpa = d.gpa /\ Classify(d).type # "VMSA"
           /\ d.type # "NORMAL" \/ d.measured => Classify(d).type = d.type
           /\ d.type = "NORMAL" /\ d.measured /\ d.data # None => Classify(d).contents = d.data
<1>1. CASE d.type # "NORMAL"
  BY <1>1 DEF Classify, PageInfo
<1>2. CASE d.type = "NORMAL" /\ ~d.measured
  BY <1>2 DEF Classify, PageInfo
<1>3. CASE d.type = "NORMAL" /\ d.measured
  BY <1>3 DEF Classify, PageInfo
<1> QED
  BY <1>1, <1>2, <1>3

LEMMA VmsaFacts ==
    ASSUME NEW a, a.smp \in Nat, NEW m
    PROVE  /\ IsSeq(VmsaRecords(VpContexts(a, m))) /\ Len(VmsaRecords(VpContexts(a, m))) = a.smp
           /\ \A i \in 1 .. a.smp :
                /\ VmsaRecords(VpContexts(a, m))[i].type = "VMSA"
                /\ VmsaRecords(VpContexts(a, m))[i].contents.regs =
                     IF i = 1 THEN BootRegs(a.mode) ELSE RealModeRegs(m.reset)
<1> DEFINE n == a.smp
           r(i) == IF i = 1 THEN BootRegs(a.mode) ELSE RealModeRegs(m.reset)
           v == VpContexts(a, m)
           w == VmsaRecords(v)
<1>1. v = [i \in 1 .. n |-> Context({"snp"}, r(i))]
  BY DEF VpContexts
<1> HIDE DEF r
<1>2. w = [i \in 1 .. n |-> PageInfo("VMSA", VmsaGpa, Vmsa(Context({"snp"}, r(i)).regs))]
  BY <1>1 DEF VmsaRecords
<1>3. \A i \in 1 .. n : w[i].type = "VMSA" /\ w[i].contents.regs = r(i)
  BY <1>2 DEF PageInfo, Vmsa, Context
<1>4. w = [i \in 1 .. n |-> w[i]]
  BY <1>2
<1> HIDE DEF w
<1>5. IsSeq(w) /\ Len(w) = n
  BY <1>4, FunctionIsSeq
<1> QED
  BY <1>3, <1>5 DEF w, r

LEMMA RecordFacts ==
    ASSUME NEW K, IsSeq(K)
    PROVE  /\ IsSeq(Records(K)) /\ Len(Records(K)) = Len(K) /\ Len(K) \in Nat
           /\ \A i \in 1 .. Len(K) : Records(K)[i] = Classify(K[i]) /\ K[i] \in ToSet(K)
           /\ ToSet(K) = {K[i] : i \in 1 .. Len(K)}
<1> DEFINE n == Len(K)
           r == Records(K)
<1>1. n \in Nat /\ DOMAIN K = 1 .. n
  BY DEF IsSeq
<1>2. r = [i \in 1 .. n |-> r[i]] /\ \A i \in 1 .. n : r[i] = Classify(K[i])
  BY <1>1 DEF Records
<1>3. ToSet(K) = {K[i] : i \in 1 .. n}
  BY ElementsOf DEF IsSeq
<1> HIDE DEF n, r
<1>4. IsSeq(r) /\ Len(r) = n
  BY <1>1, <1>2, FunctionIsSeq
<1> QED
  BY <1>1, <1>2, <1>3, <1>4 DEF n, r

(* The pages of a parameter area are in the digest once: as parameters. *)
LEMMA ParamFacts ==
    ASSUME NEW a, NEW m, NEW bs, Ready(a, m, bs), "snp" \in Mask(a), NEW ds,
           ds = SortPages(Placed(a, m, bs)), OfType(m, "IgvmParamArea") # <<>>
    PROVE  /\ FirstArea(m).base \in Nat /\ FirstArea(m).size \in Nat
           /\ FirstArea(m) \in ToSet(RegionsOf(m)) /\ FirstArea(m).type = "IgvmParamArea"
           /\ IsSeq(ParamRecords(a, m)) /\ Len(ParamRecords(a, m)) = FirstArea(m).size
           /\ \A i \in 1 .. FirstArea(m).size :
                /\ ParamRecords(a, m)[i].gpa = FirstArea(m).base + i - 1
                /\ ParamRecords(a, m)[i].type = "UNMEASURED"
                /\ \A d \in ToSet(ds) : d.kind = "page" => d.gpa # FirstArea(m).base + i - 1
<1> DEFINE r == FirstArea(m)
           b == r.base
           z == r.size
           q == ParamRecords(a, m)
<1>1. a \in Builds /\ m = ParseMeta(a.firmware)
  BY ReadyFacts
<1>2. IsSeq(RegionsOf(m)) /\ \A p \in ToSet(RegionsOf(m)) : p.base \in Nat /\ p.size \in Nat \ {0}
  BY <1>1, RegionFacts
<1>3. r \in ToSet(RegionsOf(m)) /\ r.type = "IgvmParamArea" /\ r \in ToSet(OfType(m, "IgvmParamArea"))
  BY <1>2, OfTypeFacts DEF FirstArea
<1>4. b \in Nat /\ z \in Nat
  BY <1>2, <1>3
<1>5. InsertDirective(a, m).gpa = b
  BY DEF InsertDirective, ParameterInsert
<1>6. q = [i \in 1 .. z |-> PageInfo("UNMEASURED", b + i - 1, "zeros")]
  BY <1>5 DEF ParamRecords, InsertRecords
<1> HIDE DEF b, z
<1>7. q = [i \in 1 .. z |-> q[i]] /\ \A i \in 1 .. z : q[i].gpa = b + i - 1 /\ q[i].type = "UNMEASURED"
  BY <1>6 DEF PageInfo
<1> HIDE DEF q
<1>8. IsSeq(q) /\ Len(q) = z
  BY <1>4, <1>7, FunctionIsSeq
<1>9. IsSeq(ds)
  BY FileRight
<1>10. ASSUME NEW i \in 1 .. z, NEW d \in ToSet(ds), d.kind = "page", d.gpa = b + i - 1 PROVE FALSE
  <2> DEFINE g == b + i - 1
  <2>1. g \in Nat /\ g >= b /\ g < b + z
    BY <1>4
  <2> HIDE DEF g
  <2>2. InArea(r, g)
    BY <2>1 DEF InArea, b, z
  <2>3. Covered(m, g)
    BY <1>3, <2>2 DEF Covered
  <2>4. g < DataBase
    BY <1>1, <1>3, <2>1, <2>2, RegionsLow
  <2>5. g \in 0 .. FourG - 1
    BY <2>1, <2>4, LayoutAssumption
  <2>6. PagesAt(ds, g) = <<>>
    BY <2>3, <2>5, FileAt
  <2>7. ToSet(ds) = {ds[j] : j \in 1 .. Len(ds)}
    BY <1>9, ElementsOf DEF IsSeq
  <2>8. PICK j \in 1 .. Len(ds) : d = ds[j]
    BY <2>7
  <2>9. PagesAt(ds, ds[j].gpa) # <<>>
    BY <1>9, <1>10, <2>8, PageFound
  <2> QED
    BY <1>10, <2>6, <2>8, <2>9 DEF g
<1> QED
  BY <1>3, <1>4, <1>7, <1>8, <1>10 DEF b, z, q

\* What a digest is made of: the parameters, the pages and the vCPUs.
DigestOf(log, a, m, K) ==
    log = Cat(Cat(ParamRecords(a, m), Records(K)), VmsaRecords(VpContexts(a, m)))
ParamCount(m) == IF OfType(m, "IgvmParamArea") = <<>> THEN 0 ELSE FirstArea(m).size

LEMMA DigestFacts ==
    ASSUME NEW a, NEW m, NEW bs, Ready(a, m, bs), "snp" \in Mask(a), NEW ds,
           ds = SortPages(Placed(a, m, bs)), NEW K, PageListOf(K, ds), NEW log, DigestOf(log, a, m, K)
    PROVE  /\ IsSeq(log) /\ Len(K) \in Nat /\ ParamCount(m) \in Nat /\ a.smp \in Nat \ {0}
           /\ Len(log) = ParamCount(m) + Len(K) + a.smp
           /\ \A i \in 1 .. ParamCount(m) : log[i] = ParamRecords(a, m)[i]
           /\ \A i \in 1 .. Len(K) :
                /\ log[ParamCount(m) + i] = Classify(K[i]) /\ K[i] \in ToSet(ds)
                /\ K[i].kind = "page" /\ K[i].gpa \in 0 .. FourG - 1 /\ PageShape(K[i], K[i].gpa)
           /\ \A i \in 1 .. a.smp :
                /\ log[ParamCount(m) + Len(K) + i].type = "VMSA"
                /\ log[ParamCount(m) + Len(K) + i].contents.regs =
                     IF i = 1 THEN BootRegs(a.mode) ELSE RealModeRegs(m.reset)
<1> DEFINE I == ParamRecords(a, m)
           Q == Records(K)
           W == VmsaRecords(VpContexts(a, m))
           p == ParamCount(m)
<1>1. a.smp \in Nat \ {0}
  BY ReadyFacts
<1>2. IsSeq(I) /\ Len(I) = p /\ p \in Nat
  <2>1. CASE OfType(m, "IgvmParamArea") = <<>>
    <3>1. I = <<>> /\ p = 0 /\ Len(<<>>) = 0
      BY <2>1 DEF ParamRecords, ParamCount
    <3> QED
      BY <3>1, EmptyIsSeq
  <2>2. CASE OfType(m, "IgvmParamArea") # <<>>
    <3>1. IsSeq(I) /\ Len(I) = FirstArea(m).size /\ FirstArea(m).size \in Nat
      BY <2>2, ParamFacts
    <3>2. p = FirstArea(m).size
      BY <2>2 DEF ParamCount
    <3> QED
      BY <3>1, <3>2
  <2> QED
    BY <2>1, <2>2
<1>3. /\ IsSeq(W) /\ Len(W) = a.smp
      /\ \A i \in 1 .. a.smp : /\ W[i].type = "VMSA"
                               /\ W[i].contents.regs = IF i = 1 THEN BootRegs(a.mode) ELSE RealModeRegs(m.reset)
  BY <1>1, VmsaFacts
<1>4. IsSeq(K) /\ ToSet(K) = {d \in ToSet(ds) : d.kind = "page"}
  BY DEF PageListOf
<1>5. /\ IsSeq(Q) /\ Len(Q) = Len(K) /\ Len(K) \in Nat
      /\ \A i \in 1 .. Len(K) : Q[i] = Classify(K[i]) /\ K[i] \in ToSet(K)
  BY <1>4, RecordFacts
<1>6. /\ IsSeq(ds)
      /\ \A i \in 1 .. Len(ds) : ds[i].kind = "page" =>
           ds[i].gpa \in 0 .. FourG - 1 /\ PageShape(ds[i], ds[i].gpa)
  BY FilePages
<1>7. ToSet(ds) = {ds[i] : i \in 1 .. Len(ds)}
  BY <1>6, ElementsOf DEF IsSeq
<1>8. \A d \in ToSet(K) : /\ d \in ToSet(ds) /\ d.kind = "page"
                          /\ d.gpa \in 0 .. FourG - 1 /\ PageShape(d, d.gpa)
  BY <1>4, <1>6, <1>7
<1>9. log = Cat(Cat(I, Q), W)
  BY DEF DigestOf
<1> HIDE DEF I, Q, W, p
<1>10. /\ IsSeq(log) /\ Len(log) = Len(I) + Len(Q) + Len(W)
       /\ \A i \in 1 .. Len(I) : log[i] = I[i]
       /\ \A i \in 1 .. Len(Q) : log[Len(I) + i] = Q[i]
       /\ \A i \in 1 .. Len(W) : log[Len(I) + Len(Q) + i] = W[i]
  <2>1. IsSeq(I) /\ IsSeq(Q) /\ IsSeq(W)
    BY <1>2, <1>3, <1>5
  <2> QED
    BY <1>9, <2>1, ThreeParts
<1>11. Len(I) = p /\ Len(Q) = Len(K) /\ Len(W) = a.smp
  BY <1>2, <1>3, <1>5
<1>12. /\ Len(log) = p + Len(K) + a.smp
       /\ \A i \in 1 .. p : log[i] = I[i]
       /\ \A i \in 1 .. Len(K) : log[p + i] = Q[i]
       /\ \A i \in 1 .. a.smp : log[p + Len(K) + i] = W[i]
  BY <1>10, <1>11
<1>13. \A i \in 1 .. Len(K) :
         /\ log[p + i] = Classify(K[i]) /\ K[i] \in ToSet(ds)
         /\ K[i].kind = "page" /\ K[i].gpa \in 0 .. FourG - 1 /\ PageShape(K[i], K[i].gpa)
  BY <1>5, <1>8, <1>12
<1>14. \A i \in 1 .. a.smp :
         /\ log[p + Len(K) + i].type = "VMSA"
         /\ log[p + Len(K) + i].contents.regs = IF i = 1 THEN BootRegs(a.mode) ELSE RealModeRegs(m.reset)
  BY <1>3, <1>12
<1> QED
  BY <1>1, <1>2, <1>5, <1>10, <1>12, <1>13, <1>14 DEF I, p

LEMMA BuiltDigest ==
    ASSUME BuildInv, WalkInv, Built
    PROVE  /\ Ready(args, meta, blobs) /\ "snp" \in Mask(args)
           /\ directives = SortPages(Placed(args, meta, blobs)) /\ ApsCanStart
           /\ \E K : PageListOf(K, directives) /\ DigestOf(walk.log, args, meta, K)
<1>1. /\ Ready(args, meta, blobs) /\ directives = SortPages(Placed(args, meta, blobs))
      /\ UsesSnp /\ ApsCanStart
  BY BuiltIsReady
<1>2. "snp" \in Mask(args)
  BY <1>1 DEF UsesSnp, Mask
<1>3. walk.log = Digest(directives)
  BY DEF WalkInv, Built
<1>4. \E K : /\ PageListOf(K, directives)
             /\ Digest(directives) = Cat(Cat(ParamRecords(args, meta), Records(K)),
                                         VmsaRecords(VpContexts(args, meta)))
  BY <1>1, <1>2, FileDigest
<1> QED
  BY <1>1, <1>2, <1>3, <1>4 DEF DigestOf

LEMMA RealModeAddress ==
    ASSUME NEW addr \in Nat
    PROVE  RealModeRegs(addr).base + RealModeRegs(addr).rip = addr
<1> DEFINE q == addr % SegmentSize
<1>1. q \in Nat
  BY LayoutAssumption
<1>2. RealModeRegs(addr).base = addr - q /\ RealModeRegs(addr).rip = q
  BY DEF RealModeRegs
<1> HIDE DEF q
<1> QED
  BY <1>1, <1>2

LEMMA OrderIsRight == BuildInv /\ WalkInv => MeasuredInOrder
<1> SUFFICES ASSUME BuildInv, WalkInv, Built PROVE MeasuredInOrder
  BY DEF MeasuredInOrder
<1> DEFINE log == walk.log
           p == ParamCount(meta)
           n == args.smp
<1>1. /\ Ready(args, meta, blobs) /\ "snp" \in Mask(args)
      /\ directives = SortPages(Placed(args, meta, blobs)) /\ ApsCanStart
  BY BuiltDigest
<1>2. PICK K : PageListOf(K, directives) /\ DigestOf(log, args, meta, K)
  BY BuiltDigest
<1> DEFINE k == Len(K)
           v == Len(log) - n
<1>3. /\ k \in Nat /\ p \in Nat /\ n \in Nat \ {0}
      /\ Len(log) = p + k + n
      /\ \A i \in 1 .. p : log[i] = ParamRecords(args, meta)[i]
      /\ \A i \in 1 .. k : /\ log[p + i] = Classify(K[i]) /\ K[i] \in ToSet(directives)
                           /\ K[i].kind = "page" /\ PageShape(K[i], K[i].gpa)
      /\ \A i \in 1 .. n : /\ log[p + k + i].type = "VMSA"
                           /\ log[p + k + i].contents.regs =
                                IF i = 1 THEN BootRegs(args.mode) ELSE RealModeRegs(meta.reset)
  BY <1>1, <1>2, DigestFacts
<1>4. \A i, j \in 1 .. k : i < j => K[i].gpa < K[j].gpa
  BY <1>2 DEF PageListOf
<1>5. \A i \in 1 .. k : log[p + i].gpa = K[i].gpa /\ log[p + i].type # "VMSA"
  BY <1>3, ClassifyFacts DEF PageShape
<1>6. \A i \in 1 .. p : /\ log[i].gpa = FirstArea(meta).base + i - 1 /\ log[i].type = "UNMEASURED"
                        /\ \A d \in ToSet(directives) :
                             d.kind = "page" => d.gpa # FirstArea(meta).base + i - 1
  <2>1. CASE OfType(meta, "IgvmParamArea") = <<>>
    BY <2>1 DEF ParamCount
  <2>2. CASE OfType(meta, "IgvmParamArea") # <<>>
    <3>1. p = FirstArea(meta).size
      BY <2>2 DEF ParamCount
    <3>2. \A i \in 1 .. FirstArea(meta).size :
                /\ ParamRecords(args, meta)[i].gpa = FirstArea(meta).base + i - 1
                /\ ParamRecords(args, meta)[i].type = "UNMEASURED"
                /\ \A d \in ToSet(directives) : d.kind = "page" => d.gpa # FirstArea(meta).base + i - 1
      BY <1>1, <2>2, ParamFacts
    <3> QED
      BY <1>3, <3>1, <3>2
  <2> QED
    BY <2>1, <2>2
<1>7. p = IF OfType(meta, "IgvmParamArea") = <<>> THEN 0 ELSE OfType(meta, "IgvmParamArea")[1].size
  BY DEF ParamCount, FirstArea
<1>8. meta # None => meta.reset \in Nat \cup {None}
  BY <1>1, ReadyFacts, RegionsApart
<1>9. n > 1 => meta.reset \in Nat
  <2> SUFFICES ASSUME n > 1 PROVE meta.reset \in Nat
    OBVIOUS
  <2>1. meta # None /\ meta.reset # None
    BY <1>1 DEF ApsCanStart, UsesSnp, Mask
  <2> QED
    BY <1>8, <2>1
<1> DEFINE b == FirstArea(meta).base
<1> HIDE DEF p, n, k
<1>10. v = p + k
  BY <1>3
<1>11. \A i \in 1 .. p : log[i].gpa = b + i - 1
  BY <1>6
\* The records after the parameters and before the vCPUs are those of the pages.
<1>12. ASSUME NEW i \in p + 1 .. v PROVE i - p \in 1 .. k /\ i = p + (i - p)
  BY <1>3, <1>10
<1>13. ASSUME NEW i \in p + 1 .. v PROVE /\ log[i].gpa = K[i - p].gpa /\ log[i].type # "VMSA"
                                         /\ K[i - p] \in ToSet(directives) /\ K[i - p].kind = "page"
  <2> DEFINE q == i - p
  <2>1. q \in 1 .. k /\ i = p + q
    BY <1>12
  <2> HIDE DEF q
  <2>2. log[p + q].gpa = K[q].gpa /\ log[p + q].type # "VMSA" /\ K[q] \in ToSet(directives) /\ K[q].kind = "page"
    BY <1>3, <1>5, <2>1
  <2> QED
    BY <2>1, <2>2 DEF q
<1>14. \A i, j \in p + 1 .. v : i < j => log[i].gpa < log[j].gpa
  <2> SUFFICES ASSUME NEW i \in p + 1 .. v, NEW j \in p + 1 .. v, i < j PROVE log[i].gpa < log[j].gpa
    OBVIOUS
  <2>1. i - p \in 1 .. k /\ j - p \in 1 .. k /\ i - p < j - p
    BY <1>3, <1>10
  <2>2. K[i - p].gpa < K[j - p].gpa
    BY <1>4, <2>1
  <2> QED
    BY <1>13, <2>2
<1>15. \A i \in 1 .. p, j \in p + 1 .. v : log[i].gpa # log[j].gpa
  <2> SUFFICES ASSUME NEW i \in 1 .. p, NEW j \in p + 1 .. v PROVE log[i].gpa # log[j].gpa
    OBVIOUS
  <2>1. log[j].gpa = K[j - p].gpa /\ K[j - p] \in ToSet(directives) /\ K[j - p].kind = "page"
    BY <1>13
  <2>2. K[j - p].gpa # b + i - 1
    BY <1>6, <2>1
  <2> QED
    BY <1>11, <2>1, <2>2
<1>16. ASSUME NEW i \in v + 1 .. Len(log)
       PROVE  /\ log[i].type = "VMSA"
              /\ log[i].contents.regs = IF i - v = 1 THEN BootRegs(args.mode) ELSE RealModeRegs(meta.reset)
  <2> DEFINE q == i - v
  <2>1. q \in 1 .. n /\ i = p + k + q
    BY <1>3, <1>10
  <2> HIDE DEF q
  <2>2. /\ log[p + k + q].type = "VMSA"
        /\ log[p + k + q].contents.regs = IF q = 1 THEN BootRegs(args.mode) ELSE RealModeRegs(meta.reset)
    BY <1>3, <2>1
  <2> QED
    BY <2>1, <2>2 DEF q
<1>17. \A i \in 1 .. Len(log) : IsVmsa(log[i]) <=> i > v
  <2> SUFFICES ASSUME NEW i \in 1 .. Len(log) PROVE log[i].type = "VMSA" <=> i > v
    BY DEF IsVmsa
  <2>1. CASE i \in 1 .. p
    <3>1. log[i].type # "VMSA"
      BY <1>6, <2>1
    <3>2. ~(i > v)
      BY <1>3, <1>10, <2>1
    <3> QED
      BY <3>1, <3>2
  <2>2. CASE i \in p + 1 .. v
    <3>1. ~(i > v)
      BY <1>3, <1>10, <2>2
    <3> QED
      BY <1>13, <2>2, <3>1
  <2>3. CASE i \in v + 1 .. Len(log)
    <3>1. i > v
      BY <1>3, <1>10, <2>3
    <3> QED
      BY <1>16, <2>3, <3>1
  <2>4. i \in 1 .. p \/ i \in p + 1 .. v \/ i \in v + 1 .. Len(log)
    BY <1>3, <1>10
  <2> QED
    BY <2>1, <2>2, <2>3, <2>4
<1>18. log[v + 1].contents.regs = BootRegs(args.mode)
  <2> DEFINE u == v + 1
  <2>1. u \in v + 1 .. Len(log) /\ u - v = 1
    BY <1>3, <1>10
  <2> HIDE DEF u
  <2>2. log[u].contents.regs = BootRegs(args.mode)
    BY <1>16, <2>1
  <2> QED
    BY <2>2 DEF u
<1>19. \A i \in v + 2 .. Len(log) : log[i].contents.regs.base + log[i].contents.regs.rip = meta.reset
  <2> SUFFICES ASSUME NEW i \in v + 2 .. Len(log)
               PROVE  log[i].contents.regs.base + log[i].contents.regs.rip = meta.reset
    OBVIOUS
  <2>1. i \in v + 1 .. Len(log) /\ i - v # 1 /\ n > 1
    BY <1>3, <1>10
  <2>2. log[i].contents.regs = RealModeRegs(meta.reset)
    BY <1>16, <2>1
  <2>3. meta.reset \in Nat
    BY <1>9, <2>1
  <2>4. RealModeRegs(meta.reset).base + RealModeRegs(meta.reset).rip = meta.reset
    BY <2>3, RealModeAddress
  <2> QED
    BY <2>2, <2>4
<1>20. /\ \A i \in 1 .. p : log[i].gpa = OfType(meta, "IgvmParamArea")[1].base + i - 1
  BY <1>11 DEF FirstArea
<1> HIDE DEF v
<1>21. v = Len(log) - args.smp
  BY DEF v, n
<1> HIDE DEF log, b
<1> QED
  BY <1>7, <1>14, <1>15, <1>17, <1>18, <1>19, <1>20, <1>21 DEF MeasuredInOrder, log

\* The types of the regions that get pages of one type.
TypesOf == [NORMAL |-> {"SevMemory", "SevSvsmCca", "SevHashes"}, SECRETS |-> {"SevSecrets"},
            CPUID |-> {"SevCpuid"}]
PageTypes == {"NORMAL", "SECRETS", "CPUID"}

LEMMA PageTypeFacts ==
    ASSUME NEW t
    PROVE  /\ \A type \in PageTypes : t \in TypesOf[type] => PageType(t) = type /\ PageType(t) # None
           /\ PageType(t) # None => \E type \in PageTypes : t \in TypesOf[type]
<1>1. ASSUME NEW type \in PageTypes, t \in TypesOf[type] PROVE PageType(t) = type
  <2>1. CASE type = "NORMAL"
    BY <1>1, <2>1 DEF PageType, TypesOf
  <2>2. CASE type = "SECRETS"
    BY <1>1, <2>2 DEF PageType, TypesOf
  <2>3. CASE type = "CPUID"
    BY <1>1, <2>3 DEF PageType, TypesOf
  <2> QED
    BY <2>1, <2>2, <2>3 DEF PageTypes
<1>2. \A type \in PageTypes : type # None
  BY NoneAssumption DEF PageTypes
<1>3. ASSUME PageType(t) # None PROVE \E type \in PageTypes : t \in TypesOf[type]
  <2>1. CASE t \in {"SevMemory", "SevSvsmCca", "SevHashes"}
    BY <2>1 DEF PageTypes, TypesOf
  <2>2. CASE t = "SevSecrets"
    BY <2>2 DEF PageTypes, TypesOf
  <2>3. CASE t = "SevCpuid"
    BY <2>3 DEF PageTypes, TypesOf
  <2>4. CASE t \notin {"SevMemory", "SevSvsmCca", "SevHashes", "SevSecrets", "SevCpuid"}
    BY <1>3, <2>4 DEF PageType
  <2> QED
    BY <2>1, <2>2, <2>3, <2>4
<1> QED
  BY <1>1, <1>2, <1>3

LEMMA GpasOf ==
    ASSUME IsSeq(RegionsOf(meta)),
           \A r \in ToSet(RegionsOf(meta)) : r.base \in Nat /\ r.size \in Nat \ {0}, NEW types, NEW g
    PROVE  g \in RegionGpas(types) <=>
             g \in Nat /\ \E r \in ToSet(RegionsOf(meta)) : r.type \in types /\ InArea(r, g)
<1> DEFINE R == ToSet(RegionsOf(meta))
<1>1. Range(RegionsOf(meta)) = R
  BY DEF Range, ToSet
<1>2. RegionGpas(types) = UNION {r.base .. r.base + r.size - 1 : r \in {q \in R : q.type \in types}}
  BY <1>1 DEF RegionGpas
<1>3. \A r \in R : r.base \in Nat /\ r.size \in Nat
  OBVIOUS
<1> HIDE DEF R
<1>4. \A r \in R : g \in r.base .. r.base + r.size - 1 <=> g \in Nat /\ InArea(r, g)
  <2> SUFFICES ASSUME NEW r \in R PROVE g \in r.base .. r.base + r.size - 1 <=> g \in Nat /\ InArea(r, g)
    OBVIOUS
  <2> DEFINE b == r.base
             z == r.size
  <2>1. b \in Nat /\ z \in Nat
    BY <1>3
  <2>2. InArea(r, g) <=> g >= b /\ g < b + z
    BY DEF InArea
  <2> HIDE DEF b, z
  <2>3. g \in b .. b + z - 1 <=> g \in Nat /\ InArea(r, g)
    BY <2>1, <2>2
  <2> QED
    BY <2>3 DEF b, z
<1>5. g \in RegionGpas(types) <=> \E r \in R : r.type \in types /\ g \in r.base .. r.base + r.size - 1
  BY <1>2
<1> QED
  BY <1>4, <1>5 DEF R

LEMMA PageListed ==
    ASSUME NEW ds, IsSeq(ds), NEW g, NEW d, PagesAt(ds, g) = <<d>>
    PROVE  d \in ToSet(ds) /\ d.kind = "page" /\ d.gpa = g
<1> DEFINE S == ToSet(ds)
           V == AtSet(S, g)
           p == PagesAt(ds, g)
<1>1. ds \in Seq(S)
  BY DEF IsSeq
<1> HIDE DEF V, S
<1>2. p = Keep(ds, V)
  BY <1>1, PagesKeep DEF V
<1>3. ToSet(p) = ToSet(ds) \cap V
  BY <1>1, <1>2, KeepElements
<1>4. p \in Seq(S)
  BY <1>1, <1>2, KeepType
<1>5. ToSet(p) = {p[i] : i \in 1 .. Len(p)}
  BY <1>4, ElementsOf
<1>6. p = <<d>>
  OBVIOUS
<1> HIDE DEF p
<1>7. Len(p) = 1 /\ p[1] = d
  BY <1>6
<1>8. d \in V /\ d \in ToSet(ds)
  BY <1>3, <1>5, <1>7
<1> QED
  BY <1>8 DEF V, AtSet

(* A page of the file is in the digest. *)
LEMMA PageInDigest ==
    ASSUME NEW a, NEW m, NEW bs, Ready(a, m, bs), "snp" \in Mask(a), NEW ds,
           ds = SortPages(Placed(a, m, bs)), NEW K, PageListOf(K, ds), NEW log, DigestOf(log, a, m, K),
           NEW g, NEW d, PagesAt(ds, g) = <<d>>
    PROVE  \E i \in 1 .. Len(log) : log[i] = Classify(d) /\ d.gpa = g
<1>1. IsSeq(ds)
  BY FileRight
<1>2. d \in ToSet(ds) /\ d.kind = "page" /\ d.gpa = g
  BY <1>1, PageListed
<1>3. d \in ToSet(K) /\ IsSeq(K)
  BY <1>2 DEF PageListOf
<1>4. PICK j \in 1 .. Len(K) : K[j] = d
  BY <1>3, RecordFacts
<1> DEFINE p == ParamCount(m)
           k == Len(K)
           n == a.smp
<1>5. /\ k \in Nat /\ p \in Nat /\ n \in Nat \ {0} /\ Len(log) = p + k + n
      /\ \A i \in 1 .. k : log[p + i] = Classify(K[i])
  BY DigestFacts
<1> HIDE DEF p, n
<1>6. p + j \in 1 .. Len(log) /\ log[p + j] = Classify(d)
  BY <1>4, <1>5
<1> QED
  BY <1>2, <1>6

LEMMA FirmwareInFile ==
    ASSUME NEW a, NEW m, NEW bs, Ready(a, m, bs), "snp" \in Mask(a), NEW i \in 1 .. Len(a.firmware.pages)
    PROVE  /\ FourG - Len(a.firmware.pages) + i - 1 \in 0 .. FourG - 1
           /\ PagesAt(SortPages(Placed(a, m, bs)), FourG - Len(a.firmware.pages) + i - 1) =
                <<Page(FourG - Len(a.firmware.pages) + i - 1, Mask(a), "NORMAL", TRUE, a.firmware.pages[i])>>
<1> DEFINE n == Len(a.firmware.pages)
           v == Len(a.vars)
           g == FourG - n + i - 1
           ds == SortPages(Placed(a, m, bs))
<1>1. v + n <= FourG - DataBase /\ v \in Nat /\ n \in Nat
  BY ReadyFacts
<1>2. g \in 0 .. FourG - 1
  <2> HIDE DEF n, v
  <2>1. i \in 1 .. n
    BY DEF n
  <2> QED
    BY <1>1, <2>1, LayoutAssumption
<1>3. g = FourG - n + i - 1
  OBVIOUS
<1> HIDE DEF g
<1>4. FirmwareIsAt(a, ds, g)
  BY <1>2, FileAt
<1> HIDE DEF ds
<1>5. PagesAt(ds, g) = <<Page(g, Mask(a), "NORMAL", TRUE, a.firmware.pages[i])>>
  BY <1>3, <1>4 DEF FirmwareIsAt
<1> QED
  BY <1>2, <1>5 DEF g, ds

LEMMA MemoryIsRight == BuildInv /\ WalkInv => MeasuredMemory
<1> SUFFICES ASSUME BuildInv, WalkInv, Built PROVE MeasuredMemory
  BY DEF MeasuredMemory
<1> DEFINE log == walk.log
           ds == directives
           R == ToSet(RegionsOf(meta))
           fw == args.firmware.pages
           param == RegionGpas({"IgvmParamArea"})
           hobs == IF DOMAIN blobs = {} THEN {} ELSE RegionGpas({"IgvmHobArea"})
           declared == [NORMAL |-> RegionGpas({"SevMemory", "SevSvsmCca", "SevHashes"}),
                        SECRETS |-> RegionGpas({"SevSecrets"}), CPUID |-> RegionGpas({"SevCpuid"})]
           low == IF args.mode = "real16" THEN OneM - LowPages .. OneM - 1 ELSE {}
<1>1. /\ Ready(args, meta, blobs) /\ "snp" \in Mask(args)
      /\ ds = SortPages(Placed(args, meta, blobs))
  BY BuiltDigest
<1>2. PICK K : PageListOf(K, ds) /\ DigestOf(log, args, meta, K)
  BY BuiltDigest
<1>3. args \in Builds /\ meta = ParseMeta(args.firmware)
  BY <1>1, ReadyFacts
<1>4. IsSeq(RegionsOf(meta)) /\ \A r \in R : r.base \in Nat /\ r.size \in Nat \ {0}
  BY <1>3, RegionFacts
<1>5. IsSeq(log) /\ Range(log) = {log[i] : i \in 1 .. Len(log)}
  <2>1. IsSeq(log)
    BY <1>1, <1>2, DigestFacts
  <2>2. DOMAIN log = 1 .. Len(log)
    BY <2>1 DEF IsSeq
  <2> QED
    BY <2>1, <2>2 DEF Range
<1>6. \A types, g : g \in RegionGpas(types) <=> g \in Nat /\ \E r \in R : r.type \in types /\ InArea(r, g)
  BY <1>4, GpasOf
<1>7. DOMAIN declared = PageTypes /\ \A type \in PageTypes : declared[type] = RegionGpas(TypesOf[type])
  BY DEF PageTypes, TypesOf
<1>8. declared.NORMAL = declared["NORMAL"] /\ declared.SECRETS = declared["SECRETS"] /\ declared.CPUID = declared["CPUID"]
  OBVIOUS
<1>9. DOMAIN blobs # {} => HobArea(meta) \in R /\ HobArea(meta).type = "IgvmHobArea"
  <2>1. DOMAIN blobs # {} => HobArea(meta) \in ToSet(OfType(meta, "IgvmHobArea"))
    BY <1>1, ReadyFacts
  <2>2. ToSet(OfType(meta, "IgvmHobArea")) = {r \in R : r.type = "IgvmHobArea"}
    BY <1>4, OfTypeFacts
  <2> QED
    BY <2>1, <2>2
<1>10. \A g \in Nat : Covered(meta, g) <=> g \in param
  <2>1. ToSet(OfType(meta, "IgvmParamArea")) = {r \in R : r.type = "IgvmParamArea"}
    BY <1>4, OfTypeFacts
  <2> HIDE DEF R
  <2> QED
    BY <1>6, <2>1 DEF Covered
<1> HIDE DEF declared, param, hobs
\* What is in the file once is in the digest.
<1>11. ASSUME NEW g, NEW d, PagesAt(ds, g) = <<d>>, d.type \in PageTypes
       PROVE  \E r \in RecordAt(g) : r = Classify(d)
  <2>1. PICK i \in 1 .. Len(log) : log[i] = Classify(d) /\ d.gpa = g
    BY <1>1, <1>2, <1>11, PageInDigest
  <2>2. Classify(d).gpa = g
    BY <1>11, <2>1, ClassifyFacts DEF PageTypes
  <2>3. Classify(d) \in Range(log)
    BY <1>5, <2>1
  <2> QED
    BY <2>2, <2>3 DEF RecordAt
<1>12. ASSUME NEW type \in DOMAIN declared, NEW g \in declared[type] \ (param \cup hobs)
       PROVE  \E r \in RecordAt(g) : r.type = type
  <2>1. type \in PageTypes /\ g \in RegionGpas(TypesOf[type])
    BY <1>7, <1>12
  <2>2. PICK r \in R : r.type \in TypesOf[type] /\ InArea(r, g) /\ g \in Nat
    BY <1>6, <2>1
  <2>3. PageType(r.type) = type /\ PageType(r.type) # None
    BY <2>1, <2>2, PageTypeFacts
  <2>4. ~Covered(meta, g)
    BY <1>10, <1>12, <2>2
  <2>5. Gives(meta, r, g)
    BY <2>2, <2>3, <2>4 DEF Gives
  <2>6. DOMAIN blobs # {} => ~InArea(HobArea(meta), g)
    <3> SUFFICES ASSUME DOMAIN blobs # {}, InArea(HobArea(meta), g) PROVE FALSE
      OBVIOUS
    <3>1. g \in RegionGpas({"IgvmHobArea"})
      BY <1>6, <1>9, <2>2
    <3> QED
      BY <1>12, <3>1 DEF hobs
  <2>7. g < DataBase
    BY <1>3, <2>2, <2>3, RegionsLow
  <2>8. g \in 0 .. FourG - 1
    BY <2>2, <2>7, LayoutAssumption
  <2> DEFINE d == SnpPage(r, g)
  <2>9. PagesAt(ds, g) = <<d>>
    BY <1>1, <2>2, <2>5, <2>6, <2>8, FileAt
  <2>10. d.type = type /\ d.measured
    BY <2>3 DEF SnpPage, Page
  <2> HIDE DEF d
  <2>11. \E x \in RecordAt(g) : x = Classify(d)
    BY <1>11, <2>1, <2>9, <2>10
  <2>12. Classify(d).type = type
    BY <2>1, <2>10, ClassifyFacts DEF PageTypes
  <2> QED
    BY <2>11, <2>12
<1>13. ASSUME NEW i \in 1 .. Len(fw)
       PROVE  \E r \in RecordAt(FourG - Len(fw) + i - 1) : r.contents = fw[i]
  <2> DEFINE n == Len(fw)
             v == Len(args.vars)
             g == FourG - n + i - 1
             d == Page(g, Mask(args), "NORMAL", TRUE, fw[i])
  <2>1. v + n <= FourG - DataBase /\ v \in Nat /\ n \in Nat /\ IsSeq(fw)
    BY <1>1, ReadyFacts
  <2>2. fw[i] \in ToSet(fw) /\ None \notin ToSet(fw)
    BY <1>3, <2>1, ElementsOf, InputAssumption DEF IsSeq
  <2>3. g \in 0 .. FourG - 1
    <3> HIDE DEF n, v
    <3>1. i \in 1 .. n
      BY DEF n
    <3> QED
      BY <2>1, <3>1, LayoutAssumption
  <2>4. g = FourG - n + i - 1
    OBVIOUS
  <2>5. d.type = "NORMAL" /\ d.measured /\ d.data = fw[i]
    BY DEF Page
  <2> HIDE DEF g
  <2>6. PagesAt(ds, g) = <<d>>
    <3>1. PagesAt(SortPages(Placed(args, meta, blobs)), FourG - n + i - 1) =
            <<Page(FourG - n + i - 1, Mask(args), "NORMAL", TRUE, fw[i])>>
      BY <1>1, FirmwareInFile
    <3>2. PagesAt(SortPages(Placed(args, meta, blobs)), g) = <<d>>
      BY <3>1 DEF g
    <3> QED
      BY <1>1, <3>2
  <2> HIDE DEF d
  <2>7. \E x \in RecordAt(g) : x = Classify(d)
    BY <1>11, <2>5, <2>6 DEF PageTypes
  <2>8. Classify(d).contents = fw[i]
    BY <2>2, <2>5, ClassifyFacts
  <2> QED
    BY <2>7, <2>8 DEF g
<1>14. ASSUME NEW r \in Range(log)
       PROVE  \/ IsVmsa(r)
              \/ r.gpa \in DataBase .. FourG - 1
              \/ r.gpa \in declared.NORMAL \cup declared.SECRETS \cup declared.CPUID
              \/ r.gpa \in param \cup hobs \cup low
  <2> DEFINE p == ParamCount(meta)
             k == Len(K)
             n == args.smp
  <2>1. /\ k \in Nat /\ p \in Nat /\ n \in Nat \ {0} /\ Len(log) = p + k + n
        /\ \A i \in 1 .. p : log[i] = ParamRecords(args, meta)[i]
        /\ \A i \in 1 .. k : /\ log[p + i] = Classify(K[i]) /\ K[i] \in ToSet(ds)
                             /\ K[i].kind = "page" /\ K[i].gpa \in 0 .. FourG - 1
                             /\ PageShape(K[i], K[i].gpa)
        /\ \A i \in 1 .. n : log[p + k + i].type = "VMSA"
    <3>1. /\ k \in Nat /\ p \in Nat /\ n \in Nat \ {0}
          /\ Len(log) = p + k + n
          /\ \A i \in 1 .. p : log[i] = ParamRecords(args, meta)[i]
          /\ \A i \in 1 .. k : /\ log[p + i] = Classify(K[i]) /\ K[i] \in ToSet(ds)
                               /\ K[i].kind = "page" /\ PageShape(K[i], K[i].gpa)
          /\ \A i \in 1 .. n : /\ log[p + k + i].type = "VMSA"
                               /\ log[p + k + i].contents.regs =
                                    IF i = 1 THEN BootRegs(args.mode) ELSE RealModeRegs(meta.reset)
      BY <1>1, <1>2, DigestFacts
    <3>2. IsSeq(ds) /\ \A i \in 1 .. Len(ds) : ds[i].kind = "page" => ds[i].gpa \in 0 .. FourG - 1
      BY <1>1, FilePages
    <3>3. ToSet(ds) = {ds[i] : i \in 1 .. Len(ds)}
      BY <3>2, ElementsOf DEF IsSeq
    <3>4. ASSUME NEW i \in 1 .. k PROVE K[i].gpa \in 0 .. FourG - 1
      <4> HIDE DEF k, p, n, ds
      <4>1. K[i] \in ToSet(ds) /\ K[i].kind = "page"
        BY <3>1, Zenon
      <4>2. PICK j \in 1 .. Len(ds) : K[i] = ds[j]
        BY <3>3, <4>1, Zenon
      <4>3. ds[j].kind = "page"
        BY <4>1, <4>2, Zenon
      <4>4. ds[j].gpa \in 0 .. FourG - 1
        BY <3>2, <4>3, Zenon
      <4> QED
        BY <4>2, <4>4, Zenon
    <3> QED
      BY <3>1, <3>4
  <2>2. PICK i \in 1 .. Len(log) : r = log[i]
    BY <1>5
  <2>3. CASE i \in 1 .. p
    <3>1. OfType(meta, "IgvmParamArea") # <<>> /\ p = FirstArea(meta).size
      BY <2>1, <2>3 DEF ParamCount
    <3> DEFINE b == FirstArea(meta).base
               z == FirstArea(meta).size
               g == b + i - 1
    <3>2. /\ b \in Nat /\ z \in Nat /\ FirstArea(meta) \in R /\ FirstArea(meta).type = "IgvmParamArea"
          /\ \A j \in 1 .. z : ParamRecords(args, meta)[j].gpa = b + j - 1
      BY <1>1, <3>1, ParamFacts
    <3>3. r.gpa = g
      BY <2>1, <2>2, <2>3, <3>1, <3>2
    <3>4. g \in Nat /\ g >= b /\ g < b + z
      <4> HIDE DEF b, z
      <4>1. i \in 1 .. z
        BY <2>3, <3>1 DEF z
      <4> QED
        BY <3>2, <4>1
    <3> HIDE DEF g
    <3>5. InArea(FirstArea(meta), g)
      BY <3>4 DEF InArea
    <3>6. g \in param
      BY <1>6, <3>2, <3>4, <3>5 DEF param
    <3> QED
      BY <3>3, <3>6
  <2>4. CASE i \in p + 1 .. p + k
    <3> DEFINE q == i - p
               d == K[q]
               g == d.gpa
    <3>1. q \in 1 .. k /\ i = p + q
      <4> HIDE DEF p, k, n
      <4> QED
        BY <2>1, <2>4
    <3> HIDE DEF q
    <3>2. /\ log[p + q] = Classify(d) /\ d \in ToSet(ds) /\ d.kind = "page" /\ g \in 0 .. FourG - 1
          /\ PageShape(d, g)
      BY <2>1, <3>1
    <3>3. r.gpa = g
      BY <2>2, <3>1, <3>2, ClassifyFacts DEF PageShape
    <3>4. IsSeq(ds)
      BY <1>1, FileRight
    <3>5. ToSet(ds) = {ds[j] : j \in 1 .. Len(ds)}
      BY <3>4, ElementsOf DEF IsSeq
    <3>6. PICK j \in 1 .. Len(ds) : ds[j] = d
      BY <3>2, <3>5
    <3>7. PagesAt(ds, g) # <<>>
      BY <3>2, <3>4, <3>6, PageFound
    <3> HIDE DEF d, g
    <3>8. \/ \E s \in R : Gives(meta, s, g)
          \/ g \in DataBase .. FourG - 1
          \/ LowRange(args, g)
          \/ DOMAIN blobs # {} /\ InArea(HobArea(meta), g)
      BY <1>1, <3>2, <3>7, FileAt
    <3>9. g \in Nat
      BY <3>2, LayoutAssumption
    <3>10. CASE \E s \in R : Gives(meta, s, g)
      <4>1. PICK s \in R : PageType(s.type) # None /\ InArea(s, g)
        BY <3>10 DEF Gives
      <4>2. PICK type \in PageTypes : s.type \in TypesOf[type]
        BY <4>1, PageTypeFacts
      <4>3. g \in RegionGpas(TypesOf[type])
        BY <1>6, <3>9, <4>1, <4>2
      <4>4. g \in declared[type]
        BY <1>7, <4>2, <4>3
      <4>5. g \in declared.NORMAL \cup declared.SECRETS \cup declared.CPUID
        BY <1>8, <4>2, <4>4 DEF PageTypes
      <4> QED
        BY <3>3, <4>5
    <3>11. CASE g \in DataBase .. FourG - 1
      BY <3>3, <3>11
    <3>12. CASE LowRange(args, g)
      BY <3>3, <3>12 DEF LowRange
    <3>13. CASE DOMAIN blobs # {} /\ InArea(HobArea(meta), g)
      <4>1. g \in RegionGpas({"IgvmHobArea"})
        BY <1>6, <1>9, <3>9, <3>13
      <4>2. g \in hobs
        BY <3>13, <4>1 DEF hobs
      <4> QED
        BY <3>3, <4>2
    <3> QED
      BY <3>8, <3>10, <3>11, <3>12, <3>13
  <2>5. CASE i \in p + k + 1 .. Len(log)
    <3> DEFINE q == i - (p + k)
    <3>1. q \in 1 .. n /\ i = p + k + q
      <4> HIDE DEF p, k, n
      <4> QED
        BY <2>1, <2>5
    <3> HIDE DEF q
    <3>2. r.type = "VMSA"
      BY <2>1, <2>2, <3>1
    <3> QED
      BY <3>2 DEF IsVmsa
  <2>6. i \in 1 .. p \/ i \in p + 1 .. p + k \/ i \in p + k + 1 .. Len(log)
    <3> HIDE DEF p, k, n
    <3> QED
      BY <2>1, <2>2
  <2> QED
    BY <2>3, <2>4, <2>5, <2>6
<1> QED
  BY <1>12, <1>13, <1>14 DEF MeasuredMemory, declared, param, hobs

\* The launch digest covers the parameter area first, then each page once in
\* ascending order, then the boot vCPU and the others, which start at the reset
\* address of the firmware, wherever its regions lie (sort_pages, the batches of
\* measure_snp, the VMSAs at LAUNCH_FINISH).
THEOREM OrderStaysRight == Spec => []MeasuredInOrder
<1>1. BuildInv /\ WalkInv => MeasuredInOrder
  BY OrderIsRight
<1> QED
  BY <1>1, BuildInvariant, ManifestInvariant, PTL

\* Each page the firmware declares is measured with its type, but for those that
\* hold parameters or HOBs; the firmware ends at 4 GiB; nothing else below the
\* blobs is in the guest's memory (add_ovmf_snp_pages, add_firmware_4g,
\* remove_page_data_in_range).
THEOREM MemoryStaysRight == Spec => []MeasuredMemory
<1>1. BuildInv /\ WalkInv => MeasuredMemory
  BY MemoryIsRight
<1> QED
  BY <1>1, BuildInvariant, ManifestInvariant, PTL
=============================================================================
