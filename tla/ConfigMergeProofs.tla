------------------------- MODULE ConfigMergeProofs --------------------------
(***************************************************************************)
(* Theorems about the configure phase, for every Kconfig, every text of    *)
(* the fragments and any number of edits.                                  *)
(*                                                                         *)
(* The check is a fold over the lines, so most of the work is induction    *)
(* over a sequence (SetInduction): FoldSteps and FoldAppend say what a     *)
(* fold of Scan is, About what it computes.                                *)
(***************************************************************************)
EXTENDS ConfigMerge, SequenceTheorems, SequenceInduction, TLAPS

-----------------------------------------------------------------------------
(* The fold of Scan over the lines. *)

IsFold(h, c, lines, n) ==
    h = [s \in SUBSET (1 .. n) |->
           IF s = {} THEN c ELSE Scan(h[s \ {Max(s)}], lines[Max(s)])]

(* The recursion by which FoldLeft is defined has a solution. *)
LEMMA FoldExists ==
    ASSUME NEW c, NEW lines
    PROVE  \A n \in Nat : \E h : IsFold(h, c, lines, n)
<1> DEFINE T == {n \in Nat : \E h : IsFold(h, c, lines, n)}
<1>1. 0 \in T
  <2> DEFINE h == [s \in SUBSET (1 .. 0) |-> c]
  <2>1. IsFold(h, c, lines, 0)
    BY DEF IsFold
  <2> QED
    BY <2>1
<1>2. ASSUME NEW n \in Nat, n \in T
      PROVE  n + 1 \in T
  <2>1. PICK h : IsFold(h, c, lines, n)
    BY <1>2
  <2> DEFINE g == [s \in SUBSET (1 .. n + 1) |->
                     IF n + 1 \in s THEN Scan(h[s \ {n + 1}], lines[n + 1]) ELSE h[s]]
  <2>2. ASSUME NEW s \in SUBSET (1 .. n + 1)
        PROVE  g[s] = IF s = {} THEN c ELSE Scan(g[s \ {Max(s)}], lines[Max(s)])
    <3>1. CASE n + 1 \in s
      <4>1. Max(s) = n + 1
        <5>1. n + 1 \in Nat /\ s # {}
          BY <3>1
        <5>2. Max(s) \in s /\ Max(s) >= n + 1
          BY <3>1, <5>1, MaxIsGreatest
        <5>3. Max(s) \in 1 .. n + 1
          BY <5>2
        <5> QED
          BY <5>2, <5>3
      <4>2. s \ {n + 1} \in SUBSET (1 .. n + 1) /\ n + 1 \notin s \ {n + 1}
        OBVIOUS
      <4>3. g[s \ {n + 1}] = h[s \ {n + 1}]
        BY <4>2
      <4> QED
        BY <3>1, <4>1, <4>3
    <3>2. CASE n + 1 \notin s /\ s # {}
      <4>1. s \in SUBSET (1 .. n)
        BY <3>2
      <4>2. s \ {Max(s)} \in SUBSET (1 .. n) /\ n + 1 \notin s \ {Max(s)}
        BY <3>2, <4>1
      <4>3. g[s] = h[s] /\ g[s \ {Max(s)}] = h[s \ {Max(s)}]
        BY <3>2, <4>1, <4>2
      <4>4. h[s] = Scan(h[s \ {Max(s)}], lines[Max(s)])
        BY <2>1, <3>2, <4>1 DEF IsFold
      <4> QED
        BY <3>2, <4>3, <4>4
    <3>3. CASE s = {}
      <4>1. s \in SUBSET (1 .. n)
        BY <3>3
      <4>2. h[s] = c
        BY <2>1, <3>3, <4>1 DEF IsFold
      <4> QED
        BY <3>3, <4>2
    <3> QED
      BY <3>1, <3>2, <3>3
  <2>3. IsFold(g, c, lines, n + 1)
    BY <2>2 DEF IsFold
  <2> QED
    BY <2>3
<1> QED
  BY <1>1, <1>2, SetInduction

(* The accumulator the lines lead to from c. *)
Scanned(c, lines) == FoldLeft(Scan, c, lines)

(* The accumulator after each line. *)
LEMMA FoldSteps ==
    ASSUME NEW c, NEW lines \in Seq(Line)
    PROVE  \E P : /\ P[0] = c
                  /\ \A n \in 1 .. Len(lines) : P[n] = Scan(P[n - 1], lines[n])
                  /\ Scanned(c, lines) = P[Len(lines)]
<1> DEFINE N == Len(lines)
           F == CHOOSE h : IsFold(h, c, lines, N)
           P == [n \in 0 .. N |-> F[1 .. n]]
<1>1. N \in Nat /\ DOMAIN lines = 1 .. N
  OBVIOUS
<1>2. IsFold(F, c, lines, N)
  BY <1>1, FoldExists
<1>3. Scanned(c, lines) = F[1 .. N]
  BY <1>1 DEF Scanned, FoldLeft, MapThenFoldSet, IsFold
<1> HIDE DEF F
<1>4. P[0] = c
  <2>1. 1 .. 0 = {}
    OBVIOUS
  <2>2. P[0] = F[{}]
    BY <1>1, <2>1
  <2> QED
    BY <1>2, <2>2 DEF IsFold
<1>5. ASSUME NEW n \in 1 .. N
      PROVE  P[n] = Scan(P[n - 1], lines[n])
  <2>1. 1 .. n \in SUBSET (1 .. N) /\ 1 .. n # {} /\ n \in 1 .. n /\ n \in Nat
    <3>1. n \in Nat /\ 1 <= n /\ n <= N
      BY <1>1
    <3>2. n \in 1 .. n
      BY <3>1
    <3>3. \A k \in 1 .. n : k \in 1 .. N
      BY <1>1, <3>1
    <3> QED
      BY <3>1, <3>2, <3>3
  <2>2. Max(1 .. n) \in 1 .. n /\ Max(1 .. n) >= n
    BY <2>1, MaxIsGreatest
  <2>3. Max(1 .. n) = n
    BY <2>1, <2>2
  <2>4. (1 .. n) \ {n} = 1 .. (n - 1)
    BY <2>1
  <2>5. F[1 .. n] = Scan(F[1 .. (n - 1)], lines[n])
    BY <1>2, <2>1, <2>3, <2>4 DEF IsFold
  <2> QED
    BY <1>1, <2>5
<1>6. Scanned(c, lines) = P[N]
  BY <1>1, <1>3
<1> QED
  BY <1>4, <1>5, <1>6

(* No line, no change. *)
LEMMA FoldEmpty ==
    ASSUME NEW c, NEW lines \in Seq(Line), Len(lines) = 0
    PROVE  Scanned(c, lines) = c
<1>1. PICK P : /\ P[0] = c
               /\ \A n \in 1 .. Len(lines) : P[n] = Scan(P[n - 1], lines[n])
               /\ Scanned(c, lines) = P[Len(lines)]
  BY FoldSteps
<1> QED
  BY <1>1

(* One more line, one more step. *)
LEMMA FoldAppend ==
    ASSUME NEW c, NEW lines \in Seq(Line), NEW line \in Line
    PROVE  Scanned(c, Append(lines, line)) = Scan(Scanned(c, lines), line)
<1> DEFINE more == Append(lines, line)
           N == Len(lines)
<1>1. /\ more \in Seq(Line) /\ Len(more) = N + 1 /\ N \in Nat
      /\ more[N + 1] = line
      /\ \A n \in 1 .. N : more[n] = lines[n]
  OBVIOUS
<1>2. PICK P : /\ P[0] = c
               /\ \A n \in 1 .. N : P[n] = Scan(P[n - 1], lines[n])
               /\ Scanned(c, lines) = P[N]
  BY FoldSteps
<1> HIDE DEF more
<1>3. PICK Q : /\ Q[0] = c
               /\ \A n \in 1 .. Len(more) : Q[n] = Scan(Q[n - 1], more[n])
               /\ Scanned(c, more) = Q[Len(more)]
  BY <1>1, FoldSteps
<1> DEFINE T == {n \in Nat : n <= N => P[n] = Q[n]}
<1>4. Nat \subseteq T
  <2>1. 0 \in T
    BY <1>2, <1>3
  <2>2. ASSUME NEW n \in Nat, n \in T PROVE n + 1 \in T
    <3> SUFFICES ASSUME n + 1 <= N PROVE P[n + 1] = Q[n + 1]
      OBVIOUS
    <3>1. n + 1 \in 1 .. N /\ n + 1 \in 1 .. N + 1 /\ (n + 1) - 1 = n
      BY <1>1
    <3>2. P[n] = Q[n]
      BY <2>2, <1>1
    <3> QED
      BY <1>1, <1>2, <1>3, <3>1, <3>2
  <2> QED
    BY <2>1, <2>2, SetInduction
<1>5. Q[N] = P[N]
  BY <1>1, <1>4
<1>6. Q[N + 1] = Scan(Q[N], line)
  BY <1>1, <1>3
<1> QED
  BY <1>2, <1>3, <1>5, <1>6 DEF more

-----------------------------------------------------------------------------
(* What the fold computes. *)

Acc == [effective : BOOLEAN,
        requested : [Symbols -> {"none", "on", "off"}],
        submitted : [Symbols -> {"none", "on", "off", "scalar"}],
        onPins    : SUBSET Symbols,
        forced    : SUBSET Symbols]

Submits(line) ==
    CASE line.kind \in {"on", "off"}       -> line.kind
      [] line.kind \in {"string", "empty"} -> "scalar"
      [] OTHER                             -> "none"

(* What one line does to each part of the accumulator. *)
LEMMA ScanFields ==
    ASSUME NEW acc \in Acc, NEW line \in Line
    PROVE  /\ Scan(acc, line) \in Acc
           /\ Scan(acc, line).effective = (acc.effective /\ line.kind # "ineffective")
           /\ Scan(acc, line).requested =
                 IF line.kind \in {"on", "off"}
                 THEN [acc.requested EXCEPT ![line.symbol] = line.kind] ELSE acc.requested
           /\ Scan(acc, line).submitted =
                 IF Submits(line) # "none"
                 THEN [acc.submitted EXCEPT ![line.symbol] = Submits(line)] ELSE acc.submitted
           /\ Scan(acc, line).onPins =
                 IF line.kind = "on" THEN acc.onPins \cup {line.symbol} ELSE acc.onPins
           /\ Scan(acc, line).forced =
                 IF line.kind = "forced" THEN acc.forced \cup {line.symbol} ELSE acc.forced
<1>1. line.kind \in Kinds /\ line.symbol \in Symbols
  BY DEF Line
<1>2. CASE line.kind = "ineffective"
  BY <1>1, <1>2 DEF Scan, Acc, Submits
<1>3. CASE line.kind = "on"
  BY <1>1, <1>3 DEF Scan, Acc, Submits
<1>4. CASE line.kind = "off"
  BY <1>1, <1>4 DEF Scan, Acc, Submits
<1>5. CASE line.kind = "forced"
  BY <1>1, <1>5 DEF Scan, Acc, Submits
<1>6. CASE line.kind \in {"string", "empty"}
  BY <1>1, <1>6 DEF Scan, Acc, Submits
<1> QED
  BY <1>1, <1>2, <1>3, <1>4, <1>5, <1>6 DEF Kinds

(* The accumulator and the lines it stands for. *)
About(lines, acc) ==
    /\ acc \in Acc
    /\ acc.effective => \A i \in 1 .. Len(lines) : lines[i].kind # "ineffective"
    /\ \A i \in 1 .. Len(lines) : lines[i].kind = "forced" => lines[i].symbol \in acc.forced
    /\ \A s \in acc.forced : \E i \in 1 .. Len(lines) :
          lines[i] = [kind |-> "forced", symbol |-> s]
    /\ \A i \in 1 .. Len(lines) :
          /\ lines[i].kind \in {"on", "off"}
          /\ \A j \in i + 1 .. Len(lines) :
                lines[j].symbol = lines[i].symbol => lines[j].kind \notin {"on", "off"}
          => acc.requested[lines[i].symbol] = lines[i].kind
    /\ \A s \in Symbols : acc.submitted[s] = "off" =>
          \E i \in 1 .. Len(lines) :
             /\ lines[i].symbol = s /\ lines[i].kind = "off"
             /\ \A j \in i + 1 .. Len(lines) :
                   lines[j].symbol = s => lines[j].kind \in {"forced", "ineffective"}

(* One line keeps that true. *)
LEMMA AboutAppend ==
    ASSUME NEW lines \in Seq(Line), NEW line \in Line, NEW acc, About(lines, acc)
    PROVE  About(Append(lines, line), Scan(acc, line))
<1> DEFINE more == Append(lines, line)
           N == Len(lines)
           b == Scan(acc, line)
<1>1. /\ more \in Seq(Line) /\ Len(more) = N + 1 /\ N \in Nat
      /\ more[N + 1] = line
      /\ \A n \in 1 .. N : more[n] = lines[n]
      /\ \A n \in 1 .. N + 1 : n \in 1 .. N \/ n = N + 1
      /\ \A n \in 1 .. N + 1 : more[n] \in Line
  OBVIOUS
<1>2. acc \in Acc
  BY DEF About
<1>3. /\ b \in Acc
      /\ b.effective = (acc.effective /\ line.kind # "ineffective")
      /\ b.requested = IF line.kind \in {"on", "off"}
                       THEN [acc.requested EXCEPT ![line.symbol] = line.kind]
                       ELSE acc.requested
      /\ b.submitted = IF Submits(line) # "none"
                       THEN [acc.submitted EXCEPT ![line.symbol] = Submits(line)]
                       ELSE acc.submitted
      /\ b.forced = IF line.kind = "forced" THEN acc.forced \cup {line.symbol} ELSE acc.forced
  BY <1>2, ScanFields
<1>4. line.kind \in Kinds /\ line.symbol \in Symbols
  BY DEF Line
<1> HIDE DEF more, b
<1>5. b.effective => \A i \in 1 .. N + 1 : more[i].kind # "ineffective"
  BY <1>1, <1>3 DEF About
<1>6. \A i \in 1 .. N + 1 : more[i].kind = "forced" => more[i].symbol \in b.forced
  BY <1>1, <1>3 DEF About
<1>7. ASSUME NEW s \in b.forced
      PROVE  \E i \in 1 .. N + 1 : more[i] = [kind |-> "forced", symbol |-> s]
  <2>1. CASE s \in acc.forced
    <3>1. PICK i \in 1 .. N : lines[i] = [kind |-> "forced", symbol |-> s]
      BY <2>1 DEF About
    <3>2. i \in 1 .. N + 1 /\ more[i] = [kind |-> "forced", symbol |-> s]
      BY <1>1, <3>1
    <3> QED
      BY <3>2
  <2>2. CASE s \notin acc.forced
    <3>1. line.kind = "forced" /\ line.symbol = s
      BY <1>3, <1>7, <2>2
    <3>2. line = [kind |-> "forced", symbol |-> s]
      BY <3>1 DEF Line
    <3>3. N + 1 \in 1 .. N + 1
      BY <1>1
    <3> QED
      BY <1>1, <3>2, <3>3
  <2> QED
    BY <2>1, <2>2
<1>8. ASSUME NEW i \in 1 .. N + 1, more[i].kind \in {"on", "off"},
             \A j \in i + 1 .. N + 1 :
                more[j].symbol = more[i].symbol => more[j].kind \notin {"on", "off"}
      PROVE  b.requested[more[i].symbol] = more[i].kind
  <2>1. CASE i = N + 1
    BY <1>1, <1>2, <1>3, <1>4, <1>8, <2>1 DEF Acc
  <2>2. CASE i \in 1 .. N
    <3>1. N + 1 \in i + 1 .. N + 1
      BY <1>1, <2>2
    <3>2. line.symbol = more[i].symbol => line.kind \notin {"on", "off"}
      BY <1>1, <1>8, <3>1
    <3>3. \A j \in i + 1 .. N : j \in 1 .. N /\ j \in i + 1 .. N + 1
      BY <1>1, <2>2
    <3>4. acc.requested[lines[i].symbol] = lines[i].kind
      BY <1>1, <1>8, <2>2, <3>3 DEF About
    <3>5. more[i].symbol \in Symbols
      BY <1>1 DEF Line
    <3> QED
      BY <1>1, <1>2, <1>3, <1>4, <2>2, <3>2, <3>4, <3>5 DEF Acc
  <2> QED
    BY <1>1, <2>1, <2>2
<1>9. ASSUME NEW s \in Symbols, b.submitted[s] = "off"
      PROVE  \E i \in 1 .. N + 1 :
                /\ more[i].symbol = s /\ more[i].kind = "off"
                /\ \A j \in i + 1 .. N + 1 :
                      more[j].symbol = s => more[j].kind \in {"forced", "ineffective"}
  <2>1. CASE line.symbol = s /\ Submits(line) # "none"
    <3>1. line.kind = "off"
      BY <1>2, <1>3, <1>4, <1>9, <2>1 DEF Acc, Submits, Kinds
    <3>2. N + 1 \in 1 .. N + 1 /\ N + 1 + 1 .. N + 1 = {}
      BY <1>1
    <3> QED
      BY <1>1, <2>1, <3>1, <3>2
  <2>2. CASE ~(line.symbol = s /\ Submits(line) # "none")
    <3>1. acc.submitted[s] = "off"
      BY <1>2, <1>3, <1>4, <1>9, <2>2 DEF Acc
    <3>2. PICK i \in 1 .. N :
             /\ lines[i].symbol = s /\ lines[i].kind = "off"
             /\ \A j \in i + 1 .. N :
                   lines[j].symbol = s => lines[j].kind \in {"forced", "ineffective"}
      BY <3>1 DEF About
    <3>3. line.symbol = s => line.kind \in {"forced", "ineffective"}
      BY <1>4, <2>2 DEF Submits, Kinds
    <3>4. \A j \in i + 1 .. N + 1 : j = N + 1 \/ (j \in i + 1 .. N /\ j \in 1 .. N)
      BY <1>1
    <3>5. \A j \in i + 1 .. N + 1 :
             more[j].symbol = s => more[j].kind \in {"forced", "ineffective"}
      BY <1>1, <3>2, <3>3, <3>4
    <3>6. i \in 1 .. N + 1 /\ more[i] = lines[i]
      BY <1>1
    <3> QED
      BY <3>2, <3>5, <3>6
  <2> QED
    BY <2>1, <2>2
<1>10. About(more, b)
  BY <1>1, <1>3, <1>5, <1>6, <1>7, <1>8, <1>9 DEF About
<1> QED
  BY <1>10 DEF more, b

(* A sequence with one line more than n is n lines and the last one. *)
LEMMA LastLine ==
    ASSUME NEW n \in Nat, NEW lines \in Seq(Line), Len(lines) = n + 1
    PROVE  \E front \in Seq(Line), line \in Line :
              Len(front) = n /\ lines = Append(front, line)
<1> DEFINE front == SubSeq(lines, 1, n)
<1>1. front \in Seq(Line) /\ Len(front) = n /\ lines[n + 1] \in Line
  OBVIOUS
<1>2. lines = Append(front, lines[n + 1])
  OBVIOUS
<1> QED
  BY <1>1, <1>2

(* The accumulator at the end is the one the lines call for. *)
LEMMA ScannedAbout ==
    ASSUME NEW lines \in Seq(Line)
    PROVE  About(lines, Scanned(Unscanned, lines))
<1> DEFINE T == {n \in Nat : \A ls \in Seq(Line) :
                    Len(ls) = n => About(ls, Scanned(Unscanned, ls))}
<1>1. 0 \in T
  <2> SUFFICES ASSUME NEW ls \in Seq(Line), Len(ls) = 0
               PROVE  About(ls, Scanned(Unscanned, ls))
    OBVIOUS
  <2>1. Scanned(Unscanned, ls) = Unscanned
    BY FoldEmpty
  <2>2. About(ls, Unscanned)
    BY DEF About, Unscanned, Acc
  <2> QED
    BY <2>1, <2>2
<1>2. ASSUME NEW n \in Nat, n \in T PROVE n + 1 \in T
  <2> SUFFICES ASSUME NEW ls \in Seq(Line), Len(ls) = n + 1
               PROVE  About(ls, Scanned(Unscanned, ls))
    OBVIOUS
  <2>1. PICK front \in Seq(Line), line \in Line : Len(front) = n /\ ls = Append(front, line)
    BY LastLine
  <2>2. About(front, Scanned(Unscanned, front))
    BY <1>2, <2>1
  <2>3. Scanned(Unscanned, ls) = Scan(Scanned(Unscanned, front), line)
    BY <2>1, FoldAppend
  <2> QED
    BY <2>1, <2>2, <2>3, AboutAppend
<1>3. Nat \subseteq T
  <2> HIDE DEF T
  <2> QED
    BY <1>1, <1>2, SetInduction
<1> QED
  BY <1>3

-----------------------------------------------------------------------------
(* The phase. *)

(* The check in terms of the accumulator. *)
LEMMA CheckScanned ==
    ASSUME NEW lines, NEW values
    PROVE  CheckFragments(lines, values) =
             LET acc == Scanned(Unscanned, lines) IN
             CASE ~acc.effective                  -> "ineffective"
               [] acc.forced \cap acc.onPins # {} -> "pin conflict"
               [] Unpaired(acc) # {}              -> "unpaired"
               [] \E s \in Symbols : ~Matches(Requests(acc)[s], values[s]) -> "mismatch"
               [] OTHER                           -> "honoured"
BY Zenon DEF CheckFragments, Scanned

(* What an accepted configuration passed. *)
LEMMA AcceptedMeans ==
    ASSUME NEW lines, NEW values, Judgement(lines, values) = "accepted",
           Scanned(Unscanned, lines) \in Acc
    PROVE  LET acc == Scanned(Unscanned, lines) IN
           /\ acc.effective
           /\ Unpaired(acc) = {}
           /\ \A s \in Symbols : Matches(Requests(acc)[s], values[s])
<1> DEFINE acc == Scanned(Unscanned, lines)
<1>1. acc.effective \in BOOLEAN
  BY DEF Acc
<1>2. CheckFragments(lines, values) =
             CASE ~acc.effective                  -> "ineffective"
               [] acc.forced \cap acc.onPins # {} -> "pin conflict"
               [] Unpaired(acc) # {}              -> "unpaired"
               [] \E s \in Symbols : ~Matches(Requests(acc)[s], values[s]) -> "mismatch"
               [] OTHER                           -> "honoured"
  BY CheckScanned
<1> HIDE DEF acc
<1>3. CheckFragments(lines, values) = "honoured"
  <2>1. CheckFragments(lines, values) # "accepted"
    BY <1>2
  <2> QED
    BY <2>1 DEF Judgement
<1>4. /\ acc.effective
      /\ Unpaired(acc) = {}
      /\ \A s \in Symbols : Matches(Requests(acc)[s], values[s])
  BY <1>3, <1>1, <1>2
<1> QED
  BY <1>4 DEF acc

(* What is copied and read are fragments; a .config under check is one Kconfig *)
(* resolves the copies to; a verdict is the judgement on what was read.        *)
PhaseInv ==
    /\ kconfig \in Worlds
    /\ disk \in Seq(Seq(Line)) /\ Len(disk) = 4
    /\ staged \in Seq(Seq(Line))
    /\ read \in Seq(Seq(Line))
    /\ verdict \notin {"staging", "failed"} =>
          config \in Resolutions(kconfig, FlattenSeq(staged))
    /\ verdict \notin {"staging", "checking", "failed"} =>
          verdict = Judgement(FlattenSeq(read), config)

LEMMA PhaseInit == Init => PhaseInv
<1> SUFFICES ASSUME Init PROVE PhaseInv
  OBVIOUS
<1>1. \A f \in Fragments : Texts[f] \subseteq Seq(Line)
  BY ConfigAssumption DEF ConfigAssumption
<1>2. /\ Texts[1] \subseteq Seq(Line) /\ Texts[2] \subseteq Seq(Line)
      /\ Texts[3] \subseteq Seq(Line) /\ Texts[4] \subseteq Seq(Line)
  BY <1>1 DEF Fragments
<1>3. PICK a \in Texts[1], b \in Texts[2], c \in Texts[3], d \in Texts[4] :
         disk = <<a, b, c, d>>
  BY DEF Init
<1>4. disk \in Seq(Seq(Line)) /\ Len(disk) = 4
  <2>1. a \in Seq(Line) /\ b \in Seq(Line) /\ c \in Seq(Line) /\ d \in Seq(Line)
    BY <1>2, <1>3
  <2> HIDE DEF Line
  <2> QED
    BY <1>3, <2>1
<1> QED
  BY <1>4 DEF Init, PhaseInv

(* Saving another text over a fragment leaves as many fragments as before. *)
LEMMA EditedFragments ==
    ASSUME NEW before \in Seq(Seq(Line)), NEW i \in 1 .. Len(before), NEW text \in Seq(Line),
           NEW after, after = [before EXCEPT ![i] = text]
    PROVE  after \in Seq(Seq(Line)) /\ Len(after) = Len(before)
<1> DEFINE S == Seq(Line)
<1> HIDE DEF S
<1>1. before \in Seq(S) /\ text \in S
  BY DEF S
<1>2. after \in Seq(S) /\ Len(after) = Len(before)
  BY <1>1, ExceptSeq
<1> QED
  BY <1>2 DEF S

LEMMA PhaseStep == PhaseInv /\ [Next]_vars => PhaseInv'
<1> SUFFICES ASSUME PhaseInv, [Next]_vars PROVE PhaseInv'
  OBVIOUS
<1> USE DEF PhaseInv
<1>1. CASE StageFragment
  <2>1. disk[Len(staged) + 1] \in Seq(Line)
    <3>1. Len(staged) \in Nat /\ Len(staged) < Len(disk) /\ Len(disk) \in Nat
      BY <1>1, LenProperties DEF StageFragment
    <3>2. Len(staged) + 1 \in 1 .. Len(disk)
      BY <3>1
    <3> QED
      BY <3>2, ElementOfSeq
  <2> QED
    BY <1>1, <2>1 DEF StageFragment
<1>2. CASE Configure
  BY <1>2 DEF Configure
<1>3. CASE ConfigureFails
  BY <1>3 DEF ConfigureFails
<1>4. CASE ReadFragment
  <2>1. disk[Len(read) + 1] \in Seq(Line)
    <3>1. Len(read) \in Nat /\ Len(read) < Len(disk) /\ Len(disk) \in Nat
      BY <1>4, LenProperties DEF ReadFragment
    <3>2. Len(read) + 1 \in 1 .. Len(disk)
      BY <3>1
    <3> QED
      BY <3>2, ElementOfSeq
  <2> QED
    BY <1>4, <2>1 DEF ReadFragment
<1>5. CASE Judge
  BY <1>5 DEF Judge
<1>6. CASE \E f \in Edited : Edit(f)
  <2>1. PICK f \in Edited : Edit(f)
    BY <1>6
  <2>2. f \in Fragments /\ Texts[f] \subseteq Seq(Line)
    BY ConfigAssumption DEF ConfigAssumption
  <2>3. PICK text \in Texts[f] : disk' = [disk EXCEPT ![f] = text]
    BY <2>1 DEF Edit
  <2>4. text \in Seq(Line)
    BY <2>2, <2>3
  <2>5. disk' \in Seq(Seq(Line)) /\ Len(disk') = 4
    <3>1. f \in 1 .. Len(disk)
      BY <2>2 DEF Fragments
    <3> QED
      BY <2>3, <2>4, <3>1, EditedFragments
  <2> QED
    BY <2>1, <2>5 DEF Edit
<1>7. CASE UNCHANGED vars
  BY <1>7 DEF vars
<1> QED
  BY <1>1, <1>2, <1>3, <1>4, <1>5, <1>6, <1>7 DEF Next

LEMMA PhaseHolds == Spec => []PhaseInv
  BY PhaseInit, PhaseStep, PTL DEF Spec

(***************************************************************************)
(* An accepted .config honours the last boolean request about every symbol *)
(* in the fragments as checked, whatever the fragments hold: the maps of   *)
(* check_fragment_options keep exactly what verify_fragment_options needs. *)
(***************************************************************************)
THEOREM RequestsStayHonoured == Spec => []RequestsAreHonoured
<1>1. PhaseInv => RequestsAreHonoured
  <2> SUFFICES ASSUME PhaseInv, verdict = "accepted",
                      NEW i \in DOMAIN FlattenSeq(read),
                      \A j \in i + 1 .. Len(FlattenSeq(read)) :
                         FlattenSeq(read)[j].symbol = FlattenSeq(read)[i].symbol
                           => FlattenSeq(read)[j].kind \notin {"on", "off"}
               PROVE  LET line == FlattenSeq(read)[i] IN
                      /\ line.kind = "on" => config[line.symbol] = "y"
                      /\ /\ line.kind = "off"
                         /\ ~\E j \in DOMAIN FlattenSeq(read) :
                               FlattenSeq(read)[j] = [kind |-> "forced", symbol |-> line.symbol]
                         => config[line.symbol] = "unset"
    BY DEF RequestsAreHonoured
  <2> DEFINE lines == FlattenSeq(read)
             acc == Scanned(Unscanned, lines)
             s == lines[i].symbol
  <2>1. lines \in Seq(Line)
    BY FlatType DEF PhaseInv
  <2>2. About(lines, acc)
    BY <2>1, ScannedAbout
  <2>3. Judgement(lines, config) = "accepted"
    BY DEF PhaseInv
  <2>4. acc \in Acc
    BY <2>2 DEF About
  <2>5. \A t \in Symbols : Matches(Requests(acc)[t], config[t])
    BY <2>3, <2>4, AcceptedMeans
  <2> HIDE DEF acc, lines
  <2>6. DOMAIN lines = 1 .. Len(lines) /\ i \in 1 .. Len(lines) /\ lines[i] \in Line
    BY <2>1 DEF lines
  <2>7. s \in Symbols
    BY <2>6 DEF Line
  <2>8. lines[i].kind \in {"on", "off"} => acc.requested[s] = lines[i].kind
    BY <2>2, <2>6 DEF About, lines
  <2>9. Matches(Requests(acc)[s], config[s])
    BY <2>5, <2>7
  <2>10. Requests(acc)[s] = IF s \in acc.forced THEN "forced" ELSE acc.requested[s]
    BY <2>7 DEF Requests
  <2>11. lines[i].kind = "on" => config[s] = "y"
    BY <2>8, <2>9, <2>10 DEF Matches
  <2>12. ASSUME lines[i].kind = "off",
                ~\E j \in DOMAIN lines : lines[j] = [kind |-> "forced", symbol |-> s]
         PROVE  config[s] = "unset"
    <3>1. s \notin acc.forced
      BY <2>2, <2>6, <2>12 DEF About
    <3> QED
      BY <2>8, <2>9, <2>10, <2>12, <3>1 DEF Matches
  <2> QED
    BY <2>11, <2>12 DEF lines
<1> QED
  BY <1>1, PhaseHolds, PTL

(* A resolved value is a selected one, switched off, or the preferred one. *)
LEMMA ResolvedMeans ==
    ASSUME NEW w, NEW lines, NEW values \in Resolutions(w, lines), NEW s \in Symbols
    PROVE  Selected(w, values, s) \/ values[s] \in {"unset", Preferred(w, lines, s)}
<1> DEFINE preferred == [t \in Symbols |-> Preferred(w, lines, t)]
           bound == {p[2] : p \in w.selects} \cup {p[1] : p \in w.needs}
           Unmet(v, t) == \E u \in Symbols : <<t, u>> \in w.needs /\ v[u] # "y"
           With(f) == [t \in Symbols |-> IF t \in bound THEN f[t] ELSE preferred[t]]
<1>1. /\ values \in {With(f) : f \in [bound -> Values]}
      /\ \A t \in bound :
            values[t] = CASE Selected(w, values, t) -> "y"
                          [] Unmet(values, t)       -> "unset"
                          [] OTHER                  -> preferred[t]
  BY Zenon DEF Resolutions
<1> HIDE DEF bound
<1>2. CASE s \in bound
  <2>1. values[s] = CASE Selected(w, values, s) -> "y"
                      [] Unmet(values, s)       -> "unset"
                      [] OTHER                  -> preferred[s]
    BY <1>1, <1>2
  <2>2. preferred[s] = Preferred(w, lines, s)
    OBVIOUS
  <2> HIDE DEF preferred, Unmet
  <2> QED
    BY <2>1, <2>2
<1>3. CASE s \notin bound
  <2>1. PICK f \in [bound -> Values] : values = With(f)
    BY <1>1
  <2>2. values[s] = Preferred(w, lines, s)
    BY <1>3, <2>1
  <2> QED
    BY <2>2
<1> QED
  BY <1>2, <1>3

(* An off request with nothing but markers after it is what the merge leaves. *)
LEMMA MergedOff ==
    ASSUME NEW lines \in Seq(Line), NEW s, NEW k \in 1 .. Len(lines),
           lines[k].symbol = s, lines[k].kind = "off",
           \A j \in k + 1 .. Len(lines) : lines[j].symbol = s => lines[j].kind = "forced"
    PROVE  Merged(lines, s) = "unset"
<1> DEFINE I == {i \in 1 .. Len(lines) : lines[i].symbol = s /\ lines[i].kind # "forced"}
<1>1. k \in I /\ I \in SUBSET (1 .. Len(lines)) /\ Len(lines) \in Nat /\ I # {}
  OBVIOUS
<1>2. Max(I) \in I /\ Max(I) >= k
  <2> HIDE DEF I
  <2> QED
    BY <1>1, MaxIsGreatest
<1>3. Max(I) = k
  <2> SUFFICES ASSUME Max(I) # k PROVE FALSE
    OBVIOUS
  <2>1. Max(I) \in k + 1 .. Len(lines)
    BY <1>1, <1>2
  <2> QED
    BY <1>2, <2>1
<1>4. SelectLastInSeq(lines, LAMBDA l : l.symbol = s /\ l.kind # "forced")
        = IF I # {} THEN Max(I) ELSE 0
  BY DEF SelectLastInSeq
<1> HIDE DEF I
<1>5. SelectLastInSeq(lines, LAMBDA l : l.symbol = s /\ l.kind # "forced") = k
  BY <1>1, <1>3, <1>4
<1> QED
  BY <1>5 DEF Merged

(***************************************************************************)
(* A forced marker is accepted only when Kconfig itself keeps the symbol   *)
(* on, whatever the fragments hold and in whatever order: the off request  *)
(* that has to come last, and the refusal of pins, leave no other reason   *)
(* (the pairing in check_fragment_options).                                *)
(***************************************************************************)
THEOREM ForcingStaysReal == Spec => []ForcingIsReal
<1>1. PhaseInv => ForcingIsReal
  <2> SUFFICES ASSUME PhaseInv, verdict = "accepted", read = staged, NEW s \in Symbols,
                      NEW i \in DOMAIN FlattenSeq(read),
                      FlattenSeq(read)[i] = [kind |-> "forced", symbol |-> s]
               PROVE  \/ Selected(kconfig, config, s)
                      \/ s \in kconfig.promptless /\ kconfig.default[s] = "y"
    BY DEF ForcingIsReal
  <2> DEFINE lines == FlattenSeq(read)
             acc == Scanned(Unscanned, lines)
  <2>1. lines \in Seq(Line)
    BY FlatType DEF PhaseInv
  <2>2. About(lines, acc)
    BY <2>1, ScannedAbout
  <2>3. Judgement(lines, config) = "accepted"
    BY DEF PhaseInv
  <2>4. acc \in Acc
    BY <2>2 DEF About
  <2>5. /\ acc.effective
        /\ Unpaired(acc) = {}
        /\ \A t \in Symbols : Matches(Requests(acc)[t], config[t])
    BY <2>3, <2>4, AcceptedMeans
  <2>6. config \in Resolutions(kconfig, lines) /\ kconfig \in Worlds
    BY DEF PhaseInv
  <2>7. lines[i] = [kind |-> "forced", symbol |-> s] /\ i \in DOMAIN lines
    OBVIOUS
  <2> HIDE DEF acc, lines
  <2>8. DOMAIN lines = 1 .. Len(lines) /\ i \in 1 .. Len(lines)
    BY <2>1, <2>7
  <2>9. s \in acc.forced
    BY <2>2, <2>7, <2>8 DEF About
  <2>10. config[s] = "y"
    BY <2>5, <2>9 DEF Matches, Requests
  <2>11. acc.submitted[s] = "off"
    BY <2>5, <2>9 DEF Unpaired
  <2>12. PICK k \in 1 .. Len(lines) :
            /\ lines[k].symbol = s /\ lines[k].kind = "off"
            /\ \A j \in k + 1 .. Len(lines) :
                  lines[j].symbol = s => lines[j].kind \in {"forced", "ineffective"}
    BY <2>2, <2>11 DEF About
  <2>13. \A j \in k + 1 .. Len(lines) : lines[j].symbol = s => lines[j].kind = "forced"
    <3>1. \A j \in k + 1 .. Len(lines) : j \in 1 .. Len(lines)
      BY <2>1
    <3> QED
      BY <2>2, <2>5, <2>12, <3>1 DEF About
  <2>14. Merged(lines, s) = "unset"
    BY <2>1, <2>12, <2>13, MergedOff
  <2>15. ASSUME ~Selected(kconfig, config, s)
         PROVE  s \in kconfig.promptless /\ kconfig.default[s] = "y"
    <3>1. Preferred(kconfig, lines, s) = "y"
      BY <2>6, <2>10, <2>15, ResolvedMeans
    <3>2. s \in Strings => kconfig.default[s] # "y"
      BY <2>6, KconfigAssumption DEF KconfigAssumption
    <3> QED
      BY <2>14, <3>1, <3>2 DEF Preferred
  <2> QED
    BY <2>15
<1> QED
  BY <1>1, PhaseHolds, PTL

-----------------------------------------------------------------------------
(* Where the markers stand. *)

Picked(lines, marker) ==
    [i \in DOMAIN lines |-> IF (lines[i].kind = "forced") = marker THEN <<lines[i]>> ELSE <<>>]

(* The lines picked so far: each line either joins them or is passed over. *)
LEMMA PickSteps ==
    ASSUME NEW lines \in Seq(Line), NEW marker \in BOOLEAN
    PROVE  \E F : /\ F[0] = <<>>
                  /\ \A n \in 0 .. Len(lines) : F[n] \in Seq(Line)
                  /\ \A n \in 1 .. Len(lines) :
                        F[n] = IF (lines[n].kind = "forced") = marker
                               THEN Append(F[n - 1], lines[n]) ELSE F[n - 1]
                  /\ FlattenSeq(Picked(lines, marker)) = F[Len(lines)]
<1> DEFINE N == Len(lines)
           seqs == Picked(lines, marker)
<1>1. N \in Nat /\ DOMAIN lines = 1 .. N
  OBVIOUS
<1>2. ASSUME NEW n \in 1 .. N
      PROVE  /\ lines[n] \in Line
             /\ seqs[n] \in Seq(Line)
             /\ seqs[n] = IF (lines[n].kind = "forced") = marker THEN <<lines[n]>> ELSE <<>>
  BY <1>1 DEF Picked
<1>3. seqs \in Seq(Seq(Line)) /\ Len(seqs) = N
  <2> DEFINE S == Seq(Line)
  <2>1. seqs \in [1 .. N -> S]
    BY <1>1, <1>2 DEF Picked
  <2> HIDE DEF S, seqs
  <2>2. seqs \in Seq(S) /\ Len(seqs) = N
    BY <1>1, <2>1
  <2> QED
    BY <2>2 DEF S
<1>4. CASE N = 0
  <2> DEFINE F == [n \in 0 .. 0 |-> <<>>]
  <2>1. seqs = <<>>
    <3> HIDE DEF seqs
    <3> QED
      BY <1>3, <1>4
  <2>2. FlattenSeq(seqs) = <<>>
    <3>1. FlattenSeq(seqs) = seqs
      <4> HIDE DEF seqs
      <4> QED
        BY <1>3, <1>4 DEF FlattenSeq
    <3> QED
      BY <2>1, <3>1
  <2>3. /\ F[0] = <<>>
        /\ \A n \in 0 .. Len(lines) : F[n] \in Seq(Line)
        /\ FlattenSeq(seqs) = F[Len(lines)]
    <3> HIDE DEF seqs
    <3> QED
      BY <1>4, <2>2
  <2>4. 1 .. Len(lines) = {}
    BY <1>4
  <2> HIDE DEF F
  <2> QED
    BY <2>3, <2>4
<1>5. CASE N # 0
  <2> HIDE DEF seqs
  <2>1. PICK f : /\ f[1] = seqs[1]
                 /\ \A i \in 2 .. Len(seqs) : f[i] = f[i - 1] \o seqs[i]
                 /\ FlattenSeq(seqs) = f[Len(seqs)]
    BY <1>1, <1>3, <1>5, FlatSteps
  <2> DEFINE F == [n \in 0 .. N |-> IF n = 0 THEN <<>> ELSE f[n]]
             T == {n \in Nat : n <= N => F[n] \in Seq(Line)}
  <2>2. ASSUME NEW n \in 1 .. N, F[n - 1] \in Seq(Line)
        PROVE  /\ F[n] = IF (lines[n].kind = "forced") = marker
                         THEN Append(F[n - 1], lines[n]) ELSE F[n - 1]
               /\ F[n] \in Seq(Line)
    <3>1. F[n] = F[n - 1] \o seqs[n]
      <4>1. CASE n = 1
        <5>1. F[n - 1] = <<>> /\ F[n] = seqs[1]
          BY <1>1, <2>1, <4>1
        <5> QED
          BY <1>2, <4>1, <5>1
      <4>2. CASE n # 1
        <5>1. n \in 2 .. Len(seqs) /\ n - 1 \in 0 .. N /\ n - 1 # 0
          BY <1>1, <1>3, <4>2
        <5>2. F[n - 1] = f[n - 1] /\ F[n] = f[n]
          BY <1>1, <5>1
        <5> QED
          BY <2>1, <5>1, <5>2
      <4> QED
        BY <4>1, <4>2
    <3> HIDE DEF F
    <3>2. CASE (lines[n].kind = "forced") = marker
      <4>1. seqs[n] = <<lines[n]>>
        BY <1>2, <3>2
      <4>2. F[n - 1] \o <<lines[n]>> = Append(F[n - 1], lines[n])
        BY <1>2, <2>2, AppendIsConcat
      <4>3. Append(F[n - 1], lines[n]) \in Seq(Line)
        BY <1>2, <2>2
      <4> QED
        BY <3>1, <3>2, <4>1, <4>2, <4>3
    <3>3. CASE (lines[n].kind = "forced") # marker
      <4>1. seqs[n] = <<>>
        BY <1>2, <3>3
      <4>2. F[n - 1] \o <<>> = F[n - 1]
        BY <2>2, ConcatEmptySeq
      <4> QED
        BY <2>2, <3>1, <3>3, <4>1, <4>2
    <3> QED
      BY <3>2, <3>3
  <2>3. Nat \subseteq T
    <3>1. 0 \in T
      BY <1>1
    <3>2. ASSUME NEW n \in Nat, n \in T PROVE n + 1 \in T
      <4> SUFFICES ASSUME n + 1 <= N PROVE F[n + 1] \in Seq(Line)
        OBVIOUS
      <4> HIDE DEF F
      <4>1. n + 1 \in 1 .. N /\ (n + 1) - 1 = n /\ n <= N
        BY <1>1
      <4>2. F[(n + 1) - 1] \in Seq(Line)
        BY <3>2, <4>1
      <4> QED
        BY <2>2, <4>1, <4>2
    <3> HIDE DEF T
    <3> QED
      BY <3>1, <3>2, SetInduction
  <2>4. \A n \in 0 .. Len(lines) : F[n] \in Seq(Line)
    <3> HIDE DEF F
    <3> QED
      BY <1>1, <2>3
  <2>5. F[0] = <<>> /\ FlattenSeq(seqs) = F[Len(lines)]
    BY <1>1, <1>3, <1>5, <2>1
  <2> HIDE DEF F, T
  <2>6. ASSUME NEW n \in 1 .. Len(lines)
        PROVE  F[n] = IF (lines[n].kind = "forced") = marker
                      THEN Append(F[n - 1], lines[n]) ELSE F[n - 1]
    <3>1. n - 1 \in 0 .. Len(lines)
      BY <1>1
    <3> QED
      BY <2>2, <2>4, <3>1
  <2> QED
    BY <2>4, <2>5, <2>6 DEF seqs
<1> QED
  BY <1>4, <1>5

Marked(acc, symbols) == [acc EXCEPT !.forced = symbols]

(* A line that is no marker does the same whatever symbols are marked. *)
LEMMA ScanMarked ==
    ASSUME NEW acc \in Acc, NEW line \in Line, NEW symbols \in SUBSET Symbols,
           line.kind # "forced"
    PROVE  Scan(Marked(acc, symbols), line) = Marked(Scan(acc, line), symbols)
<1> DEFINE a == Marked(acc, symbols)
<1>1. /\ a \in Acc /\ a.forced = symbols /\ a.effective = acc.effective
      /\ a.requested = acc.requested /\ a.submitted = acc.submitted /\ a.onPins = acc.onPins
  BY DEF Marked, Acc
<1> HIDE DEF a
<1> DEFINE b == Scan(a, line)
           c == Scan(acc, line)
<1>2. /\ b \in Acc /\ c \in Acc
      /\ b.effective = c.effective /\ b.requested = c.requested
      /\ b.submitted = c.submitted /\ b.onPins = c.onPins
      /\ b.forced = symbols
  <2>1. /\ b \in Acc
        /\ b.effective = (a.effective /\ line.kind # "ineffective")
        /\ b.requested = IF line.kind \in {"on", "off"}
                         THEN [a.requested EXCEPT ![line.symbol] = line.kind] ELSE a.requested
        /\ b.submitted = IF Submits(line) # "none"
                         THEN [a.submitted EXCEPT ![line.symbol] = Submits(line)]
                         ELSE a.submitted
        /\ b.onPins = IF line.kind = "on" THEN a.onPins \cup {line.symbol} ELSE a.onPins
        /\ b.forced = IF line.kind = "forced" THEN a.forced \cup {line.symbol} ELSE a.forced
    BY <1>1, ScanFields
  <2>2. /\ c \in Acc
        /\ c.effective = (acc.effective /\ line.kind # "ineffective")
        /\ c.requested = IF line.kind \in {"on", "off"}
                         THEN [acc.requested EXCEPT ![line.symbol] = line.kind]
                         ELSE acc.requested
        /\ c.submitted = IF Submits(line) # "none"
                         THEN [acc.submitted EXCEPT ![line.symbol] = Submits(line)]
                         ELSE acc.submitted
        /\ c.onPins = IF line.kind = "on" THEN acc.onPins \cup {line.symbol} ELSE acc.onPins
    BY ScanFields
  <2> HIDE DEF b, c
  <2> QED
    BY <1>1, <2>1, <2>2
<1> HIDE DEF b, c
<1>3. b = Marked(c, symbols)
  BY <1>2 DEF Marked, Acc
<1> QED
  BY <1>3 DEF a, b, c

(* Appending after a concatenation. *)
LEMMA ConcatAppend ==
    ASSUME NEW a \in Seq(Line), NEW b \in Seq(Line), NEW line \in Line
    PROVE  a \o Append(b, line) = Append(a \o b, line)
OBVIOUS

(* A marker only marks. *)
LEMMA ScanMarker ==
    ASSUME NEW acc \in Acc, NEW line \in Line, line.kind = "forced"
    PROVE  Scan(acc, line) = Marked(acc, acc.forced \cup {line.symbol})
BY DEF Scan, Marked, Acc

(* Moving the markers to the front changes nothing in the accumulator. *)
LEMMA MarkersFirstScanned ==
    ASSUME NEW lines \in Seq(Line)
    PROVE  Scanned(Unscanned, MarkersFirst(lines)) = Scanned(Unscanned, lines)
<1> DEFINE N == Len(lines)
<1>1. N \in Nat /\ \A n \in 1 .. N : lines[n] \in Line
  OBVIOUS
<1>2. PICK P : /\ P[0] = Unscanned
               /\ \A n \in 1 .. Len(lines) : P[n] = Scan(P[n - 1], lines[n])
               /\ Scanned(Unscanned, lines) = P[Len(lines)]
  BY FoldSteps
<1>3. PICK F : /\ F[0] = <<>>
               /\ \A n \in 0 .. Len(lines) : F[n] \in Seq(Line)
               /\ \A n \in 1 .. Len(lines) :
                     F[n] = IF (lines[n].kind = "forced") = TRUE
                            THEN Append(F[n - 1], lines[n]) ELSE F[n - 1]
               /\ FlattenSeq(Picked(lines, TRUE)) = F[Len(lines)]
  BY PickSteps
<1>4. PICK G : /\ G[0] = <<>>
               /\ \A n \in 0 .. Len(lines) : G[n] \in Seq(Line)
               /\ \A n \in 1 .. Len(lines) :
                     G[n] = IF (lines[n].kind = "forced") = FALSE
                            THEN Append(G[n - 1], lines[n]) ELSE G[n - 1]
               /\ FlattenSeq(Picked(lines, FALSE)) = G[Len(lines)]
  BY PickSteps
<1>5. MarkersFirst(lines) = F[N] \o G[N]
  BY <1>3, <1>4 DEF MarkersFirst, Picked
<1>6. Unscanned \in Acc /\ Unscanned.forced = {}
  BY DEF Unscanned, Acc
<1>7. \A n \in 0 .. N : P[n] \in Acc
  <2> DEFINE T == {n \in Nat : n <= N => P[n] \in Acc}
  <2>1. 0 \in T
    BY <1>2, <1>6
  <2>2. ASSUME NEW n \in Nat, n \in T PROVE n + 1 \in T
    <3> SUFFICES ASSUME n + 1 <= N PROVE P[n + 1] \in Acc
      OBVIOUS
    <3>1. n + 1 \in 1 .. N /\ (n + 1) - 1 = n /\ n <= N
      BY <1>1
    <3>2. P[n + 1] = Scan(P[n], lines[n + 1]) /\ P[n] \in Acc /\ lines[n + 1] \in Line
      BY <1>1, <1>2, <2>2, <3>1
    <3> QED
      BY <3>2, ScanFields
  <2>3. Nat \subseteq T
    <3> HIDE DEF T
    <3> QED
      BY <2>1, <2>2, SetInduction
  <2> QED
    BY <1>1, <2>3
<1>8. \A n \in 0 .. N : Scanned(Unscanned, F[n]) = Marked(Unscanned, P[n].forced)
  <2> DEFINE T == {n \in Nat : n <= N =>
                     Scanned(Unscanned, F[n]) = Marked(Unscanned, P[n].forced)}
  <2>1. 0 \in T
    <3>1. 0 \in 0 .. N
      BY <1>1
    <3>2. F[0] \in Seq(Line) /\ Len(F[0]) = 0
      BY <1>3, <3>1
    <3>3. Scanned(Unscanned, F[0]) = Unscanned
      BY <3>2, FoldEmpty
    <3>4. Marked(Unscanned, {}) = Unscanned
      BY <1>6 DEF Marked, Acc
    <3> QED
      BY <1>2, <1>6, <3>3, <3>4
  <2>2. ASSUME NEW n \in Nat, n \in T PROVE n + 1 \in T
    <3> SUFFICES ASSUME n + 1 <= N
                 PROVE  Scanned(Unscanned, F[n + 1]) = Marked(Unscanned, P[n + 1].forced)
      OBVIOUS
    <3>1. n + 1 \in 1 .. N /\ (n + 1) - 1 = n /\ n <= N /\ n \in 0 .. N
      BY <1>1
    <3> DEFINE line == lines[n + 1]
    <3>2. /\ P[n + 1] = Scan(P[n], line) /\ P[n] \in Acc
          /\ line \in Line /\ F[n] \in Seq(Line)
          /\ Scanned(Unscanned, F[n]) = Marked(Unscanned, P[n].forced)
      BY <1>1, <1>2, <1>3, <1>7, <2>2, <3>1
    <3>3. F[n + 1] = IF line.kind = "forced" THEN Append(F[n], line) ELSE F[n]
      BY <1>3, <3>1
    <3>4. P[n + 1].forced = IF line.kind = "forced" THEN P[n].forced \cup {line.symbol}
                            ELSE P[n].forced
      <4> HIDE DEF line
      <4> QED
        BY <3>2, ScanFields
    <3> HIDE DEF line
    <3>5. CASE line.kind = "forced"
      <4>1. Scanned(Unscanned, F[n + 1]) = Scan(Marked(Unscanned, P[n].forced), line)
        BY <3>2, <3>3, <3>5, FoldAppend
      <4>2. /\ Marked(Unscanned, P[n].forced) \in Acc
            /\ Marked(Unscanned, P[n].forced).forced = P[n].forced
        BY <1>6, <3>2 DEF Marked, Acc
      <4>3. Scan(Marked(Unscanned, P[n].forced), line)
              = Marked(Marked(Unscanned, P[n].forced), P[n].forced \cup {line.symbol})
        BY <3>2, <3>5, <4>2, ScanMarker
      <4>4. Marked(Marked(Unscanned, P[n].forced), P[n].forced \cup {line.symbol})
              = Marked(Unscanned, P[n].forced \cup {line.symbol})
        BY DEF Marked, Unscanned
      <4> QED
        BY <3>4, <3>5, <4>1, <4>3, <4>4
    <3>6. CASE line.kind # "forced"
      BY <3>2, <3>3, <3>4, <3>6
    <3> QED
      BY <3>5, <3>6
  <2>3. Nat \subseteq T
    <3> HIDE DEF T
    <3> QED
      BY <2>1, <2>2, SetInduction
  <2> QED
    BY <1>1, <2>3
<1> DEFINE all == P[N].forced
<1>9. N \in 0 .. N /\ F[N] \in Seq(Line) /\ P[N] \in Acc /\ all \in SUBSET Symbols
  <2>1. N \in 0 .. N
    BY <1>1
  <2> QED
    BY <1>3, <1>7, <2>1 DEF Acc
<1>10. \A n \in 0 .. N : Scanned(Unscanned, F[N] \o G[n]) = Marked(P[n], all)
  <2> HIDE DEF all
  <2> DEFINE T == {n \in Nat : n <= N =>
                     Scanned(Unscanned, F[N] \o G[n]) = Marked(P[n], all)}
  <2>1. 0 \in T
    <3>1. F[N] \o G[0] = F[N]
      BY <1>4, <1>9, ConcatEmptySeq
    <3>2. Scanned(Unscanned, F[N]) = Marked(Unscanned, all)
      BY <1>8, <1>9 DEF all
    <3> QED
      BY <1>2, <3>1, <3>2
  <2>2. ASSUME NEW n \in Nat, n \in T PROVE n + 1 \in T
    <3> SUFFICES ASSUME n + 1 <= N
                 PROVE  Scanned(Unscanned, F[N] \o G[n + 1]) = Marked(P[n + 1], all)
      OBVIOUS
    <3>1. n + 1 \in 1 .. N /\ (n + 1) - 1 = n /\ n <= N /\ n \in 0 .. N
      BY <1>1
    <3> DEFINE line == lines[n + 1]
    <3>2. /\ P[n + 1] = Scan(P[n], line) /\ P[n] \in Acc
          /\ line \in Line /\ G[n] \in Seq(Line)
          /\ Scanned(Unscanned, F[N] \o G[n]) = Marked(P[n], all)
      BY <1>1, <1>2, <1>4, <1>7, <2>2, <3>1
    <3>3. G[n + 1] = IF line.kind = "forced" THEN G[n] ELSE Append(G[n], line)
      BY <1>4, <3>1
    <3> HIDE DEF line
    <3>4. CASE line.kind = "forced"
      <4>1. P[n + 1] = Marked(P[n], P[n].forced \cup {line.symbol})
        BY <3>2, <3>4, ScanMarker
      <4>2. Marked(Marked(P[n], P[n].forced \cup {line.symbol}), all) = Marked(P[n], all)
        BY <3>2 DEF Marked, Acc
      <4> QED
        BY <3>2, <3>3, <3>4, <4>1, <4>2
    <3>5. CASE line.kind # "forced"
      <4>1. F[N] \o Append(G[n], line) = Append(F[N] \o G[n], line)
        BY <1>9, <3>2, ConcatAppend
      <4>2. F[N] \o G[n] \in Seq(Line)
        BY <1>9, <3>2
      <4>3. Scanned(Unscanned, F[N] \o G[n + 1]) = Scan(Marked(P[n], all), line)
        <5> DEFINE before == F[N] \o G[n]
        <5>1. before \in Seq(Line) /\ F[N] \o G[n + 1] = Append(before, line)
          BY <3>3, <3>5, <4>1, <4>2
        <5>2. Scanned(Unscanned, before) = Marked(P[n], all)
          BY <3>2
        <5> HIDE DEF before
        <5>3. Scanned(Unscanned, Append(before, line)) = Scan(Scanned(Unscanned, before), line)
          BY <3>2, <5>1, FoldAppend
        <5> QED
          BY <5>1, <5>2, <5>3
      <4>4. Scan(Marked(P[n], all), line) = Marked(P[n + 1], all)
        BY <1>9, <3>2, <3>5, ScanMarked
      <4> QED
        BY <4>3, <4>4
    <3> QED
      BY <3>4, <3>5
  <2>3. Nat \subseteq T
    <3> HIDE DEF T
    <3> QED
      BY <2>1, <2>2, SetInduction
  <2> QED
    BY <1>1, <2>3
<1>11. Marked(P[N], all) = P[N]
  BY <1>9 DEF Marked, Acc
<1> QED
  BY <1>2, <1>5, <1>9, <1>10, <1>11

(***************************************************************************)
(* The verdict does not depend on where the forced markers stand, in any   *)
(* fragment of any merge (the marker is kept aside from the maps that the  *)
(* order of the lines decides, in check_fragment_options).                 *)
(***************************************************************************)
THEOREM MarkerPlaceStaysFree == Spec => []MarkerPlaceIsFree
<1>1. PhaseInv => MarkerPlaceIsFree
  <2> SUFFICES ASSUME PhaseInv, verdict \notin {"staging", "checking", "failed"}
               PROVE  verdict = Judgement(MarkersFirst(FlattenSeq(read)), config)
    BY DEF MarkerPlaceIsFree
  <2> DEFINE lines == FlattenSeq(read)
             moved == MarkersFirst(lines)
  <2>1. lines \in Seq(Line)
    BY FlatType DEF PhaseInv
  <2>2. Scanned(Unscanned, moved) = Scanned(Unscanned, lines)
    BY <2>1, MarkersFirstScanned
  <2>3. verdict = Judgement(lines, config)
    BY DEF PhaseInv
  <2> HIDE DEF lines, moved
  <2>4. CheckFragments(moved, config) = CheckFragments(lines, config)
    BY <2>2, CheckScanned
  <2>5. Judgement(moved, config) = Judgement(lines, config)
    BY <2>4 DEF Judgement
  <2> QED
    BY <2>3, <2>5 DEF moved, lines
<1> QED
  BY <1>1, PhaseHolds, PTL
=============================================================================
