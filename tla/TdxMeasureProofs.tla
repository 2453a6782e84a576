-------------------------- MODULE TdxMeasureProofs --------------------------
(***************************************************************************)
(* Theorems about the containers of a TD and RTMR[3], for every set of     *)
(* containers and any number of them in a pod; about what verify says of a *)
(* saved log; and about what measure predicts, for every set of machines,  *)
(* images and damages to logs.                                             *)
(***************************************************************************)
EXTENDS TdxMeasure, FiniteSetTheorems, SequenceInduction, TLAPS

Refs == {c.ref : c \in Containers}
Types == {c.type : c \in Containers}
Hashes == {c.ref.hash : c \in {d \in Containers : d.ref # None}}
States == {"created", "hooked", "running", "refused", "failed"}
Container == [ref : Refs, type : Types, state : States]
EventDigest == [sha256 : Hashes, upper : {FALSE}]

(* The hook has extended RTMR[3] for the container. *)
Extended(c) == c.type = "container" /\ c.state \in {"hooked", "running", "failed"}

ExtendedWith(h) == {i \in DOMAIN pod : Extended(pod[i]) /\ pod[i].ref.hash = h}
HeldOf(h) == {k \in DOMAIN td.rtmr3 : td.rtmr3[k].sha256 = h}

GuestShape ==
    /\ td = [boot |-> td.boot, rtmr3 |-> td.rtmr3]
    /\ td.rtmr3 \in Seq(EventDigest)
    /\ pod \in Seq(Container)
    /\ orderly \in BOOLEAN

(* Only pinned references are extended. *)
PinnedInv == \A i \in DOMAIN pod : Extended(pod[i]) => Pinned(pod[i].ref)

(* RTMR[3] holds each hash exactly as often as it was extended, for containers *)
(* that failed later as well.                                                  *)
CountInv == \A h \in Hashes : Cardinality(ExtendedWith(h)) = Cardinality(HeldOf(h))

(* As long as calls do not overlap, all containers but the last one are done, *)
(* none failed after its hook, and RTMR[3] is the one computed from them.     *)
OrderInv ==
    orderly =>
      /\ \A i \in DOMAIN pod : i # Len(pod) => pod[i].state \in {"running", "refused"}
      /\ \A i \in DOMAIN pod : Extended(pod[i]) => IsLive(pod[i])
      /\ td.rtmr3 = Rtmr3Workloads(LiveRefs(pod))

PodInv == GuestShape /\ PinnedInv /\ CountInv /\ OrderInv

-----------------------------------------------------------------------------
(* References of the live containers. *)

LEMMA ContainerFields ==
    ASSUME NEW c \in Container
    PROVE  /\ c.ref \in Refs /\ c.type \in Types /\ c.state \in States
           /\ c = [ref |-> c.ref, type |-> c.type, state |-> c.state]
BY DEF Container

LEMMA ElementFields ==
    ASSUME NEW p \in Seq(Container), NEW i \in DOMAIN p
    PROVE  p[i] \in Container /\ p[i].ref \in Refs /\ p[i].type \in Types /\ p[i].state \in States
<1>1. p[i] \in Container
  OBVIOUS
<1> QED
  BY <1>1, ContainerFields

(* They are what the references of live containers are. *)
LEMMA LiveOver ==
    ASSUME NEW p \in Seq(Container), NEW S, \A i \in DOMAIN p : IsLive(p[i]) => p[i].ref \in S
    PROVE  LiveRefs(p) \in Seq(S)
<1> DEFINE U == Seq(S)
           seqs == [i \in DOMAIN p |-> IF IsLive(p[i]) THEN <<p[i].ref>> ELSE <<>>]
<1>1. seqs \in [1 .. Len(p) -> U] /\ Len(p) \in Nat
  OBVIOUS
<1> HIDE DEF U, seqs
<1>2. seqs \in Seq(U)
  BY <1>1
<1> QED
  BY <1>2, FlatType DEF LiveRefs, seqs, U

LEMMA LiveType ==
    ASSUME NEW p \in Seq(Container)
    PROVE  LiveRefs(p) \in Seq(Refs)
<1>1. \A i \in DOMAIN p : IsLive(p[i]) => p[i].ref \in Refs
  BY ElementFields
<1> QED
  BY <1>1, LiveOver

(* Another container at the end adds its reference at the end, if it is live. *)
LEMMA LiveAppend ==
    ASSUME NEW p \in Seq(Container), NEW c \in Container
    PROVE  LiveRefs(Append(p, c)) = IF IsLive(c) THEN Append(LiveRefs(p), c.ref) ELSE LiveRefs(p)
<1> DEFINE U == Seq(Refs)
           pick(d) == IF IsLive(d) THEN <<d.ref>> ELSE <<>>
           more == Append(p, c)
           seqs == [i \in DOMAIN p |-> pick(p[i])]
           all == [i \in DOMAIN more |-> pick(more[i])]
<1>1. /\ more \in Seq(Container) /\ Len(more) = Len(p) + 1 /\ Len(p) \in Nat
      /\ DOMAIN more = 1 .. Len(p) + 1 /\ DOMAIN p = 1 .. Len(p)
      /\ more[Len(p) + 1] = c
      /\ \A i \in 1 .. Len(p) : more[i] = p[i]
  OBVIOUS
<1> HIDE DEF more
<1>2. c.ref \in Refs /\ \A i \in DOMAIN p : p[i].ref \in Refs
  BY ContainerFields, ElementFields
<1>3. pick(c) \in U /\ \A i \in DOMAIN p : pick(p[i]) \in U
  BY <1>2
<1> HIDE DEF pick, U
<1>4. seqs \in [1 .. Len(p) -> U]
  BY <1>1, <1>3
<1>5. seqs \in Seq(U) /\ Len(seqs) = Len(p)
  <2> HIDE DEF seqs
  <2> QED
    BY <1>1, <1>4
<1>6. all = Append(seqs, pick(c))
  <2>1. /\ Append(seqs, pick(c)) \in Seq(U)
        /\ Len(Append(seqs, pick(c))) = Len(p) + 1
        /\ Append(seqs, pick(c))[Len(p) + 1] = pick(c)
        /\ \A i \in 1 .. Len(p) : Append(seqs, pick(c))[i] = seqs[i]
    <3> HIDE DEF seqs
    <3> QED
      BY <1>3, <1>5
  <2>2. ASSUME NEW i \in 1 .. Len(p) + 1 PROVE all[i] = Append(seqs, pick(c))[i]
    <3>1. CASE i = Len(p) + 1
      BY <1>1, <2>1, <3>1
    <3>2. CASE i \in 1 .. Len(p)
      <4>1. all[i] = pick(p[i]) /\ seqs[i] = pick(p[i])
        BY <1>1, <3>2
      <4> QED
        BY <2>1, <3>2, <4>1
    <3> QED
      BY <1>1, <3>1, <3>2
  <2>3. all \in [1 .. Len(p) + 1 -> U]
    <3>1. \A i \in 1 .. Len(p) + 1 : more[i] = c \/ \E j \in DOMAIN p : more[i] = p[j]
      BY <1>1
    <3> QED
      BY <1>1, <1>3, <3>1
  <2> HIDE DEF all, seqs
  <2>4. all \in Seq(U) /\ Len(all) = Len(p) + 1
    BY <1>1, <2>3
  <2> QED
    BY <2>1, <2>2, <2>4, SeqEqual
<1>7. FlattenSeq(all) = FlattenSeq(seqs) \o pick(c)
  <2> HIDE DEF all, seqs
  <2> QED
    BY <1>3, <1>5, <1>6, FlatAppend DEF U
<1>8. LiveRefs(p) = FlattenSeq(seqs) /\ LiveRefs(more) = FlattenSeq(all)
  BY DEF LiveRefs, pick
<1>9. LiveRefs(p) \in Seq(Refs)
  BY LiveType
<1> HIDE DEF all, seqs
<1>10. CASE IsLive(c)
  <2>1. pick(c) = <<c.ref>>
    BY <1>10 DEF pick
  <2>2. LiveRefs(p) \o <<c.ref>> = Append(LiveRefs(p), c.ref)
    BY <1>2, <1>9, AppendIsConcat
  <2> QED
    BY <1>7, <1>8, <1>10, <2>1, <2>2 DEF more
<1>11. CASE ~IsLive(c)
  <2>1. pick(c) = <<>>
    BY <1>11 DEF pick
  <2>2. LiveRefs(p) \o <<>> = LiveRefs(p)
    BY <1>9, ConcatEmptySeq
  <2> QED
    BY <1>7, <1>8, <1>11, <2>1, <2>2 DEF more
<1> QED
  BY <1>10, <1>11

(* Only who is live matters. *)
LEMMA LiveSame ==
    ASSUME NEW p, NEW q, DOMAIN p = DOMAIN q,
           \A i \in DOMAIN p : IsLive(p[i]) = IsLive(q[i]) /\ p[i].ref = q[i].ref
    PROVE  LiveRefs(p) = LiveRefs(q)
<1>1. [i \in DOMAIN p |-> IF IsLive(p[i]) THEN <<p[i].ref>> ELSE <<>>]
        = [i \in DOMAIN q |-> IF IsLive(q[i]) THEN <<q[i].ref>> ELSE <<>>]
  OBVIOUS
<1> QED
  BY <1>1 DEF LiveRefs

-----------------------------------------------------------------------------
(* The invariant is kept. *)

(* A TD without containers and extends. *)
LEMMA EmptyPod ==
    pod = <<>> /\ orderly = TRUE /\ td = [boot |-> td.boot, rtmr3 |-> <<>>] => PodInv
<1> SUFFICES ASSUME pod = <<>>, orderly = TRUE, td = [boot |-> td.boot, rtmr3 |-> <<>>]
             PROVE  PodInv
  OBVIOUS
<1>1. td.rtmr3 = <<>> /\ DOMAIN td.rtmr3 = {} /\ DOMAIN pod = {}
  OBVIOUS
<1>2. GuestShape
  BY <1>1 DEF GuestShape
<1>3. PinnedInv
  BY <1>1 DEF PinnedInv
<1>4. CountInv
  <2>1. \A h : ExtendedWith(h) = {} /\ HeldOf(h) = {}
    BY <1>1 DEF ExtendedWith, HeldOf
  <2> QED
    BY <2>1 DEF CountInv
<1>5. LiveRefs(pod) = <<>>
  BY DEF LiveRefs, FlattenSeq
<1>6. Rtmr3Workloads(<<>>) = <<>>
  BY DEF Rtmr3Workloads
<1> QED
  BY <1>1, <1>2, <1>3, <1>4, <1>5, <1>6 DEF PodInv, OrderInv

LEMMA PodInit == Init => PodInv
<1> SUFFICES ASSUME Init PROVE PodInv
  OBVIOUS
<1>1. pod = <<>> /\ orderly = TRUE
  BY DEF Init
<1>2. PICK b \in Boots, r \in {<<>>} : td = [boot |-> b, rtmr3 |-> r]
  BY DEF Init
<1>3. td = [boot |-> td.boot, rtmr3 |-> <<>>]
  BY <1>2
<1> QED
  BY <1>1, <1>3, EmptyPod

LEMMA QuietGuest == PodInv /\ UNCHANGED guest => PodInv'
BY DEF PodInv, GuestShape, PinnedInv, CountInv, OrderInv, ExtendedWith, HeldOf, guest

(* Boot: a new TD has no containers, and an empty register. *)
LEMMA BootKeeps ==
    ASSUME NEW b \in Boots, Boot(b)
    PROVE  PodInv'
<1>1. /\ pod' = <<>> /\ orderly' = TRUE
      /\ td' = [boot |-> b, rtmr3 |-> <<>>]
  BY DEF Boot
<1>2. td' = [boot |-> td'.boot, rtmr3 |-> <<>>]
  BY <1>1
<1>3. (/\ pod = <<>> /\ orderly = TRUE /\ td = [boot |-> td.boot, rtmr3 |-> <<>>]
       => PodInv)'
  BY EmptyPod, PTL
<1> QED
  BY <1>1, <1>2, <1>3

(* Move: what changes in the pod. *)
LEMMA MoveShape ==
    ASSUME GuestShape, NEW i \in DOMAIN pod, NEW from, NEW to \in States, Move(i, from, to)
    PROVE  /\ pod' \in Seq(Container) /\ DOMAIN pod' = DOMAIN pod /\ Len(pod') = Len(pod)
           /\ \A j \in DOMAIN pod :
                /\ pod'[j].ref = pod[j].ref /\ pod'[j].type = pod[j].type
                /\ pod'[j].state = IF j = i THEN to ELSE pod[j].state
                /\ j # i => pod'[j] = pod[j]
           /\ pod[i].state = from
<1> DEFINE c == [pod[i] EXCEPT !.state = to]
<1>1. pod \in Seq(Container) /\ pod[i] \in Container
  BY ElementFields DEF GuestShape
<1>2. c \in Container /\ c.ref = pod[i].ref /\ c.type = pod[i].type /\ c.state = to
  BY <1>1 DEF Container
<1>3. pod' = [pod EXCEPT ![i] = c] /\ pod[i].state = from
  BY DEF Move
<1> HIDE DEF c
<1> QED
  BY <1>1, <1>2, <1>3

(* Whatever does not change for whom RTMR[3] was extended. *)
LEMMA QuietMove ==
    ASSUME PodInv, NEW i \in DOMAIN pod, NEW from, NEW to \in States, Move(i, from, to),
           td' = td, orderly' \in BOOLEAN, orderly' => orderly,
           Extended(pod'[i]) = Extended(pod[i]),
           orderly' => IsLive(pod'[i]) = IsLive(pod[i]),
           from \notin {"running", "refused"}
    PROVE  PodInv'
<1>1. /\ pod' \in Seq(Container) /\ DOMAIN pod' = DOMAIN pod /\ Len(pod') = Len(pod)
      /\ \A j \in DOMAIN pod :
           /\ pod'[j].ref = pod[j].ref /\ pod'[j].type = pod[j].type
           /\ j # i => pod'[j] = pod[j]
      /\ pod[i].state = from
  BY MoveShape DEF PodInv
<1>2. \A j \in DOMAIN pod : Extended(pod'[j]) = Extended(pod[j])
  BY <1>1
<1>3. GuestShape'
  BY <1>1 DEF PodInv, GuestShape
<1>4. PinnedInv'
  BY <1>1, <1>2 DEF PodInv, PinnedInv
<1>5. CountInv'
  <2>1. ASSUME NEW h PROVE ExtendedWith(h)' = ExtendedWith(h) /\ HeldOf(h)' = HeldOf(h)
    BY <1>1, <1>2 DEF ExtendedWith, HeldOf
  <2> QED
    BY <2>1 DEF PodInv, CountInv
<1>6. OrderInv'
  <2> SUFFICES ASSUME orderly' PROVE OrderInv'
    BY DEF OrderInv
  <2>1. \A j \in DOMAIN pod : IsLive(pod'[j]) = IsLive(pod[j])
    BY <1>1
  <2>2. LiveRefs(pod') = LiveRefs(pod)
    BY <1>1, <2>1, LiveSame
  <2>3. \A j \in DOMAIN pod : j # Len(pod) => pod[j].state \in {"running", "refused"}
    BY DEF PodInv, OrderInv
  <2>4. \A j \in DOMAIN pod' : j # Len(pod') => pod'[j].state \in {"running", "refused"}
    BY <1>1, <2>3
  <2>5. \A j \in DOMAIN pod' : Extended(pod'[j]) => IsLive(pod'[j])
    BY <1>1, <1>2, <2>1 DEF PodInv, OrderInv
  <2>6. td'.rtmr3 = Rtmr3Workloads(LiveRefs(pod'))
    BY <2>2 DEF PodInv, OrderInv
  <2> QED
    BY <2>4, <2>5, <2>6 DEF OrderInv
<1> QED
  BY <1>3, <1>4, <1>5, <1>6 DEF PodInv

(* HookSkips, HookRefuses, StartContainer, CreationFails *)
LEMMA QuietHooks ==
    ASSUME PodInv, NEW i \in DOMAIN pod,
           HookSkips(i) \/ HookRefuses(i) \/ StartContainer(i) \/ CreationFails(i)
    PROVE  PodInv'
<1>1. orderly \in BOOLEAN /\ GuestShape
  BY DEF PodInv, GuestShape
<1>2. CASE HookSkips(i)
  <2>1. Move(i, "created", "hooked") /\ td' = td /\ orderly' = orderly /\ pod[i].type # "container"
    BY <1>2 DEF HookSkips
  <2>2. pod'[i].type = pod[i].type
    BY <1>1, <2>1, MoveShape DEF States
  <2>3. ~Extended(pod[i]) /\ ~Extended(pod'[i]) /\ ~IsLive(pod[i]) /\ ~IsLive(pod'[i])
    BY <2>1, <2>2 DEF Extended, IsLive
  <2>4. Extended(pod'[i]) = Extended(pod[i]) /\ IsLive(pod'[i]) = IsLive(pod[i])
    BY <2>3 DEF Extended, IsLive
  <2> QED
    BY <1>1, <2>1, <2>4, QuietMove DEF States
<1>3. CASE HookRefuses(i)
  <2>1. Move(i, "created", "refused") /\ td' = td /\ orderly' = orderly
    BY <1>3 DEF HookRefuses
  <2>2. pod'[i].state = "refused" /\ pod[i].state = "created"
    BY <1>1, <2>1, MoveShape DEF States
  <2>3. ~Extended(pod[i]) /\ ~Extended(pod'[i]) /\ ~IsLive(pod[i]) /\ ~IsLive(pod'[i])
    BY <2>2 DEF Extended, IsLive
  <2>4. Extended(pod'[i]) = Extended(pod[i]) /\ IsLive(pod'[i]) = IsLive(pod[i])
    BY <2>3 DEF Extended, IsLive
  <2> QED
    BY <1>1, <2>1, <2>4, QuietMove DEF States
<1>4. CASE StartContainer(i)
  <2>1. Move(i, "hooked", "running") /\ td' = td /\ orderly' = orderly
    BY <1>4 DEF StartContainer
  <2>2. pod'[i].state = "running" /\ pod[i].state = "hooked" /\ pod'[i].type = pod[i].type
    BY <1>1, <2>1, MoveShape DEF States
  <2>3. Extended(pod'[i]) = Extended(pod[i]) /\ IsLive(pod'[i]) = IsLive(pod[i])
    BY <2>2 DEF Extended, IsLive
  <2> QED
    BY <1>1, <2>1, <2>3, QuietMove DEF States
<1>5. CASE CreationFails(i)
  <2>1. /\ Move(i, "hooked", "failed") /\ td' = td
        /\ orderly' = (orderly /\ pod[i].type # "container")
    BY <1>5 DEF CreationFails
  <2>2. pod'[i].state = "failed" /\ pod[i].state = "hooked" /\ pod'[i].type = pod[i].type
    BY <1>1, <2>1, MoveShape DEF States
  <2>3. Extended(pod'[i]) = Extended(pod[i])
    BY <2>2 DEF Extended
  <2>4. orderly' => IsLive(pod'[i]) = IsLive(pod[i])
    BY <2>1, <2>2 DEF IsLive
  <2>5. orderly' \in BOOLEAN /\ (orderly' => orderly)
    BY <2>1
  <2> QED
    BY <1>1, <2>1, <2>3, <2>4, <2>5, QuietMove DEF States
<1> QED
  BY <1>2, <1>3, <1>4, <1>5

(* CreateContainer: not extended for yet, and last in the pod. *)
LEMMA CreateKeeps ==
    ASSUME PodInv, NEW c \in Containers, CreateContainer(c)
    PROVE  PodInv'
<1> DEFINE new == [ref |-> c.ref, type |-> c.type, state |-> "created"]
           n == Len(pod)
<1>1. /\ new \in Container /\ new.state = "created"
      /\ ~Extended(new) /\ ~IsLive(new)
  BY DEF Container, Refs, Types, States, Extended, IsLive
<1>2. /\ pod \in Seq(Container) /\ orderly \in BOOLEAN
      /\ pod' = Append(pod, new) /\ td' = td
      /\ orderly' = (orderly /\ \A i \in DOMAIN pod : pod[i].state \in {"running", "refused"})
  BY DEF CreateContainer, PodInv, GuestShape
<1> HIDE DEF new
<1>3. /\ pod' \in Seq(Container) /\ Len(pod') = n + 1 /\ n \in Nat
      /\ DOMAIN pod = 1 .. n /\ DOMAIN pod' = 1 .. n + 1
      /\ pod'[n + 1] = new
      /\ \A i \in 1 .. n : pod'[i] = pod[i]
  BY <1>1, <1>2
<1> HIDE DEF n
<1>4. \A i \in DOMAIN pod' : Extended(pod'[i]) => i \in DOMAIN pod /\ pod'[i] = pod[i]
  BY <1>1, <1>3
<1>5. GuestShape'
  BY <1>2, <1>3 DEF PodInv, GuestShape
<1>6. PinnedInv'
  BY <1>4 DEF PodInv, PinnedInv
<1>7. CountInv'
  <2>1. ASSUME NEW h PROVE ExtendedWith(h)' = ExtendedWith(h) /\ HeldOf(h)' = HeldOf(h)
    BY <1>2, <1>3, <1>4 DEF ExtendedWith, HeldOf
  <2> QED
    BY <2>1 DEF PodInv, CountInv
<1>8. OrderInv'
  <2> SUFFICES ASSUME orderly' PROVE OrderInv'
    BY DEF OrderInv
  <2>1. orderly /\ \A i \in DOMAIN pod : pod[i].state \in {"running", "refused"}
    BY <1>2
  <2>2. \A i \in DOMAIN pod' : i # Len(pod') => pod'[i].state \in {"running", "refused"}
    BY <1>3, <2>1
  <2>3. \A i \in DOMAIN pod' : Extended(pod'[i]) => IsLive(pod'[i])
    BY <1>4, <2>1 DEF PodInv, OrderInv
  <2>4. LiveRefs(pod') = LiveRefs(pod)
    BY <1>1, <1>2, LiveAppend
  <2> QED
    BY <1>2, <2>1, <2>2, <2>3, <2>4 DEF PodInv, OrderInv
<1> QED
  BY <1>5, <1>6, <1>7, <1>8 DEF PodInv

(* The hash of a pinned reference. *)
LEMMA PinnedHash ==
    ASSUME NEW ref \in Refs, Pinned(ref)
    PROVE  /\ ref.hash \in Hashes
           /\ \A u : [ref EXCEPT !.upper = u].hash = ref.hash
<1>1. PICK c \in Containers : ref = c.ref
  BY DEF Refs
<1>2. ref # None
  BY DEF Pinned
<1>3. ref = [form |-> ref.form, hash |-> ref.hash, upper |-> ref.upper]
  BY <1>1, <1>2, ContainerAssumption
<1>4. \A u : [ref EXCEPT !.upper = u].hash = ref.hash
  BY <1>3
<1> QED
  BY <1>1, <1>2, <1>4 DEF Hashes

(* Both sets counted are finite. *)
LEMMA CountsAreFinite ==
    ASSUME GuestShape, NEW h
    PROVE  IsFiniteSet(ExtendedWith(h)) /\ IsFiniteSet(HeldOf(h))
<1>1. IsFiniteSet(1 .. Len(pod)) /\ IsFiniteSet(1 .. Len(td.rtmr3))
  <2>1. 1 \in Int /\ Len(pod) \in Int /\ Len(td.rtmr3) \in Int
    BY DEF GuestShape
  <2> QED
    BY <2>1, FS_Interval, Zenon
<1>2. ExtendedWith(h) \in SUBSET (1 .. Len(pod)) /\ HeldOf(h) \in SUBSET (1 .. Len(td.rtmr3))
  BY DEF ExtendedWith, HeldOf, GuestShape
<1> QED
  BY <1>1, <1>2, FS_Subset

(* compute_rtmr3_workloads of one more reference is one more extend. *)
LEMMA RegisterAppend ==
    ASSUME NEW refs \in Seq(Refs), NEW ref \in Refs
    PROVE  Rtmr3Workloads(Append(refs, ref)) = Append(Rtmr3Workloads(refs), WorkloadEventDigest(ref))
<1> DEFINE r == Rtmr3Workloads(refs)
           D == {CanonicalImageDigest(d) : d \in Refs}
           n == Len(refs)
<1>1. /\ n \in Nat /\ DOMAIN refs = 1 .. n /\ DOMAIN Append(refs, ref) = 1 .. n + 1
      /\ Append(refs, ref)[n + 1] = ref
      /\ \A i \in 1 .. n : Append(refs, ref)[i] = refs[i] /\ refs[i] \in Refs
      /\ \A i \in 1 .. n + 1 : Append(refs, ref)[i] \in Refs
  OBVIOUS
<1>2. r \in [1 .. n -> D] /\ Rtmr3Workloads(Append(refs, ref)) \in [1 .. n + 1 -> D]
  BY <1>1 DEF Rtmr3Workloads
<1>3. /\ \A i \in 1 .. n : r[i] = CanonicalImageDigest(refs[i])
      /\ \A i \in 1 .. n + 1 :
           Rtmr3Workloads(Append(refs, ref))[i] = CanonicalImageDigest(Append(refs, ref)[i])
  BY <1>1 DEF Rtmr3Workloads
<1>4. WorkloadEventDigest(ref) = CanonicalImageDigest(ref) /\ CanonicalImageDigest(ref) \in D
  BY DEF WorkloadEventDigest, CanonicalImageDigest
<1> DEFINE all == Rtmr3Workloads(Append(refs, ref))
<1> HIDE DEF r, D, n, all
<1>5. r \in Seq(D) /\ Len(r) = n /\ all \in Seq(D) /\ Len(all) = n + 1
  BY <1>1, <1>2 DEF all
<1> DEFINE w == CanonicalImageDigest(ref)
<1> HIDE DEF w
<1>6. /\ Append(r, w) \in Seq(D) /\ Len(Append(r, w)) = n + 1 /\ Append(r, w)[n + 1] = w
      /\ \A i \in 1 .. n : Append(r, w)[i] = r[i]
  BY <1>1, <1>4, <1>5 DEF w
<1>7. \A i \in 1 .. n + 1 : all[i] = Append(r, w)[i]
  BY <1>1, <1>3, <1>6 DEF w, all
<1>8. all = Append(r, w)
  BY <1>5, <1>6, <1>7, SeqEqual
<1> QED
  BY <1>4, <1>8 DEF r, all, w

(* HookExtends: one more extend, of the hash of the container. *)
LEMMA ExtendKeeps ==
    ASSUME PodInv, NEW i \in DOMAIN pod, HookExtends(i)
    PROVE  PodInv'
<1> DEFINE g == pod[i].ref.hash
           e == WorkloadEventDigest(pod[i].ref)
           n == Len(td.rtmr3)
<1>0. GuestShape /\ pod \in Seq(Container) /\ td.rtmr3 \in Seq(EventDigest)
  BY DEF PodInv, GuestShape
<1>1. /\ pod[i].type = "container" /\ Pinned(pod[i].ref) /\ Move(i, "created", "hooked")
      /\ td' = [td EXCEPT !.rtmr3 = Append(@, e)] /\ orderly' = orderly
  BY DEF HookExtends
<1>2. /\ pod' \in Seq(Container) /\ DOMAIN pod' = DOMAIN pod /\ Len(pod') = Len(pod)
      /\ \A j \in DOMAIN pod :
           /\ pod'[j].ref = pod[j].ref /\ pod'[j].type = pod[j].type
           /\ j # i => pod'[j] = pod[j]
      /\ pod[i].state = "created" /\ pod'[i].state = "hooked"
  BY <1>0, <1>1, MoveShape DEF States
<1>3. ~Extended(pod[i]) /\ Extended(pod'[i]) /\ ~IsLive(pod[i]) /\ IsLive(pod'[i])
  BY <1>1, <1>2 DEF Extended, IsLive
<1>4. g \in Hashes /\ e = [sha256 |-> g, upper |-> FALSE] /\ e \in EventDigest
  <2>1. g \in Hashes
    BY <1>0, <1>1, ElementFields, PinnedHash
  <2> QED
    BY <2>1 DEF WorkloadEventDigest, EventDigest
<1>5. /\ td' = [boot |-> td'.boot, rtmr3 |-> td'.rtmr3]
      /\ td'.rtmr3 = Append(td.rtmr3, e)
  BY <1>1 DEF PodInv, GuestShape
<1>6. e.sha256 = g
  BY <1>4
<1> HIDE DEF e
<1>7. /\ td'.rtmr3 \in Seq(EventDigest) /\ n \in Nat
      /\ DOMAIN td.rtmr3 = 1 .. n /\ DOMAIN td'.rtmr3 = 1 .. n + 1
      /\ td'.rtmr3[n + 1] = e
      /\ \A k \in 1 .. n : td'.rtmr3[k] = td.rtmr3[k]
  BY <1>0, <1>4, <1>5
<1>8. GuestShape'
  BY <1>1, <1>2, <1>5, <1>7 DEF PodInv, GuestShape
<1>9. PinnedInv'
  BY <1>1, <1>2 DEF PodInv, PinnedInv
<1>10. CountInv'
  <2> SUFFICES ASSUME NEW h \in Hashes
               PROVE  Cardinality(ExtendedWith(h)') = Cardinality(HeldOf(h)')
    BY DEF CountInv, ExtendedWith, HeldOf
  <2>1. Cardinality(ExtendedWith(h)) = Cardinality(HeldOf(h))
    BY DEF PodInv, CountInv
  <2>2. CASE h = g
    <3>1. ExtendedWith(h)' = ExtendedWith(h) \cup {i} /\ i \notin ExtendedWith(h)
      BY <1>2, <1>3, <2>2 DEF ExtendedWith
    <3>2. HeldOf(h)' = HeldOf(h) \cup {n + 1} /\ (n + 1) \notin HeldOf(h)
      <4> HIDE DEF n
      <4> QED
        BY <1>6, <1>7, <2>2 DEF HeldOf
    <3>3. IsFiniteSet(ExtendedWith(h)) /\ IsFiniteSet(HeldOf(h))
      BY <1>0, CountsAreFinite
    <3>4. Cardinality(ExtendedWith(h) \cup {i}) = Cardinality(ExtendedWith(h)) + 1
      BY <3>1, <3>3, FS_AddElement
    <3>5. Cardinality(HeldOf(h) \cup {n + 1}) = Cardinality(HeldOf(h)) + 1
      BY <3>2, <3>3, FS_AddElement
    <3> QED
      BY <2>1, <3>1, <3>2, <3>4, <3>5
  <2>3. CASE h # g
    <3>1. ExtendedWith(h)' = ExtendedWith(h)
      BY <1>2, <1>3, <2>3 DEF ExtendedWith
    <3>2. HeldOf(h)' = HeldOf(h)
      <4> HIDE DEF n
      <4> QED
        BY <1>6, <1>7, <2>3 DEF HeldOf
    <3> QED
      BY <2>1, <3>1, <3>2
  <2> QED
    BY <2>2, <2>3
<1>11. OrderInv'
  <2> SUFFICES ASSUME orderly PROVE OrderInv'
    BY <1>1 DEF OrderInv
  <2> DEFINE front == SubSeq(pod, 1, Len(pod) - 1)
             x == pod[Len(pod)]
             y == pod'[Len(pod)]
  <2>1. /\ \A j \in DOMAIN pod : j # Len(pod) => pod[j].state \in {"running", "refused"}
        /\ \A j \in DOMAIN pod : Extended(pod[j]) => IsLive(pod[j])
        /\ td.rtmr3 = Rtmr3Workloads(LiveRefs(pod))
    BY DEF PodInv, OrderInv
  <2>2. i = Len(pod) /\ Len(pod) \in Nat /\ Len(pod) > 0
    BY <1>0, <1>2, <2>1
  <2>3. front \in Seq(Container) /\ x \in Container /\ y \in Container
    BY <1>0, <1>2, <2>2
  <2>4. pod = Append(front, x)
    BY <1>0, <2>2
  <2>5. pod' = Append(front, y)
    <3>1. /\ front \in Seq(Container) /\ Len(front) = Len(pod) - 1
          /\ \A j \in 1 .. Len(pod) - 1 : front[j] = pod[j]
      BY <1>0, <2>2
    <3> HIDE DEF front, y
    <3>2. /\ Append(front, y) \in Seq(Container) /\ Len(Append(front, y)) = Len(pod)
          /\ Append(front, y)[Len(pod)] = y
          /\ \A j \in 1 .. Len(pod) - 1 : Append(front, y)[j] = pod[j]
      BY <2>2, <2>3, <3>1
    <3>3. \A j \in 1 .. Len(pod) : pod'[j] = Append(front, y)[j]
      BY <1>0, <1>2, <2>2, <3>2 DEF y
    <3> QED
      BY <1>2, <3>2, <3>3, SeqEqual
  <2>6. ~IsLive(x) /\ IsLive(y) /\ y.ref = pod[i].ref
    BY <1>2, <1>3, <2>2
  <2> HIDE DEF front, x, y
  <2>7. LiveRefs(pod) = LiveRefs(front) /\ LiveRefs(pod') = Append(LiveRefs(front), pod[i].ref)
    BY <2>3, <2>4, <2>5, <2>6, LiveAppend
  <2>8. LiveRefs(pod) \in Seq(Refs) /\ pod[i].ref \in Refs
    BY <1>0, LiveType, ElementFields
  <2>9. td'.rtmr3 = Rtmr3Workloads(LiveRefs(pod'))
    BY <1>5, <2>1, <2>7, <2>8, RegisterAppend DEF e
  <2>10. \A j \in DOMAIN pod' : j # Len(pod') => pod'[j].state \in {"running", "refused"}
    BY <1>2, <2>1, <2>2
  <2>11. \A j \in DOMAIN pod' : Extended(pod'[j]) => IsLive(pod'[j])
    BY <1>2, <1>3, <2>1
  <2> QED
    BY <2>9, <2>10, <2>11 DEF OrderInv
<1> QED
  BY <1>8, <1>9, <1>10, <1>11 DEF PodInv

LEMMA PodStep == PodInv /\ [Next]_vars => PodInv'
<1> SUFFICES ASSUME PodInv, [Next]_vars PROVE PodInv'
  OBVIOUS
<1>1. ASSUME NEW b \in Boots, Boot(b) PROVE PodInv'
  BY <1>1, BootKeeps
<1>2. CASE \/ SaveCcel \/ Verify \/ StartExtract \/ ExtractVar \/ ExtractDone
           \/ WalkTable \/ WalkFails \/ MeasureDone \/ MeasureFails \/ Kill
  <2>1. UNCHANGED guest
    BY <1>2 DEF SaveCcel, Verify, StartExtract, ExtractVar, ExtractDone, WalkTable, WalkFails,
                MeasureDone, MeasureFails, Kill
  <2> QED
    BY <2>1, QuietGuest
<1>3. ASSUME NEW m \in Measures, StartMeasure(m) PROVE PodInv'
  <2>1. UNCHANGED guest
    BY <1>3 DEF StartMeasure
  <2> QED
    BY <2>1, QuietGuest
<1>4. ASSUME NEW c \in Containers, CreateContainer(c) PROVE PodInv'
  BY <1>4, CreateKeeps
<1>5. ASSUME NEW i \in DOMAIN pod,
             HookSkips(i) \/ HookRefuses(i) \/ StartContainer(i) \/ CreationFails(i)
      PROVE  PodInv'
  BY <1>5, QuietHooks
<1>6. ASSUME NEW i \in DOMAIN pod, HookExtends(i) PROVE PodInv'
  BY <1>6, ExtendKeeps
<1>7. CASE UNCHANGED vars
  <2>1. UNCHANGED guest
    BY <1>7 DEF vars, guest
  <2> QED
    BY <2>1, QuietGuest
<1> QED
  BY <1>1, <1>2, <1>3, <1>4, <1>5, <1>6, <1>7 DEF Next

LEMMA PodHolds == Spec => []PodInv
BY PodInit, PodStep, PTL DEF Spec

(* An invariant because of it: live containers were extended for. *)
LEMMA PodImplies == PodInv => WorkloadsAreMeasured
<1> SUFFICES ASSUME PodInv PROVE WorkloadsAreMeasured
  OBVIOUS
<1> DEFINE live == {i \in DOMAIN pod : IsLive(pod[i])}
           refs == LiveRefs(pod)
           spelled(u) == [i \in DOMAIN refs |-> [refs[i] EXCEPT !.upper = u]]
<1>0. GuestShape /\ pod \in Seq(Container)
  BY DEF PodInv, GuestShape
<1>1. \A i \in live : Extended(pod[i]) /\ Pinned(pod[i].ref)
  BY DEF PodInv, PinnedInv, Extended, IsLive
<1>2. ASSUME NEW i \in live
      PROVE  Cardinality({j \in live : pod[j].ref.hash = pod[i].ref.hash})
               <= Cardinality({k \in DOMAIN td.rtmr3 : td.rtmr3[k].sha256 = pod[i].ref.hash})
  <2> DEFINE h == pod[i].ref.hash
  <2>1. h \in Hashes
    BY <1>0, <1>1, ElementFields, PinnedHash
  <2>2. {j \in live : pod[j].ref.hash = h} \in SUBSET ExtendedWith(h)
    BY <1>1 DEF ExtendedWith
  <2>3. IsFiniteSet(ExtendedWith(h))
    BY <1>0, CountsAreFinite
  <2>4. Cardinality({j \in live : pod[j].ref.hash = h}) <= Cardinality(ExtendedWith(h))
    BY <2>2, <2>3, FS_Subset
  <2>5. Cardinality(ExtendedWith(h)) = Cardinality(HeldOf(h))
    BY <2>1 DEF PodInv, CountInv
  <2> QED
    BY <2>4, <2>5 DEF HeldOf
<1>3. ASSUME orderly, NEW u \in BOOLEAN PROVE Rtmr3Workloads(spelled(u)) = td.rtmr3
  <2>1. td.rtmr3 = Rtmr3Workloads(refs)
    BY <1>3 DEF PodInv, OrderInv
  <2>2. \A k \in DOMAIN refs : Pinned(refs[k]) /\ refs[k] \in Refs
    <3> DEFINE S == {r \in Refs : Pinned(r)}
    <3>1. \A i \in DOMAIN pod : IsLive(pod[i]) => pod[i].ref \in S
      BY <1>0, <1>1, ElementFields
    <3> HIDE DEF S
    <3>2. refs \in Seq(S)
      BY <1>0, <3>1, LiveOver
    <3> QED
      BY <3>2 DEF S
  <2>3. \A k \in DOMAIN refs : CanonicalImageDigest([refs[k] EXCEPT !.upper = u])
                                 = CanonicalImageDigest(refs[k])
    BY <2>2, PinnedHash DEF CanonicalImageDigest
  <2> HIDE DEF refs
  <2>4. DOMAIN spelled(u) = DOMAIN refs
    OBVIOUS
  <2>5. \A k \in DOMAIN refs : spelled(u)[k] = [refs[k] EXCEPT !.upper = u]
    OBVIOUS
  <2> HIDE DEF spelled
  <2>6. Rtmr3Workloads(spelled(u)) = Rtmr3Workloads(refs)
    BY <2>3, <2>4, <2>5 DEF Rtmr3Workloads
  <2> QED
    BY <2>1, <2>6
<1> QED
  BY <1>1, <1>2, <1>3 DEF WorkloadsAreMeasured

(* For every set of containers and any number of them in a pod, whatever else     *)
(* happens in the TD and on the host: a workload container that runs was measured *)
(* into RTMR[3] by the createContainer hook before it started, each one for       *)
(* itself; and in a pod whose calls did not overlap compute_rtmr3_workloads gives *)
(* the register, in whatever case the digests are spelled.                        *)
THEOREM WorkloadsStayMeasured == Spec => []WorkloadsAreMeasured
BY PodHolds, PodImplies, PTL

-----------------------------------------------------------------------------
(* The registers a log replays to. *)

(* The records of R that are about RTMR[i]. *)
Mr(R, i) == {r \in R : r.mr = i + 1}

LEMMA DigestsOf ==
    ASSUME NEW R, NEW s \in Seq(R)
    PROVE  /\ DOMAIN Digests(s) = 1 .. Len(s) /\ Len(Digests(s)) = Len(s) /\ Len(s) \in Nat
           /\ \A i \in 1 .. Len(s) : Digests(s)[i] = s[i].digest
           /\ Digests(s) \in Seq({r.digest : r \in R})
<1> DEFINE D == {r.digest : r \in R}
<1>1. DOMAIN s = 1 .. Len(s) /\ Len(s) \in Nat /\ \A i \in 1 .. Len(s) : s[i] \in R
  OBVIOUS
<1>2. Digests(s) \in [1 .. Len(s) -> D] /\ \A i \in 1 .. Len(s) : Digests(s)[i] = s[i].digest
  BY <1>1 DEF Digests
<1> DEFINE d == Digests(s)
<1> HIDE DEF D, d
<1>3. d \in [1 .. Len(s) -> D]
  BY <1>2 DEF d
<1>4. d \in Seq(D) /\ Len(d) = Len(s) /\ DOMAIN d = 1 .. Len(s)
  BY <1>1, <1>3
<1> QED
  BY <1>1, <1>2, <1>4 DEF D, d

LEMMA DigestsAppend ==
    ASSUME NEW R, NEW s \in Seq(R), NEW r \in R
    PROVE  Digests(Append(s, r)) = Append(Digests(s), r.digest)
<1> DEFINE D == {x.digest : x \in R}
           t == Append(s, r)
           d == Digests(s)
           e == Digests(t)
           f == Append(d, r.digest)
<1>1. /\ t \in Seq(R) /\ Len(t) = Len(s) + 1 /\ Len(s) \in Nat /\ t[Len(s) + 1] = r
      /\ \A i \in 1 .. Len(s) : t[i] = s[i]
  OBVIOUS
<1> HIDE DEF t
<1>2. d \in Seq(D) /\ Len(d) = Len(s) /\ \A i \in 1 .. Len(s) : d[i] = s[i].digest
  BY DigestsOf
<1>3. e \in Seq(D) /\ Len(e) = Len(s) + 1 /\ \A i \in 1 .. Len(s) + 1 : e[i] = t[i].digest
  <2>1. e \in Seq(D) /\ Len(e) = Len(t) /\ \A i \in 1 .. Len(t) : e[i] = t[i].digest
    BY <1>1, DigestsOf
  <2> QED
    BY <1>1, <2>1
<1>4. r.digest \in D
  OBVIOUS
<1> HIDE DEF D, d, e
<1>5. /\ f \in Seq(D) /\ Len(f) = Len(s) + 1 /\ f[Len(s) + 1] = r.digest
      /\ \A i \in 1 .. Len(s) : f[i] = d[i]
  BY <1>1, <1>2, <1>4
<1> HIDE DEF f
<1>6. ASSUME NEW i \in 1 .. Len(s) + 1 PROVE e[i] = f[i]
  <2>1. CASE i = Len(s) + 1
    BY <1>1, <1>3, <1>5, <2>1
  <2>2. CASE i # Len(s) + 1
    <3>1. i \in 1 .. Len(s)
      BY <1>1, <2>2
    <3> QED
      BY <1>1, <1>2, <1>3, <1>5, <3>1
  <2> QED
    BY <2>1, <2>2
<1>7. Len(e) = Len(f) /\ \A i \in 1 .. Len(e) : e[i] = f[i]
  BY <1>3, <1>5, <1>6
<1>8. e \in Seq(D) /\ f \in Seq(D)
  BY <1>3, <1>5
<1>9. e = f
  BY <1>7, <1>8, SeqEqual
<1> QED
  BY <1>9 DEF d, e, f, t

(* Of over records of a given set. *)
LEMMA OfIsKept ==
    ASSUME NEW R, NEW s \in Seq(R), NEW i
    PROVE  Of(i, s) = Digests(Keep(s, Mr(R, i)))
<1> DEFINE V == {x \in ToSet(s) : x.mr = i + 1}
<1>1. \A j \in 1 .. Len(s) : s[j] \in R /\ s[j] \in ToSet(s)
  BY DEF ToSet
<1>2. \A j \in 1 .. Len(s) : s[j] \in V <=> s[j] \in Mr(R, i)
  BY <1>1 DEF Mr
<1>3. Keep(s, V) = Keep(s, Mr(R, i))
  <2> HIDE DEF V
  <2> QED
    BY <1>2, KeepSame
<1>4. Where(s, LAMBDA e : e.mr = i + 1) = Keep(s, V)
  BY DEF Where
<1> QED
  BY <1>3, <1>4 DEF Of

LEMMA OfEmpty ==
    ASSUME NEW i
    PROVE  Of(i, <<>>) = <<>>
<1>1. <<>> \in Seq({})
  BY ShortSeqs
<1>2. Of(i, <<>>) = Digests(Keep(<<>>, Mr({}, i)))
  BY <1>1, OfIsKept
<1>3. Keep(<<>>, Mr({}, i)) = <<>>
  BY KeepEmpty
<1>4. Digests(<<>>) = <<>>
  BY DEF Digests
<1> QED
  BY <1>2, <1>3, <1>4

LEMMA OfAppend ==
    ASSUME NEW R, NEW s \in Seq(R), NEW r \in R, NEW i
    PROVE  Of(i, Append(s, r)) = IF r.mr = i + 1 THEN Append(Of(i, s), r.digest) ELSE Of(i, s)
<1> DEFINE V == Mr(R, i)
           k == Keep(s, V)
<1>1. Append(s, r) \in Seq(R)
  OBVIOUS
<1>2. Of(i, Append(s, r)) = Digests(Keep(Append(s, r), V)) /\ Of(i, s) = Digests(k)
  BY <1>1, OfIsKept
<1>3. Keep(Append(s, r), V) = IF r \in V THEN Append(k, r) ELSE k
  BY KeepAppend
<1>4. r \in V <=> r.mr = i + 1
  BY DEF Mr
<1>5. k \in Seq(R)
  BY KeepType
<1> HIDE DEF k, V
<1>6. Digests(Append(k, r)) = Append(Digests(k), r.digest)
  BY <1>5, DigestsAppend
<1> QED
  BY <1>2, <1>3, <1>4, <1>6

(* replay_rtmrs takes one event after the other; each goes to its register. *)
ReplayStep(r, e) == IF e.mr \in 1 .. 4 THEN [r EXCEPT ![e.mr - 1] = Append(@, e.digest)] ELSE r
NoRtmrs == [i \in 0 .. 3 |-> <<>>]

LEMMA ReplaySteps ==
    ASSUME NEW R, NEW events \in Seq(R)
    PROVE  \E P : /\ P[0] = NoRtmrs
                  /\ \A n \in 1 .. Len(events) : P[n] = ReplayStep(P[n - 1], events[n])
                  /\ ReplayRtmrs(events) = P[Len(events)]
<1> DEFINE N == Len(events)
           D == {r.digest : r \in R}
           S == [0 .. 3 -> Seq(D)]
           Solves(h) == h = [s \in SUBSET (1 .. N) |->
                               IF s = {} THEN NoRtmrs ELSE ReplayStep(h[s \ {Max(s)}], events[Max(s)])]
           F == CHOOSE h : Solves(h)
           P == [n \in 0 .. N |-> F[1 .. n]]
<1>1. N \in Nat /\ DOMAIN events = 1 .. N /\ \A n \in 1 .. N : events[n] \in R
  OBVIOUS
<1>2. NoRtmrs \in S
  BY ShortSeqs DEF NoRtmrs
<1>3. ASSUME NEW r \in S, NEW n \in 1 .. N PROVE ReplayStep(r, events[n]) \in S
  <2>1. events[n].digest \in D
    BY <1>1
  <2>2. CASE events[n].mr \in 1 .. 4
    <3>1. events[n].mr - 1 \in 0 .. 3
      BY <2>2
    <3>2. Append(r[events[n].mr - 1], events[n].digest) \in Seq(D)
      <4>1. r[events[n].mr - 1] \in Seq(D)
        BY <3>1
      <4> HIDE DEF D, S
      <4> QED
        BY <2>1, <4>1, AppendProperties
    <3> QED
      BY <2>2, <3>1, <3>2 DEF ReplayStep
  <2>3. CASE events[n].mr \notin 1 .. 4
    BY <2>3 DEF ReplayStep
  <2> QED
    BY <2>2, <2>3
<1>4. \E h : Solves(h)
  <2> DEFINE st == [x \in S \X (1 .. N) |-> ReplayStep(x[1], events[x[2]])]
  <2> HIDE DEF S
  <2>1. st \in [S \X (1 .. N) -> S]
    BY <1>3
  <2>2. \A r \in S, n \in 1 .. N : st[<<r, n>>] = ReplayStep(r, events[n])
    OBVIOUS
  <2> HIDE DEF st
  <2>3. FoldTo(S, NoRtmrs, st, N)
    BY <1>1, <1>2, <2>1, FoldSolution
  <2>4. PICK h \in [SUBSET (1 .. N) -> S] :
          \A s \in SUBSET (1 .. N) : h[s] = IF s = {} THEN NoRtmrs ELSE st[<<h[s \ {Max(s)}], Max(s)>>]
    BY <2>3 DEF FoldTo
  <2>5. ASSUME NEW s \in SUBSET (1 .. N), s # {}
        PROVE  h[s] = ReplayStep(h[s \ {Max(s)}], events[Max(s)])
    <3>1. Max(s) \in 1 .. N
      BY <1>1, <2>5, MaxIsGreatest
    <3>2. s \ {Max(s)} \in SUBSET (1 .. N)
      OBVIOUS
    <3>3. h[s \ {Max(s)}] \in S
      BY <3>2
    <3>4. h[s] = st[<<h[s \ {Max(s)}], Max(s)>>]
      BY <2>4, <2>5
    <3> QED
      BY <2>2, <3>1, <3>3, <3>4
  <2>6. Solves(h)
    BY <2>4, <2>5
  <2> QED
    BY <2>6
<1>5. Solves(F)
  BY <1>4
<1>6. ReplayRtmrs(events) = F[1 .. N]
  BY <1>1 DEF ReplayRtmrs, FoldLeft, MapThenFoldSet, ReplayStep, NoRtmrs
<1> HIDE DEF F
<1>7. P[0] = NoRtmrs
  <2>1. 1 .. 0 = {}
    OBVIOUS
  <2>2. P[0] = F[{}]
    BY <1>1, <2>1
  <2> QED
    BY <1>5, <2>2
<1>8. ASSUME NEW n \in 1 .. N PROVE P[n] = ReplayStep(P[n - 1], events[n])
  <2>1. /\ 1 .. n \in SUBSET (1 .. N) /\ 1 .. n # {}
        /\ Max(1 .. n) = n /\ (1 .. n) \ {Max(1 .. n)} = 1 .. (n - 1)
    BY <1>1, IndexPrefixes
  <2>2. F[1 .. n] = ReplayStep(F[1 .. (n - 1)], events[n])
    BY <1>5, <2>1
  <2>3. n \in 0 .. N /\ n - 1 \in 0 .. N
    BY <1>1
  <2> QED
    BY <2>2, <2>3
<1>9. ReplayRtmrs(events) = P[N]
  BY <1>1, <1>6
<1> QED
  BY <1>7, <1>8, <1>9

(* So every register ends up with its events, in their order. *)
LEMMA ReplayIsOf ==
    ASSUME NEW R, NEW events \in Seq(R), NEW i \in 0 .. 3
    PROVE  ReplayRtmrs(events)[i] = Of(i, events)
<1> DEFINE N == Len(events)
           pre(n) == SubSeq(events, 1, n)
<1>1. PICK P : /\ P[0] = NoRtmrs
               /\ \A n \in 1 .. Len(events) : P[n] = ReplayStep(P[n - 1], events[n])
               /\ ReplayRtmrs(events) = P[Len(events)]
  BY ReplaySteps
<1> DEFINE T == {n \in Nat : n <= N => DOMAIN P[n] = 0 .. 3 /\ P[n][i] = Of(i, pre(n))}
<1>2. 0 \in T
  <2>1. pre(0) = <<>>
    OBVIOUS
  <2>2. Of(i, pre(0)) = <<>>
    BY <2>1, OfEmpty
  <2>3. DOMAIN P[0] = 0 .. 3 /\ P[0][i] = <<>>
    BY <1>1 DEF NoRtmrs
  <2> QED
    BY <2>2, <2>3
<1>3. ASSUME NEW n \in Nat, n \in T PROVE n + 1 \in T
  <2> SUFFICES ASSUME n + 1 <= N
               PROVE  DOMAIN P[n + 1] = 0 .. 3 /\ P[n + 1][i] = Of(i, pre(n + 1))
    OBVIOUS
  <2>1. /\ n + 1 \in 1 .. N /\ (n + 1) - 1 = n /\ n <= N /\ N \in Nat
        /\ events[n + 1] \in R
    OBVIOUS
  <2>2. pre(n) \in Seq(R)
    BY <2>1
  <2>3. pre(n + 1) = Append(pre(n), events[n + 1])
    BY <2>1
  <2>4. DOMAIN P[n] = 0 .. 3 /\ P[n][i] = Of(i, pre(n))
    BY <1>3, <2>1
  <2> HIDE DEF pre
  <2> DEFINE e == events[n + 1]
  <2>5. e \in R /\ pre(n + 1) = Append(pre(n), e)
    BY <2>1, <2>3
  <2>6. P[n + 1] = ReplayStep(P[n], e)
    BY <1>1, <2>1
  <2> DEFINE f == pre(n)
  <2> HIDE DEF e, f
  <2>9. f \in Seq(R) /\ e \in R
    BY <2>2, <2>5 DEF f
  <2>10. Of(i, Append(f, e)) = IF e.mr = i + 1 THEN Append(Of(i, f), e.digest) ELSE Of(i, f)
    BY <2>9, OfAppend
  <2>11. Of(i, pre(n + 1)) = IF e.mr = i + 1 THEN Append(Of(i, pre(n)), e.digest) ELSE Of(i, pre(n))
    BY <2>5, <2>10 DEF f
  <2>7. CASE e.mr = i + 1
    <3>1. e.mr \in 1 .. 4 /\ e.mr - 1 = i
      BY <2>7
    <3> QED
      BY <2>4, <2>6, <2>7, <2>11, <3>1 DEF ReplayStep
  <2>8. CASE e.mr # i + 1
    <3>1. e.mr \in 1 .. 4 => e.mr - 1 # i
      BY <2>8
    <3> QED
      BY <2>4, <2>6, <2>8, <2>11, <3>1 DEF ReplayStep
  <2> QED
    BY <2>7, <2>8
<1>4. Nat \subseteq T
  <2> HIDE DEF T
  <2> QED
    BY <1>2, <1>3, SetInduction
<1>5. N \in Nat /\ N <= N
  OBVIOUS
<1>6. P[N][i] = Of(i, pre(N))
  <2> HIDE DEF pre
  <2> QED
    BY <1>4, <1>5
<1>7. pre(N) = events
  BY SubSeqFull
<1> QED
  BY <1>1, <1>6, <1>7

-----------------------------------------------------------------------------
(* What a boot logs. *)

(* A record parse_ccel reads and replay_rtmrs counts in a register, or none. *)
Plain(r) == /\ r.whole = TRUE /\ r.alg = "SHA-384" /\ r.mr \in 0 .. 3
            /\ r.mr = 0 => r.type # "0"
            /\ {"mr", "type", "digest", "data", "readable", "name", "alg", "whole"} \subseteq DOMAIN r
PlainIn(R, mr) == \A r \in R : Plain(r) /\ r.mr = mr

LEMMA PlainRecord ==
    ASSUME NEW mr \in 1 .. 3, NEW type, NEW digest, NEW name
    PROVE  LET r == Record(mr, type, digest, name)
           IN  Plain(r) /\ r.mr = mr /\ r.digest = digest
BY DEF Plain, Record

Signature == Event(0, "NO_ACTION", <<"signature">>)

(* What the firmware extends into RTMR[0]. *)
Firm(p, X) ==
    /\ X[1] = Event(1, "PLATFORM_CONFIG_FLAGS", <<"hob", Section(p, "TD_HOB").base, MemoryMap(p)>>)
    /\ X[2] = Event(1, "FIRMWARE_BLOB2", Raw(p.fw, Section(p, "TD_CFV")))
    /\ \A i \in 1 .. 5 : X[2 + i] = Event(1, "VARIABLE_DRIVER_CONFIG", SecureBootVars[i])
    /\ X[8] = Event(1, "SEPARATOR", Separator)
    /\ X[9] = Event(1, "PLATFORM_CONFIG_FLAGS", p.acpi.loader)
    /\ X[10] = Event(1, "PLATFORM_CONFIG_FLAGS", p.acpi.rsdp)
    /\ X[11] = Event(1, "PLATFORM_CONFIG_FLAGS", p.acpi.tables)
    /\ X[12] = Variable("BootOrder", p.order)
    /\ \A i \in 1 .. Len(p.order) : X[12 + i] = Variable(p.order[i], p.options[p.order[i]])

LEMMA FirmwareShape ==
    ASSUME NEW p, NEW O, p.order \in Seq(O)
    PROVE  \E R, X : /\ FirmwareEvents(p) = <<Signature>> \o X
                     /\ X \in Seq(R) /\ PlainIn(R, 1) /\ Firm(p, X)
                     /\ Len(X) = 12 + Len(p.order)
                     /\ X[12].digest = p.order
                     /\ \A i \in 1 .. Len(p.order) : X[12 + i].digest = p.options[p.order[i]]
<1> DEFINE hob == Event(1, "PLATFORM_CONFIG_FLAGS", <<"hob", Section(p, "TD_HOB").base, MemoryMap(p)>>)
           cfv == Event(1, "FIRMWARE_BLOB2", Raw(p.fw, Section(p, "TD_CFV")))
           sep == Event(1, "SEPARATOR", Separator)
           loader == Event(1, "PLATFORM_CONFIG_FLAGS", p.acpi.loader)
           rsdp == Event(1, "PLATFORM_CONFIG_FLAGS", p.acpi.rsdp)
           tables == Event(1, "PLATFORM_CONFIG_FLAGS", p.acpi.tables)
           order == Variable("BootOrder", p.order)
           A1 == <<hob, cfv>>
           A2 == [i \in DOMAIN SecureBootVars |-> Event(1, "VARIABLE_DRIVER_CONFIG", SecureBootVars[i])]
           A3 == <<sep, loader, rsdp, tables, order>>
           A4 == [i \in DOMAIN p.order |-> Variable(p.order[i], p.options[p.order[i]])]
           n == Len(p.order)
           R == {hob, cfv, sep, loader, rsdp, tables, order}
                \cup {Event(1, "VARIABLE_DRIVER_CONFIG", SecureBootVars[i]) : i \in 1 .. 5}
                \cup {Variable(p.order[i], p.options[p.order[i]]) : i \in 1 .. n}
           Q == R \cup {Signature}
<1>1. n \in Nat /\ DOMAIN p.order = 1 .. n
  OBVIOUS
<1>2. FirmwareEvents(p) = ((<<Signature, hob, cfv>> \o A2) \o A3) \o A4
  BY DEF FirmwareEvents, Signature
<1>3. PlainIn(R, 1) /\ order.digest = p.order
      /\ \A i \in 1 .. n : Variable(p.order[i], p.options[p.order[i]]).digest = p.options[p.order[i]]
  BY PlainRecord DEF PlainIn, Event, Variable
<1>4. DOMAIN SecureBootVars = 1 .. 5
  BY DEF SecureBootVars
<1>5. A2 \in [1 .. 5 -> R] /\ \A i \in 1 .. 5 : A2[i] = Event(1, "VARIABLE_DRIVER_CONFIG", SecureBootVars[i])
  BY <1>4
<1>6. A4 \in [1 .. n -> R] /\ \A i \in 1 .. n : A4[i] = Variable(p.order[i], p.options[p.order[i]])
  BY <1>1
<1>7. /\ hob \in R /\ cfv \in R /\ sep \in R /\ loader \in R /\ rsdp \in R /\ tables \in R /\ order \in R
  OBVIOUS
<1> HIDE DEF hob, cfv, sep, loader, rsdp, tables, order, R, A2, A4, n
<1>8. A1 \in Seq(R) /\ Len(A1) = 2 /\ A1[1] = hob /\ A1[2] = cfv
  BY <1>7
<1>9. /\ A3 \in Seq(R) /\ Len(A3) = 5 /\ A3[1] = sep /\ A3[2] = loader /\ A3[3] = rsdp
      /\ A3[4] = tables /\ A3[5] = order
  BY <1>7
<1>10. A2 \in Seq(R) /\ Len(A2) = 5
  <2>1. 5 \in Nat
    OBVIOUS
  <2> QED
    BY <1>5, <2>1, FunIsSeq
<1>11. A4 \in Seq(R) /\ Len(A4) = n
  BY <1>1, <1>6
<1>12. <<Signature, hob, cfv>> = <<Signature>> \o A1
  OBVIOUS
<1> DEFINE sig == <<Signature>>
<1>13. sig \in Seq(Q)
  BY ShortSeqs
<1>14. A1 \in Seq(Q) /\ A2 \in Seq(Q) /\ A3 \in Seq(Q) /\ A4 \in Seq(Q)
  <2>1. R \subseteq Q
    OBVIOUS
  <2> HIDE DEF A1, A3, Q
  <2> QED
    BY <1>8, <1>9, <1>10, <1>11, <2>1, SeqMonotonic
<1> HIDE DEF A1, A3, Q, sig
<1> DEFINE X == Cat(Cat(Cat(A1, A2), A3), A4)
<1>15. Cat(Cat(Cat(Cat(sig, A1), A2), A3), A4) = Cat(sig, X)
  BY <1>13, <1>14, FourRight
<1>16. /\ X \in Seq(R) /\ Len(X) = Len(A1) + Len(A2) + Len(A3) + Len(A4)
       /\ \A i \in 1 .. Len(A1) : X[i] = A1[i]
       /\ \A i \in 1 .. Len(A2) : X[Len(A1) + i] = A2[i]
       /\ \A i \in 1 .. Len(A3) : X[Len(A1) + Len(A2) + i] = A3[i]
       /\ \A i \in 1 .. Len(A4) : X[Len(A1) + Len(A2) + Len(A3) + i] = A4[i]
  <2>1. A1 \in Seq(R) /\ A2 \in Seq(R) /\ A3 \in Seq(R) /\ A4 \in Seq(R)
    BY <1>8, <1>9, <1>10, <1>11
  <2>2. IsFour(R, X, A1, A2, A3, A4)
    BY <2>1, FourParts
  <2> HIDE DEF X
  <2> QED
    BY <2>2 DEF IsFour
<1> HIDE DEF X
<1>17. Len(A1) + Len(A2) = 7 /\ Len(A1) + Len(A2) + Len(A3) = 12 /\ 5 \in 1 .. Len(A3)
  BY <1>8, <1>9, <1>10
<1>18. X[7 + 5] = A3[5]
  BY <1>16, <1>17
<1>19. /\ X[1] = hob /\ X[2] = cfv /\ \A i \in 1 .. 5 : X[2 + i] = A2[i]
       /\ X[8] = sep /\ X[9] = loader /\ X[10] = rsdp /\ X[11] = tables
  <2>1. X[1] = A1[1] /\ X[2] = A1[2] /\ \A i \in 1 .. 5 : X[2 + i] = A2[i]
    <3>1. Len(A1) = 2 /\ Len(A2) = 5 /\ 1 \in 1 .. 2 /\ 2 \in 1 .. 2
      BY <1>8, <1>10
    <3>2. \A i \in 1 .. 2 : X[i] = A1[i]
      BY <1>16, <3>1
    <3>3. \A i \in 1 .. 5 : X[2 + i] = A2[i]
      BY <1>16, <3>1
    <3> QED
      BY <3>1, <3>2, <3>3
  <2>2. X[7 + 1] = A3[1] /\ X[7 + 2] = A3[2] /\ X[7 + 3] = A3[3] /\ X[7 + 4] = A3[4]
    BY <1>9, <1>16, <1>17
  <2> QED
    BY <1>8, <1>9, <2>1, <2>2
<1>20. X[12] = order /\ Len(X) = 12 + n /\ \A i \in 1 .. n : X[12 + i] = A4[i]
  BY <1>9, <1>11, <1>16, <1>17, <1>18
<1>21. FirmwareEvents(p) = sig \o X
  BY <1>2, <1>12, <1>15 DEF sig, Cat
<1>22. X[12].digest = p.order
  BY <1>3, <1>20
<1>23. \A i \in 1 .. Len(p.order) : X[12 + i].digest = p.options[p.order[i]]
  BY <1>3, <1>6, <1>20 DEF n
<1>24. /\ FirmwareEvents(p) = <<Signature>> \o X /\ X \in Seq(R) /\ PlainIn(R, 1)
       /\ Len(X) = 12 + Len(p.order)
  BY <1>3, <1>16, <1>20, <1>21 DEF sig, n
<1>25. Firm(p, X)
  <2>1. \A i \in 1 .. 5 : X[2 + i] = Event(1, "VARIABLE_DRIVER_CONFIG", SecureBootVars[i])
    BY <1>5, <1>19
  <2>2. \A i \in 1 .. Len(p.order) : X[12 + i] = Variable(p.order[i], p.options[p.order[i]])
    BY <1>6, <1>20 DEF n
  <2> QED
    BY <1>19, <1>20, <2>1, <2>2, Zenon DEF Firm, hob, cfv, sep, loader, rsdp, tables, order
<1> QED
  BY <1>22, <1>23, <1>24, <1>25, Zenon

(* Events of RTMR[1] before and after ones of RTMR[2]. *)
IsThree(R, Y, A, B, C) ==
    /\ Y \in Seq(R) /\ Len(Y) = Len(A) + Len(B) + Len(C)
    /\ Keep(Y, Mr(R, 1)) = Cat(A, C) /\ Keep(Y, Mr(R, 2)) = B

LEMMA ThreeBlocks ==
    ASSUME NEW R2, NEW R3, PlainIn(R2, 2), PlainIn(R3, 3),
           NEW A \in Seq(R2), NEW B \in Seq(R3), NEW C \in Seq(R2)
    PROVE  IsThree(R2 \cup R3, Cat(Cat(A, B), C), A, B, C)
<1> DEFINE R == R2 \cup R3
           AB == Cat(A, B)
           Y == Cat(AB, C)
<1>1. R2 \subseteq R /\ R3 \subseteq R
  OBVIOUS
<1>2. \A r \in R2 : r \in Mr(R, 1) /\ r \notin Mr(R, 2)
  BY DEF Mr, PlainIn
<1>3. \A r \in R3 : r \in Mr(R, 2) /\ r \notin Mr(R, 1)
  BY DEF Mr, PlainIn
<1> HIDE DEF R
<1>4. A \in Seq(R) /\ B \in Seq(R) /\ C \in Seq(R)
  BY <1>1, SeqMonotonic
<1>5. AB \in Seq(R) /\ Len(AB) = Len(A) + Len(B)
  BY <1>4, CatType
<1> HIDE DEF AB
<1>6. Y \in Seq(R) /\ Len(Y) = Len(AB) + Len(C)
  BY <1>4, <1>5, CatType
<1>7. /\ \A i \in 1 .. Len(A) : A[i] \in R2
      /\ \A i \in 1 .. Len(B) : B[i] \in R3
      /\ \A i \in 1 .. Len(C) : C[i] \in R2
  OBVIOUS
<1>8. Keep(A, Mr(R, 1)) = A /\ Keep(C, Mr(R, 1)) = C /\ Keep(B, Mr(R, 2)) = B
  <2>1. Keep(A, Mr(R, 1)) = A
    BY <1>2, <1>7, KeepAll
  <2>2. Keep(C, Mr(R, 1)) = C
    BY <1>2, <1>7, KeepAll
  <2>3. Keep(B, Mr(R, 2)) = B
    BY <1>3, <1>7, KeepAll
  <2> QED
    BY <2>1, <2>2, <2>3
<1>9. Keep(A, Mr(R, 2)) = <<>> /\ Keep(C, Mr(R, 2)) = <<>> /\ Keep(B, Mr(R, 1)) = <<>>
  <2>1. Keep(A, Mr(R, 2)) = <<>>
    BY <1>2, <1>7, KeepNone
  <2>2. Keep(C, Mr(R, 2)) = <<>>
    BY <1>2, <1>7, KeepNone
  <2>3. Keep(B, Mr(R, 1)) = <<>>
    BY <1>3, <1>7, KeepNone
  <2> QED
    BY <2>1, <2>2, <2>3
<1>10. ASSUME NEW V PROVE Keep(Y, V) = Cat(Cat(Keep(A, V), Keep(B, V)), Keep(C, V))
  <2>1. Keep(Y, V) = Cat(Keep(AB, V), Keep(C, V))
    BY <1>4, <1>5, KeepCat
  <2>2. Keep(AB, V) = Cat(Keep(A, V), Keep(B, V))
    BY <1>4, KeepCat DEF AB
  <2> QED
    BY <2>1, <2>2
<1>11. Cat(A, <<>>) = A /\ Cat(<<>>, B) = B /\ Cat(B, <<>>) = B
  BY CatEmpty
<1>12. Keep(Y, Mr(R, 1)) = Cat(A, C)
  BY <1>8, <1>9, <1>10, <1>11
<1>13. Keep(Y, Mr(R, 2)) = B
  BY <1>8, <1>9, <1>10, <1>11
<1>14. IsThree(R, Y, A, B, C)
  BY <1>5, <1>6, <1>12, <1>13 DEF IsThree
<1> QED
  BY <1>14 DEF R, AB

(* Firmware and boot loader make 7 or 5 events of RTMR[1], and of RTMR[2] an *)
(* even number or a single one.                                              *)
ImageParts(im, R, Y) ==
    /\ ImageEvents(im) = Y /\ Y \in Seq(R) /\ Len(Y) > 0
    /\ \A r \in R : Plain(r) /\ r.mr \in {2, 3}
    /\ im.mode = "direct-kernel" => Len(Keep(Y, Mr(R, 1))) = 5 /\ Len(Keep(Y, Mr(R, 2))) = 1
    /\ im.mode # "direct-kernel" => /\ Len(Keep(Y, Mr(R, 1))) = 7
                                    /\ \E n \in Nat : Len(Keep(Y, Mr(R, 2))) = 2 * n

LEMMA PartsOfBlocks ==
    ASSUME NEW im, NEW R2, NEW R3, PlainIn(R2, 2), PlainIn(R3, 3),
           NEW A \in Seq(R2), NEW B \in Seq(R3), NEW C \in Seq(R2),
           ImageEvents(im) = Cat(Cat(A, B), C),
           im.mode = "direct-kernel" => Len(A) = 3 /\ Len(B) = 1 /\ Len(C) = 2,
           im.mode # "direct-kernel" => Len(A) = 5 /\ Len(C) = 2 /\ \E n \in Nat : Len(B) = 2 * n
    PROVE  \E R, Y : ImageParts(im, R, Y)
<1> DEFINE R == R2 \cup R3
           Y == Cat(Cat(A, B), C)
<1>1. IsThree(R, Y, A, B, C)
  BY ThreeBlocks
<1>2. \A r \in R : Plain(r) /\ r.mr \in {2, 3}
  BY DEF PlainIn
<1>3. Len(Cat(A, C)) = Len(A) + Len(C)
  BY CatType
<1>4. Len(A) \in Nat /\ Len(B) \in Nat /\ Len(C) \in Nat
  OBVIOUS
<1>5. ImageEvents(im) = Y
  OBVIOUS
<1> HIDE DEF R, Y
<1>6. Len(Y) > 0
  <2>1. Len(Y) = Len(A) + Len(B) + Len(C)
    BY <1>1, Zenon DEF IsThree
  <2>2. Len(C) = 2
    BY Zenon
  <2> QED
    BY <1>4, <2>1, <2>2
<1>8. im.mode = "direct-kernel" => Len(Cat(A, C)) = 5 /\ Len(B) = 1
  <2> HAVE im.mode = "direct-kernel"
  <2>1. Len(A) = 3 /\ Len(B) = 1 /\ Len(C) = 2
    BY Zenon
  <2> QED
    BY <1>3, <2>1
<1>9. im.mode # "direct-kernel" => Len(Cat(A, C)) = 7
  <2> HAVE im.mode # "direct-kernel"
  <2>1. Len(A) = 5 /\ Len(C) = 2
    BY Zenon
  <2> QED
    BY <1>3, <2>1
<1>7. ImageParts(im, R, Y)
  BY <1>1, <1>2, <1>5, <1>6, <1>8, <1>9 DEF ImageParts, IsThree
<1> QED
  BY <1>7

LEMMA ImageShape ==
    ASSUME NEW im
    PROVE  \E R, Y : ImageParts(im, R, Y)
<1> DEFINE action(a) == Event(2, "ACTION", <<a>>)
           app(pe) == Event(2, "BOOT_SERVICES_APPLICATION", pe)
           tag(d) == Event(3, "EVENT_TAG", d)
           data(n) == (CHOOSE s \in ToSet(im.sections) : s.name = n).data
           present == Where(SectionOrder, LAMBDA n : \E s \in ToSet(im.sections) : s.name = n)
           sep == Event(2, "SEPARATOR", Separator)
           ex1 == action("Exit Invocation")
           ex2 == action("Exit Success")
           call == action("Calling")
           X == {".linux", ".osrel", ".cmdline", ".initrd", ".uname", ".splash", ".dtb", ".sbat",
                 ".pcrpkey"}
<1>1. /\ \A type, d : Plain(Event(2, type, d)) /\ Event(2, type, d).mr = 2
      /\ \A type, d : Plain(Event(3, type, d)) /\ Event(3, type, d).mr = 3
  BY PlainRecord DEF Event
<1>2. CASE im.mode = "direct-kernel"
  <2> DEFINE pe == app(Authenticode(im))
             cmdl == tag(<<"utf16">> \o Line(im.cmdline, {"\n"}))
             R2 == {pe, call, sep, ex1, ex2}
             R3 == {cmdl}
             A == <<pe, call, sep>>
             B == <<cmdl>>
             C == <<ex1, ex2>>
  <2>1. ImageEvents(im) = <<pe, call, sep, cmdl>> \o C
    BY <1>2 DEF ImageEvents
  <2>2. PlainIn(R2, 2) /\ PlainIn(R3, 3)
    BY <1>1 DEF PlainIn
  <2> HIDE DEF pe, cmdl, sep, ex1, ex2, call
  <2>3. A \in Seq(R2) /\ Len(A) = 3
    OBVIOUS
  <2>4. C \in Seq(R2) /\ Len(C) = 2
    OBVIOUS
  <2>5. B \in Seq(R3) /\ Len(B) = 1
    BY ShortSeqs
  <2>6. <<pe, call, sep, cmdl>> = A \o B
    OBVIOUS
  <2>7. ImageEvents(im) = Cat(Cat(A, B), C)
    BY <2>1, <2>6 DEF Cat
  <2> HIDE DEF A, B, C, R2, R3
  <2> QED
    BY <1>2, <2>2, <2>3, <2>4, <2>5, <2>7, PartsOfBlocks
<1>3. CASE im.mode # "direct-kernel"
  <2> DEFINE gpt == Event(2, "GPT", <<"gpt">> \o im.disk.header
                                    \o Where(im.disk.slots, LAMBDA s : s # None))
             boot == app(<<"pe">> \o im.disk.loader)
             uki == app(Authenticode(im))
             named(n) == Event(3, "IPL", <<"name", n>>)
             filled(n) == Event(3, "IPL", data(n))
             f == [i \in DOMAIN present |-> <<named(present[i]), filled(present[i])>>]
             t1 == tag(<<"utf16">> \o Line(data(".cmdline"), Blank))
             t2 == tag(data(".initrd") \o <<"cpio">> \o data(".osrel"))
             R2 == {call, sep, gpt, boot, uki, ex1, ex2}
             R3 == {named(n) : n \in X} \cup {filled(n) : n \in X} \cup {t1, t2}
             A == <<call, sep, gpt, boot, uki>>
             F == FlattenSeq(f)
             T == <<t1, t2>>
             B == Cat(F, T)
             C == <<ex1, ex2>>
  <2>1. ImageEvents(im) = ((A \o F) \o T) \o C
    BY <1>3 DEF ImageEvents
  <2>2. PlainIn(R2, 2) /\ PlainIn(R3, 3)
    <3> DEFINE two(x) == Plain(x) /\ x.mr = 2
               three(x) == Plain(x) /\ x.mr = 3
    <3>1. (\A type, d : two(Event(2, type, d))) /\ (\A type, d : three(Event(3, type, d)))
      BY <1>1
    <3> HIDE DEF two, three
    <3>2. two(call) /\ two(sep) /\ two(gpt) /\ two(boot) /\ two(uki) /\ two(ex1) /\ two(ex2)
      BY <3>1, Zenon
    <3>3. three(t1) /\ three(t2) /\ (\A n : three(named(n))) /\ (\A n : three(filled(n)))
      BY <3>1, Zenon
    <3> HIDE DEF call, sep, gpt, boot, uki, ex1, ex2, t1, t2, named, filled
    <3>4. (\A x \in R2 : two(x)) /\ (\A x \in R3 : three(x))
      BY <3>2, <3>3
    <3> QED
      BY <3>4 DEF PlainIn, two, three
  <2>3. present \in Seq(X)
    <3>1. SectionOrder \in Seq(X)
      BY DEF SectionOrder
    <3> DEFINE V == {x \in ToSet(SectionOrder) : \E s \in ToSet(im.sections) : s.name = x}
    <3>2. present = Keep(SectionOrder, V)
      BY DEF Where
    <3> HIDE DEF V, present
    <3> QED
      BY <3>1, <3>2, KeepType
  <2>4. \A n \in X : named(n) \in R3 /\ filled(n) \in R3
    <3> HIDE DEF X, named, filled, t1, t2
    <3> QED
      OBVIOUS
  <2>5. t1 \in R3 /\ t2 \in R3
    OBVIOUS
  <2> HIDE DEF present, gpt, boot, uki, call, sep, ex1, ex2, t1, t2, named, filled, R3
  <2>6. A \in Seq(R2) /\ Len(A) = 5
    OBVIOUS
  <2>7. C \in Seq(R2) /\ Len(C) = 2
    OBVIOUS
  <2>8. T \in Seq(R3) /\ Len(T) = 2
    BY <2>5
  <2> DEFINE U == Seq(R3)
             n == Len(present)
  <2>9. n \in Nat /\ DOMAIN present = 1 .. n /\ \A i \in 1 .. n : present[i] \in X
    BY <2>3
  <2> HIDE DEF X
  <2>10. ASSUME NEW x \in X PROVE <<named(x), filled(x)>> \in U /\ Len(<<named(x), filled(x)>>) = 2
    <3>1. named(x) \in R3 /\ filled(x) \in R3
      BY <2>4
    <3> QED
      BY <3>1
  <2>11. f \in [1 .. n -> U] /\ \A i \in 1 .. n : Len(f[i]) = 2
    <3> HIDE DEF U
    <3> QED
      BY <2>9, <2>10
  <2>12. f \in Seq(U) /\ Len(f) = n
    <3> HIDE DEF U, f, n
    <3> QED
      BY <2>9, <2>11, FunIsSeq
  <2>13. F \in Seq(R3) /\ Len(F) = 2 * n
    <3>1. f \in Seq(Seq(R3))
      BY <2>12
    <3>2. \A i \in 1 .. Len(f) : Len(f[i]) = 2
      BY <2>11, <2>12
    <3> HIDE DEF f
    <3>3. FlattenSeq(f) \in Seq(R3)
      BY <3>1, FlatType
    <3>4. Len(FlattenSeq(f)) = 2 * Len(f)
      BY <3>1, <3>2, FlatPairs
    <3> QED
      BY <2>12, <3>3, <3>4
  <2> HIDE DEF F, T, A, C, R2, n
  <2>14. B \in Seq(R3) /\ Len(B) = Len(F) + Len(T)
    BY <2>8, <2>13, CatType
  <2>15. Len(B) = 2 * (n + 1) /\ n + 1 \in Nat
    BY <2>8, <2>9, <2>13, <2>14 DEF n
  <2>16. ImageEvents(im) = Cat(Cat(A, B), C)
    <3> DEFINE R == R2 \cup R3
    <3>1. R2 \subseteq R /\ R3 \subseteq R
      OBVIOUS
    <3> HIDE DEF R
    <3>2. A \in Seq(R) /\ F \in Seq(R) /\ T \in Seq(R)
      BY <2>6, <2>8, <2>13, <3>1, SeqMonotonic
    <3>3. Cat(Cat(A, F), T) = Cat(A, Cat(F, T))
      BY <3>2, CatAssociates
    <3>4. ImageEvents(im) = Cat(Cat(Cat(A, F), T), C)
      BY <2>1 DEF Cat
    <3> QED
      BY <3>3, <3>4
  <2> HIDE DEF B
  <2> QED
    BY <1>3, <2>2, <2>6, <2>7, <2>14, <2>15, <2>16, PartsOfBlocks, SMTT(40)
<1> QED
  BY <1>2, <1>3

(* What the log of a boot is made of, and what its registers say of it. *)
LogParts(b, R) ==
    LET log == BootLog[b]  p == Platforms[b.platform]  direct == Images[b.image].mode = "direct-kernel"
        X == Keep(log, Mr(R, 0))
    IN  /\ log \in Seq(R) /\ Len(log) > 0 /\ log[Len(log)].mr \in {2, 3}
        /\ \A r \in R : Plain(r)
        /\ Len(X) = 12 + Len(p.order) /\ Firm(p, X) /\ X[12].digest = p.order
        /\ \A i \in 1 .. Len(p.order) : X[12 + i].digest = p.options[p.order[i]]
        /\ direct => Len(Keep(log, Mr(R, 1))) = 5 /\ Len(Keep(log, Mr(R, 2))) = 1
        /\ ~direct => /\ Len(Keep(log, Mr(R, 1))) = 7
                      /\ \E n \in Nat : Len(Keep(log, Mr(R, 2))) = 2 * n

LEMMA BlocksOfLog ==
    ASSUME NEW RX, NEW RY, NEW X \in Seq(RX), NEW Y \in Seq(RY), Len(Y) > 0,
           PlainIn(RX, 1), \A r \in RY : Plain(r) /\ r.mr \in {2, 3}
    PROVE  \E R : LET log == Cat(Cat(<<Signature>>, X), Y)
                  IN  /\ log \in Seq(R) /\ Len(log) > 0 /\ log[Len(log)].mr \in {2, 3}
                      /\ \A r \in R : Plain(r)
                      /\ Keep(log, Mr(R, 0)) = X
                      /\ \A i \in {1, 2} : Keep(log, Mr(R, i)) = Keep(Y, Mr(RY, i))
<1> DEFINE sig == <<Signature>>
           R == {Signature} \cup RX \cup RY
           SX == Cat(sig, X)
           log == Cat(SX, Y)
<1>1. Plain(Signature) /\ Signature.mr = 0
  BY DEF Signature, Event, Record, Plain
<1>2. \A r \in R : Plain(r)
  BY <1>1 DEF PlainIn
<1>3. Signature \in R /\ RX \subseteq R /\ RY \subseteq R
  OBVIOUS
<1>4. /\ \A r \in RX : r \in Mr(R, 0) /\ r \notin Mr(R, 1) /\ r \notin Mr(R, 2)
      /\ \A r \in RY : r \notin Mr(R, 0)
      /\ \A r \in RY : \A i \in {1, 2} : r \in Mr(R, i) <=> r \in Mr(RY, i)
      /\ \A i \in {0, 1, 2} : Signature \notin Mr(R, i)
  BY <1>1 DEF Mr, PlainIn
<1> HIDE DEF R
<1>5. sig \in Seq(R) /\ Len(sig) = 1 /\ sig[1] = Signature
  BY <1>3, ShortSeqs
<1>6. X \in Seq(R) /\ Y \in Seq(R)
  BY <1>3, SeqMonotonic
<1> HIDE DEF sig
<1>7. SX \in Seq(R) /\ Len(SX) = Len(sig) + Len(X)
  BY <1>5, <1>6, CatType
<1> HIDE DEF SX
<1>8. log \in Seq(R) /\ Len(log) = Len(SX) + Len(Y)
  BY <1>6, <1>7, CatType
<1>9. \A i \in 1 .. Len(Y) : log[Len(SX) + i] = Y[i]
  <2>1. SX \in Seq(R) /\ Y \in Seq(R)
    BY <1>6, <1>7
  <2> QED
    BY <2>1, CatFacts
<1>10. Len(Y) \in Nat /\ Len(X) \in Nat /\ Len(Y) \in 1 .. Len(Y) /\ Y[Len(Y)] \in RY
       /\ (\A i \in 1 .. Len(X) : X[i] \in RX) /\ (\A i \in 1 .. Len(Y) : Y[i] \in RY)
  OBVIOUS
<1>11. log[Len(log)] = Y[Len(Y)] /\ Len(log) > 0
  BY <1>5, <1>7, <1>8, <1>9, <1>10
<1>12. ASSUME NEW V PROVE Keep(log, V) = Cat(Cat(Keep(sig, V), Keep(X, V)), Keep(Y, V))
  <2>1. Keep(log, V) = Cat(Keep(SX, V), Keep(Y, V))
    BY <1>6, <1>7, KeepCat
  <2>2. Keep(SX, V) = Cat(Keep(sig, V), Keep(X, V))
    BY <1>5, <1>6, KeepCat DEF SX
  <2> QED
    BY <2>1, <2>2
<1> HIDE DEF log
<1>13. \A i \in {0, 1, 2} : Keep(sig, Mr(R, i)) = <<>>
  <2>1. \A i \in {0, 1, 2} : \A j \in 1 .. Len(sig) : sig[j] \notin Mr(R, i)
    BY <1>4, <1>5
  <2> QED
    BY <1>5, <2>1, KeepNone
<1>14. Keep(X, Mr(R, 0)) = X /\ Keep(Y, Mr(R, 0)) = <<>>
  <2>1. Keep(X, Mr(R, 0)) = X
    BY <1>4, <1>10, KeepAll
  <2>2. Keep(Y, Mr(R, 0)) = <<>>
    BY <1>4, <1>10, KeepNone
  <2> QED
    BY <2>1, <2>2
<1>15. ASSUME NEW i \in {1, 2} PROVE Keep(X, Mr(R, i)) = <<>> /\ Keep(Y, Mr(R, i)) = Keep(Y, Mr(RY, i))
  <2>1. Keep(X, Mr(R, i)) = <<>>
    <3>1. \A j \in 1 .. Len(X) : X[j] \notin Mr(R, i)
      BY <1>4, <1>10
    <3> QED
      BY <3>1, KeepNone
  <2>2. Keep(Y, Mr(R, i)) = Keep(Y, Mr(RY, i))
    <3>1. \A j \in 1 .. Len(Y) : Y[j] \in Mr(R, i) <=> Y[j] \in Mr(RY, i)
      BY <1>4, <1>10
    <3> QED
      BY <3>1, KeepSame
  <2> QED
    BY <2>1, <2>2
<1>16. Cat(<<>>, X) = X /\ Cat(X, <<>>) = X /\ Cat(<<>>, <<>>) = <<>>
  <2>1. Cat(<<>>, X) = X /\ Cat(X, <<>>) = X
    BY CatEmpty
  <2>2. Cat(<<>>, <<>>) = <<>>
    <3>1. <<>> \in Seq(R)
      BY ShortSeqs
    <3> QED
      BY <3>1, CatEmpty
  <2> QED
    BY <2>1, <2>2
<1>17. Keep(log, Mr(R, 0)) = X
  BY <1>12, <1>13, <1>14, <1>16
<1>18. ASSUME NEW i \in {1, 2} PROVE Keep(log, Mr(R, i)) = Keep(Y, Mr(RY, i))
  <2>1. Keep(Y, Mr(RY, i)) \in Seq(RY)
    BY KeepType
  <2>2. Cat(<<>>, Keep(Y, Mr(RY, i))) = Keep(Y, Mr(RY, i))
    BY <2>1, CatEmpty
  <2>3. Keep(sig, Mr(R, i)) = <<>>
    BY <1>13
  <2>4. Keep(log, Mr(R, i)) = Cat(Cat(Keep(sig, Mr(R, i)), Keep(X, Mr(R, i))), Keep(Y, Mr(R, i)))
    BY <1>12
  <2> QED
    BY <1>15, <1>16, <2>2, <2>3, <2>4
<1>19. log[Len(log)].mr \in {2, 3}
  BY <1>10, <1>11
<1>20. log = Cat(Cat(<<Signature>>, X), Y)
  BY DEF log, SX, sig
<1> QED
  BY <1>2, <1>8, <1>11, <1>17, <1>18, <1>19, <1>20

LEMMA LogShape ==
    ASSUME NEW b \in Boots
    PROVE  \E R : LogParts(b, R)
<1> DEFINE p == Platforms[b.platform]
           im == Images[b.image]
           O == DOMAIN p.options
<1>1. p.order \in Seq(O)
  BY PlatformAssumption
<1>2. BootLog[b] = FirmwareEvents(p) \o ImageEvents(im)
  BY DEF BootLog
<1>3. PICK RX, X : /\ FirmwareEvents(p) = <<Signature>> \o X
                   /\ X \in Seq(RX) /\ PlainIn(RX, 1) /\ Firm(p, X)
                   /\ Len(X) = 12 + Len(p.order)
                   /\ X[12].digest = p.order
                   /\ \A i \in 1 .. Len(p.order) : X[12 + i].digest = p.options[p.order[i]]
  <2> HIDE DEF p
  <2> QED
    BY <1>1, FirmwareShape
<1>4. PICK RY, Y : ImageParts(im, RY, Y)
  BY ImageShape
<1>5. BootLog[b] = Cat(Cat(<<Signature>>, X), Y)
  BY <1>2, <1>3, <1>4 DEF Cat, ImageParts
<1>6. PICK R : LET log == Cat(Cat(<<Signature>>, X), Y)
               IN  /\ log \in Seq(R) /\ Len(log) > 0 /\ log[Len(log)].mr \in {2, 3}
                   /\ \A r \in R : Plain(r)
                   /\ Keep(log, Mr(R, 0)) = X
                   /\ \A i \in {1, 2} : Keep(log, Mr(R, i)) = Keep(Y, Mr(RY, i))
  <2>1. Y \in Seq(RY) /\ Len(Y) > 0 /\ \A r \in RY : Plain(r) /\ r.mr \in {2, 3}
    BY <1>4 DEF ImageParts
  <2>2. X \in Seq(RX) /\ PlainIn(RX, 1)
    BY <1>3
  <2> QED
    BY <2>1, <2>2, BlocksOfLog
<1> DEFINE log == BootLog[b]
<1>7. /\ log \in Seq(R) /\ Len(log) > 0 /\ log[Len(log)].mr \in {2, 3}
      /\ \A r \in R : Plain(r)
      /\ Keep(log, Mr(R, 0)) = X
      /\ Keep(log, Mr(R, 1)) = Keep(Y, Mr(RY, 1))
      /\ Keep(log, Mr(R, 2)) = Keep(Y, Mr(RY, 2))
  BY <1>5, <1>6
<1>8. /\ im.mode = "direct-kernel" => Len(Keep(Y, Mr(RY, 1))) = 5 /\ Len(Keep(Y, Mr(RY, 2))) = 1
      /\ im.mode # "direct-kernel" => /\ Len(Keep(Y, Mr(RY, 1))) = 7
                                      /\ \E n \in Nat : Len(Keep(Y, Mr(RY, 2))) = 2 * n
  BY <1>4 DEF ImageParts
<1>9. LogParts(b, R)
  <2> HIDE DEF log
  <2>1. /\ Len(X) = 12 + Len(p.order) /\ Firm(p, X) /\ X[12].digest = p.order
        /\ \A i \in 1 .. Len(p.order) : X[12 + i].digest = p.options[p.order[i]]
    BY <1>3
  <2> QED
    BY <1>7, <1>8, <2>1, Zenon DEF LogParts, log
<1> QED
  BY <1>9

(* A log that lacks one extend does not replay to the registers of any boot: *)
(* each boot makes a fixed number of events, and the boot order tells how     *)
(* many load options follow it.                                              *)
LEMMA OneExtendShort ==
    ASSUME NEW b \in Boots, NEW c \in Boots, NEW k \in 1 .. Len(BootLog[b]), BootLog[b][k].mr # 0
    PROVE  \E i \in 0 .. 2 : Of(i, RemoveAt(BootLog[b], k)) # Of(i, BootLog[c])
<1> DEFINE log == BootLog[b]
           other == BootLog[c]
           p == Platforms[b.platform]
           q == Platforms[c.platform]
           r == RemoveAt(log, k)
<1> SUFFICES ASSUME \A i \in 0 .. 2 : Of(i, r) = Of(i, other)
             PROVE  FALSE
  OBVIOUS
<1>1. PICK R : LogParts(b, R)
  BY LogShape
<1>2. PICK Q : LogParts(c, Q)
  BY LogShape
<1> DEFINE K(i) == Keep(log, Mr(R, i))
           L(i) == Keep(other, Mr(Q, i))
           M(i) == Keep(r, Mr(R, i))
           direct == Images[b.image].mode = "direct-kernel"
           also == Images[c.image].mode = "direct-kernel"
<1>3. /\ log \in Seq(R) /\ \A x \in R : Plain(x)
      /\ Len(K(0)) = 12 + Len(p.order) /\ K(0)[12].digest = p.order
      /\ \A i \in 1 .. Len(p.order) : K(0)[12 + i].digest = p.options[p.order[i]]
  BY <1>1, Zenon DEF LogParts
<1>4. /\ direct => Len(K(1)) = 5 /\ Len(K(2)) = 1
      /\ ~direct => Len(K(1)) = 7 /\ \E n \in Nat : Len(K(2)) = 2 * n
  BY <1>1, Zenon DEF LogParts
<1>5. /\ other \in Seq(Q)
      /\ Len(L(0)) = 12 + Len(q.order) /\ L(0)[12].digest = q.order
  BY <1>2, Zenon DEF LogParts
<1>6. /\ also => Len(L(1)) = 5 /\ Len(L(2)) = 1
      /\ ~also => Len(L(1)) = 7 /\ \E n \in Nat : Len(L(2)) = 2 * n
  BY <1>2, Zenon DEF LogParts
<1>7. k \in 1 .. Len(log) /\ log[k] \in R /\ log[k].mr # 0
  BY <1>3
<1> HIDE DEF log, other, p, q
<1>8. r \in Seq(R)
  BY <1>3, <1>7, RemoveFacts
<1> HIDE DEF r
<1>9. ASSUME NEW i \in 0 .. 2
      PROVE  /\ Len(K(i)) \in Nat /\ Len(L(i)) \in Nat /\ K(i) \in Seq(R)
             /\ Len(M(i)) = Len(L(i))
             /\ \A j \in 1 .. Len(M(i)) : M(i)[j].digest = L(i)[j].digest
  <2>1. K(i) \in Seq(R) /\ L(i) \in Seq(Q) /\ M(i) \in Seq(R)
    BY <1>3, <1>5, <1>8, KeepType
  <2>2. Of(i, r) = Digests(M(i)) /\ Of(i, other) = Digests(L(i))
    BY <1>5, <1>8, OfIsKept
  <2> DEFINE u == M(i)  v == L(i)  w == K(i)
  <2>3. u \in Seq(R) /\ v \in Seq(Q) /\ w \in Seq(R) /\ Digests(u) = Digests(v)
    BY <2>1, <2>2
  <2> HIDE DEF u, v, w
  <2>4. Len(Digests(u)) = Len(u) /\ \A j \in 1 .. Len(u) : Digests(u)[j] = u[j].digest
    BY <2>3, DigestsOf
  <2>5. Len(Digests(v)) = Len(v) /\ \A j \in 1 .. Len(v) : Digests(v)[j] = v[j].digest
    BY <2>3, DigestsOf
  <2>6. Len(w) \in Nat /\ Len(v) \in Nat
    BY <2>3
  <2>7. Len(u) = Len(v) /\ \A j \in 1 .. Len(u) : u[j].digest = v[j].digest
    BY <2>3, <2>4, <2>5
  <2> QED
    BY <2>3, <2>6, <2>7 DEF u, v, w
<1>10. ASSUME NEW i \in 0 .. 2, log[k].mr # i + 1 PROVE M(i) = K(i)
  <2>1. log[k] \notin Mr(R, i)
    BY <1>10 DEF Mr
  <2> QED
    BY <1>3, <1>7, <2>1, KeepRemoved DEF r
<1>11. ASSUME NEW i \in 0 .. 2, log[k].mr = i + 1
       PROVE  \E j \in 1 .. Len(K(i)) : M(i) = RemoveAt(K(i), j)
  <2>1. log[k] \in Mr(R, i)
    BY <1>7, <1>11 DEF Mr
  <2> QED
    BY <1>3, <1>7, <2>1, KeepWithout DEF r
<1> HIDE DEF K, L, M
<1>12. ASSUME NEW i \in 0 .. 2, log[k].mr = i + 1
       PROVE  \E j \in 1 .. Len(K(i)) :
                /\ Len(L(i)) = Len(K(i)) - 1
                /\ \A h \in 1 .. Len(L(i)) :
                     L(i)[h].digest = IF h < j THEN K(i)[h].digest ELSE K(i)[h + 1].digest
  <2>1. PICK j \in 1 .. Len(K(i)) : M(i) = RemoveAt(K(i), j)
    BY <1>11, <1>12
  <2>2. K(i) \in Seq(R)
    BY <1>9
  <2>3. /\ Len(M(i)) = Len(K(i)) - 1
        /\ \A h \in 1 .. Len(K(i)) - 1 : M(i)[h] = IF h < j THEN K(i)[h] ELSE K(i)[h + 1]
    BY <2>1, <2>2, RemoveFacts
  <2>4. Len(M(i)) = Len(L(i)) /\ \A h \in 1 .. Len(M(i)) : M(i)[h].digest = L(i)[h].digest
    BY <1>9
  <2> QED
    BY <2>3, <2>4
<1>13. log[k].mr \in {1, 2, 3}
  BY <1>3, <1>7 DEF Plain
<1>14. CASE log[k].mr = 1
  <2>1. PICK j \in 1 .. Len(K(0)) :
          /\ Len(L(0)) = Len(K(0)) - 1
          /\ \A h \in 1 .. Len(L(0)) :
               L(0)[h].digest = IF h < j THEN K(0)[h].digest ELSE K(0)[h + 1].digest
    BY <1>12, <1>14
  <2>2. Len(p.order) \in Nat /\ Len(q.order) \in Nat /\ DOMAIN p.order = 1 .. Len(p.order)
    BY PlatformAssumption DEF p, q
  <2>3. Len(p.order) = Len(q.order) + 1 /\ 12 \in 1 .. Len(L(0)) /\ 1 \in 1 .. Len(p.order)
    <3>1. Len(K(0)) = 12 + Len(p.order) /\ Len(L(0)) = 12 + Len(q.order) /\ Len(L(0)) = Len(K(0)) - 1
      BY <1>3, <1>5, <2>1, Zenon
    <3> QED
      BY <2>2, <3>1, SMTT(40)
  <2>4. q.order = IF 12 < j THEN K(0)[12].digest ELSE K(0)[13].digest
    BY <1>5, <2>1, <2>3
  <2>5. K(0)[12 + 1].digest = p.options[p.order[1]]
    BY <1>3, <2>3
  <2>6. q.order # p.order
    BY <2>2, <2>3
  <2>7. p.options[p.order[1]] # q.order
    BY <2>2, <2>3, PlatformAssumption DEF p, q
  <2> QED
    BY <1>3, <2>4, <2>5, <2>6, <2>7
<1>15. CASE log[k].mr = 2
  <2>1. Len(L(1)) = Len(K(1)) - 1
    BY <1>12, <1>15
  <2>2. (Len(K(1)) = 5 \/ Len(K(1)) = 7) /\ (Len(L(1)) = 5 \/ Len(L(1)) = 7)
    BY <1>4, <1>6, Zenon
  <2> DEFINE x == Len(L(1))  y == Len(K(1))
  <2>3. x = y - 1 /\ y \in {5, 7} /\ x \in {5, 7}
    BY <2>1, <2>2, Zenon
  <2> HIDE DEF x, y
  <2> QED
    BY <2>3
<1>16. CASE log[k].mr = 3
  <2>1. Len(L(2)) = Len(K(2)) - 1
    BY <1>12, <1>16
  <2>2. M(1) = K(1)
    BY <1>10, <1>16
  <2>3. Len(K(1)) = Len(L(1))
    BY <1>9, <2>2
  <2>4. CASE direct
    <3>1. Len(K(1)) = 5 /\ Len(K(2)) = 1
      BY <1>4, <2>4, Zenon
    <3>2. CASE also
      <4>1. Len(L(2)) = 1
        BY <1>6, <3>2, Zenon
      <4> DEFINE x == Len(L(2))  y == Len(K(2))
      <4>2. x = y - 1 /\ y = 1 /\ x = 1
        BY <2>1, <3>1, <4>1, Zenon
      <4> HIDE DEF x, y
      <4> QED
        BY <4>2
    <3>3. CASE ~also
      <4>1. Len(L(1)) = 7
        BY <1>6, <3>3, Zenon
      <4> DEFINE x == Len(L(1))  y == Len(K(1))
      <4>2. x = y /\ y = 5 /\ x = 7
        BY <2>3, <3>1, <4>1, Zenon
      <4> HIDE DEF x, y
      <4> QED
        BY <4>2
    <3> QED
      BY <3>2, <3>3
  <2>5. CASE ~direct
    <3>1. Len(K(1)) = 7
      BY <1>4, <2>5, Zenon
    <3>2. PICK n \in Nat : Len(K(2)) = 2 * n
      BY <1>4, <2>5, Zenon
    <3>3. CASE also
      <4>1. Len(L(1)) = 5
        BY <1>6, <3>3, Zenon
      <4> DEFINE x == Len(L(1))  y == Len(K(1))
      <4>2. x = y /\ y = 7 /\ x = 5
        BY <2>3, <3>1, <4>1, Zenon
      <4> HIDE DEF x, y
      <4> QED
        BY <4>2
    <3>4. CASE ~also
      <4>1. PICK m \in Nat : Len(L(2)) = 2 * m
        BY <1>6, <3>4, Zenon
      <4> DEFINE x == Len(L(2))  y == Len(K(2))
      <4>2. x = y - 1 /\ y = 2 * n /\ x = 2 * m
        BY <2>1, <3>2, <4>1, Zenon
      <4> HIDE DEF x, y
      <4> QED
        BY <4>2
    <3> QED
      BY <3>3, <3>4
  <2> QED
    BY <2>4, <2>5
<1> QED
  BY <1>13, <1>14, <1>15, <1>16

-----------------------------------------------------------------------------
(* What parse_ccel reads of a file.                                          *)

(* parse_ccel reads n records of rec and stops. *)
Reads(rec, n) ==
    /\ n \in 0 .. Len(rec)
    /\ \A i \in 1 .. n : ~Stops(rec[i])
    /\ n < Len(rec) => Stops(rec[n + 1])

Sha384(T) == {r \in T : r.alg = "SHA-384"}

LEMMA StopsThere ==
    ASSUME NEW T, NEW rec \in Seq(T), NEW n, Reads(rec, n)
    PROVE  SelectInSeq(rec, Stops) = IF n = Len(rec) THEN 0 ELSE n + 1
<1> DEFINE I == {i \in 1 .. Len(rec) : Stops(rec[i])}
<1>1. SelectInSeq(rec, Stops) = IF I # {} THEN Min(I) ELSE 0
  BY DEF SelectInSeq
<1>2. n \in Nat /\ Len(rec) \in Nat /\ n <= Len(rec)
  BY DEF Reads
<1>3. CASE n = Len(rec)
  <2>1. I = {}
    BY <1>3 DEF Reads
  <2> QED
    BY <1>1, <1>3, <2>1
<1>4. CASE n # Len(rec)
  <2>1. n + 1 \in I
    BY <1>2, <1>4 DEF Reads
  <2>2. \A i \in I : n + 1 <= i
    BY <1>2 DEF Reads
  <2>3. \A x \in I : (\A y \in I : x <= y) => x = n + 1
    BY <1>2, <2>1, <2>2
  <2>4. Min(I) = n + 1
    <3> HIDE DEF I
    <3> QED
      BY <2>1, <2>2, <2>3 DEF Min
  <2> QED
    BY <1>1, <1>4, <2>1, <2>4
<1> QED
  BY <1>3, <1>4

LEMMA ReadsPart ==
    ASSUME NEW T, NEW rec \in Seq(T), NEW n, Reads(rec, n)
    PROVE  /\ ReadRecords(rec).events = Keep(SubSeq(rec, 1, n), Sha384(T))
           /\ ReadRecords(rec).ok = (n = Len(rec) \/ rec[n + 1].whole)
<1> DEFINE stop == SelectInSeq(rec, Stops)
           s == SubSeq(rec, 1, n)
           V == {x \in ToSet(s) : x.alg = "SHA-384"}
<1>1. stop = IF n = Len(rec) THEN 0 ELSE n + 1
  BY StopsThere
<1>2. n \in Nat /\ Len(rec) \in Nat /\ n <= Len(rec)
  BY DEF Reads
<1>3. (IF stop = 0 THEN rec ELSE SubSeq(rec, 1, stop - 1)) = s
  <2> HIDE DEF stop
  <2>1. CASE n = Len(rec)
    <3>1. SubSeq(rec, 1, Len(rec)) = rec
      BY SubSeqFull
    <3> QED
      BY <1>1, <2>1, <3>1
  <2>2. CASE n # Len(rec)
    <3>1. stop # 0 /\ stop - 1 = n
      BY <1>1, <1>2, <2>2
    <3> QED
      BY <3>1
  <2> QED
    BY <2>1, <2>2
<1>4. s \in Seq(T)
  BY <1>2
<1>5. ReadRecords(rec).ok = (stop = 0 \/ rec[stop].whole)
  BY DEF ReadRecords, ReadUpTo
<1>6. ReadRecords(rec).events
        = Where(IF stop = 0 THEN rec ELSE SubSeq(rec, 1, stop - 1), LAMBDA r : r.alg = "SHA-384")
  BY DEF ReadRecords, ReadUpTo
<1>7. ReadRecords(rec).events = Where(s, LAMBDA r : r.alg = "SHA-384")
  <2> HIDE DEF stop, s
  <2> QED
    BY <1>3, <1>6
<1> HIDE DEF s, stop
<1>8. Where(s, LAMBDA r : r.alg = "SHA-384") = Keep(s, V)
  BY DEF Where
<1>9. \A j \in 1 .. Len(s) : s[j] \in V <=> s[j] \in Sha384(T)
  <2>1. \A j \in 1 .. Len(s) : s[j] \in T /\ s[j] \in ToSet(s)
    BY <1>4 DEF ToSet
  <2> QED
    BY <2>1 DEF Sha384
<1>10. Keep(s, V) = Keep(s, Sha384(T))
  <2> HIDE DEF V
  <2> QED
    BY <1>4, <1>9, KeepSame
<1>11. (stop = 0 \/ rec[stop].whole) = (n = Len(rec) \/ rec[n + 1].whole)
  <2>1. CASE n = Len(rec)
    BY <1>1, <2>1
  <2>2. CASE n # Len(rec)
    <3>1. stop # 0 /\ stop = n + 1
      BY <1>1, <1>2, <2>2
    <3> QED
      BY <2>2, <3>1
  <2> QED
    BY <2>1, <2>2
<1> QED
  BY <1>5, <1>7, <1>8, <1>10, <1>11 DEF s

(* When no event of RTMR[0..2] is passed over, and none is behind the record *)
(* it stops at, it reads all that the file holds of these registers.          *)
LEMMA ReadsAll ==
    ASSUME NEW T, NEW rec \in Seq(T), NEW n, Reads(rec, n), NEW i \in 0 .. 2,
           \A j \in 1 .. n : rec[j].mr = i + 1 => rec[j].alg = "SHA-384",
           \A j \in n + 1 .. Len(rec) : rec[j].mr # i + 1
    PROVE  Of(i, ReadRecords(rec).events) = Of(i, rec)
<1> DEFINE a == SubSeq(rec, 1, n)
           c == SubSeq(rec, n + 1, Len(rec))
           V == Mr(T, i)
           W == Sha384(T)
           ev == Keep(a, W)
<1>1. n \in Nat /\ Len(rec) \in Nat /\ n <= Len(rec)
  BY DEF Reads
<1>2. a \in Seq(T) /\ Len(a) = n /\ \A j \in 1 .. n : a[j] = rec[j]
  BY <1>1
<1>3. c \in Seq(T) /\ Len(c) = Len(rec) - n /\ \A j \in 1 .. Len(rec) - n : c[j] = rec[n + j]
  BY <1>1
<1> HIDE DEF a, c
<1>4. rec = Cat(a, c)
  <2> DEFINE d == Cat(a, c)
  <2>1. d \in Seq(T) /\ Len(d) = Len(a) + Len(c)
    BY <1>2, <1>3, CatType
  <2>2. (\A j \in 1 .. Len(a) : d[j] = a[j]) /\ (\A j \in 1 .. Len(c) : d[Len(a) + j] = c[j])
    <3>1. a \in Seq(T) /\ c \in Seq(T)
      BY <1>2, <1>3
    <3> QED
      BY <3>1, CatFacts
  <2> HIDE DEF d
  <2>3. Len(d) = Len(rec)
    BY <1>1, <1>2, <1>3, <2>1
  <2>4. ASSUME NEW j \in 1 .. Len(d) PROVE d[j] = rec[j]
    <3>1. CASE j <= n
      <4>1. j \in 1 .. n
        BY <1>1, <2>3, <3>1
      <4> QED
        BY <1>2, <2>2, <4>1
    <3>2. CASE j > n
      <4>1. j - n \in 1 .. Len(rec) - n /\ n + (j - n) = j
        BY <1>1, <2>3, <3>2
      <4> QED
        BY <1>2, <1>3, <2>2, <4>1
    <3> QED
      BY <1>1, <2>3, <3>1, <3>2
  <2>5. d = rec
    BY <2>1, <2>3, <2>4, SeqEqual
  <2> QED
    BY <2>5 DEF d
<1>5. ReadRecords(rec).events = ev
  BY ReadsPart DEF a
<1>6. ev \in Seq(T)
  BY <1>2, KeepType
<1>7. Of(i, ev) = Digests(Keep(ev, V)) /\ Of(i, rec) = Digests(Keep(rec, V))
  BY <1>6, OfIsKept
<1>8. Keep(ev, V) = Keep(a, W \cap V)
  BY <1>2, KeepKeep
<1>9. Keep(a, W \cap V) = Keep(a, V)
  <2>1. \A j \in 1 .. Len(a) : a[j] \in W \cap V <=> a[j] \in V
    <3>1. \A j \in 1 .. Len(a) : a[j] \in T /\ a[j] = rec[j] /\ j \in 1 .. n
      BY <1>2
    <3> QED
      BY <3>1 DEF Mr, Sha384
  <2> QED
    BY <1>2, <2>1, KeepSame
<1>10. Keep(c, V) = <<>>
  <2>1. \A j \in 1 .. Len(c) : c[j] \notin V
    <3>1. \A j \in 1 .. Len(c) : c[j] = rec[n + j] /\ n + j \in n + 1 .. Len(rec)
      BY <1>1, <1>3
    <3> QED
      BY <3>1 DEF Mr
  <2> QED
    BY <1>3, <2>1, KeepNone
<1>11. Keep(rec, V) = Cat(Keep(a, V), Keep(c, V))
  BY <1>2, <1>3, <1>4, KeepCat
<1>12. Keep(a, V) \in Seq(T)
  BY <1>2, KeepType
<1>13. Cat(Keep(a, V), <<>>) = Keep(a, V)
  BY <1>12, CatEmpty
<1> QED
  BY <1>5, <1>7, <1>8, <1>9, <1>10, <1>11, <1>13

(* A log in memory is what the boot logged and at most one more record, which *)
(* ends it.                                                                   *)
Ends(r) == /\ r.mr \in {0, Padding} /\ r.whole = TRUE /\ r.alg = "SHA-384"
           /\ r.mr = 0 => r.type = "0"
           /\ {"mr", "type", "digest", "data", "readable", "name", "alg", "whole"} \subseteq DOMAIN r

IsWhole(b, T, w, n) ==
    /\ w \in Seq(T) /\ n = Len(BootLog[b]) /\ n \in Nat /\ Len(w) \in {n, n + 1}
    /\ \A i \in 1 .. n : w[i] = BootLog[b][i] /\ Plain(w[i])
    /\ Len(w) = n + 1 => Ends(w[n + 1])

LEMMA WholeShape ==
    ASSUME NEW b \in Boots
    PROVE  \E T : IsWhole(b, T, WholeLog(b), Len(BootLog[b]))
<1> DEFINE log == BootLog[b]
           p == Platforms[b.platform]
           e == LogEnd(p)
           w == Cat(log, e)
           E == {Event(0, "0", <<>>), Event(Padding, "FF", <<>>)}
<1>1. PICK R : LogParts(b, R)
  BY LogShape
<1>2. log \in Seq(R) /\ \A x \in R : Plain(x)
  BY <1>1, Zenon DEF LogParts
<1>3. \A x \in E : Ends(x)
  BY DEF Ends, Event, Record, Padding
<1>4. p.fw.logEnd \in {"terminator", "padding", "none"}
  BY PlatformAssumption
<1>5. e = <<>> \/ \E x \in E : e = <<x>>
  BY <1>4 DEF LogEnd
<1>6. w = WholeLog(b)
  BY DEF WholeLog, Cat
<1> HIDE DEF E, log, e
<1> DEFINE T == R \cup E
<1>7. R \subseteq T /\ E \subseteq T
  OBVIOUS
<1> HIDE DEF T
<1>8. e \in Seq(T) /\ Len(e) \in {0, 1} /\ (Len(e) = 1 => Ends(e[1]))
  <2>1. CASE e = <<>>
    <3>1. e \in Seq(T) /\ Len(e) = 0
      BY <2>1, ShortSeqs
    <3> QED
      BY <3>1
  <2>2. CASE \E x \in E : e = <<x>>
    <3>1. PICK x \in E : e = <<x>>
      BY <2>2
    <3>2. x \in T /\ Ends(x)
      BY <1>3, <1>7
    <3>3. e \in Seq(T) /\ Len(e) = 1 /\ e[1] = x
      BY <3>1, <3>2, ShortSeqs
    <3> QED
      BY <3>2, <3>3
  <2> QED
    BY <1>5, <2>1, <2>2
<1>9. log \in Seq(T)
  BY <1>2, <1>7, SeqMonotonic
<1>10. w \in Seq(T) /\ Len(w) = Len(log) + Len(e)
  <2>1. e \in Seq(T)
    BY <1>8
  <2> QED
    BY <1>9, <2>1, CatType
<1>11. /\ \A i \in 1 .. Len(log) : w[i] = log[i]
       /\ \A i \in 1 .. Len(e) : w[Len(log) + i] = e[i]
  <2>1. e \in Seq(T)
    BY <1>8
  <2> QED
    BY <1>9, <2>1, CatFacts
<1>12. Len(log) \in Nat /\ \A i \in 1 .. Len(log) : log[i] \in R
  BY <1>2
<1> HIDE DEF w
<1>13. Len(w) \in {Len(log), Len(log) + 1} /\ (Len(w) = Len(log) + 1 => Len(e) = 1)
  <2>1. Len(e) \in {0, 1} /\ Len(w) = Len(log) + Len(e) /\ Len(log) \in Nat
    BY <1>8, <1>10, <1>12, Zenon
  <2> DEFINE x == Len(e)  y == Len(log)  z == Len(w)
  <2>2. x \in {0, 1} /\ z = y + x /\ y \in Nat
    BY <2>1
  <2> HIDE DEF x, y, z
  <2>3. z \in {y, y + 1} /\ (z = y + 1 => x = 1)
    BY <2>2
  <2> QED
    BY <2>3 DEF x, y, z
<1>14. ASSUME Len(w) = Len(log) + 1 PROVE Ends(w[Len(log) + 1])
  <2>1. Len(e) = 1 /\ Ends(e[1])
    BY <1>8, <1>13, <1>14
  <2> QED
    BY <1>11, <2>1
<1>15. \A i \in 1 .. Len(log) : w[i] = log[i] /\ Plain(w[i])
  BY <1>2, <1>11, <1>12
<1>16. IsWhole(b, T, w, Len(log))
  BY <1>10, <1>12, <1>13, <1>14, <1>15 DEF IsWhole, log
<1> QED
  BY <1>6, <1>16 DEF log

LEMMA PlainReads ==
    ASSUME NEW r
    PROVE  /\ Plain(r) => ~Stops(r) /\ r.alg = "SHA-384"
           /\ Ends(r) => Stops(r) /\ r.whole = TRUE /\ \A i \in 0 .. 2 : r.mr # i + 1
           /\ Plain(r) \/ Ends(r) =>
                LET x == [r EXCEPT !.alg = "SHA-256"]
                IN  /\ x.mr = r.mr /\ x.whole = r.whole /\ x.type = r.type /\ x.digest = r.digest
                    /\ x.alg = "SHA-256" /\ (Stops(x) <=> Stops(r))
           /\ Plain(r) \/ Ends(r) => [r EXCEPT !.whole = FALSE].whole = FALSE
<1>1. Plain(r) => ~Stops(r) /\ r.alg = "SHA-384"
  BY DEF Plain, Stops, Padding
<1>2. Ends(r) => Stops(r) /\ r.whole = TRUE /\ \A i \in 0 .. 2 : r.mr # i + 1
  BY DEF Ends, Stops, Padding
<1>3. ASSUME Plain(r) \/ Ends(r)
      PROVE  /\ [r EXCEPT !.whole = FALSE].whole = FALSE
             /\ LET x == [r EXCEPT !.alg = "SHA-256"]
                IN  /\ x.mr = r.mr /\ x.whole = r.whole /\ x.type = r.type /\ x.digest = r.digest
                    /\ x.alg = "SHA-256" /\ (Stops(x) <=> Stops(r))
  <2>1. {"mr", "type", "digest", "data", "readable", "name", "alg", "whole"} \subseteq DOMAIN r
    BY <1>3 DEF Plain, Ends
  <2> DEFINE x == [r EXCEPT !.alg = "SHA-256"]
  <2>2. /\ x.mr = r.mr /\ x.whole = r.whole /\ x.type = r.type /\ x.digest = r.digest
        /\ x.alg = "SHA-256" /\ [r EXCEPT !.whole = FALSE].whole = FALSE
    BY <2>1
  <2> HIDE DEF x
  <2>3. Stops(x) <=> Stops(r)
    BY <2>2 DEF Stops
  <2> QED
    BY <2>2, <2>3 DEF x
<1> QED
  BY <1>1, <1>2, <1>3

(* Whoever passes the records rec for the registers of a boot c is right. *)
Right(rec, c) ==
    /\ \E T : rec \in Seq(T) /\ ReadRecords(rec).events \in Seq(T)
    /\ /\ ReadRecords(rec).ok
       /\ \A i \in 0 .. 2 : Of(i, ReadRecords(rec).events) = Of(i, BootLog[c])
       => \A i \in 0 .. 2 : Of(i, rec) = Of(i, BootLog[c])

LEMMA ReadsType ==
    ASSUME NEW T, NEW rec \in Seq(T), NEW n, Reads(rec, n)
    PROVE  ReadRecords(rec).events \in Seq(T)
<1>1. n \in Nat /\ Len(rec) \in Nat /\ n <= Len(rec)
  BY DEF Reads
<1>2. SubSeq(rec, 1, n) \in Seq(T)
  BY <1>1
<1>3. ReadRecords(rec).events = Keep(SubSeq(rec, 1, n), Sha384(T))
  BY ReadsPart
<1> QED
  BY <1>2, <1>3, KeepType

LEMMA RightWhenAll ==
    ASSUME NEW T, NEW rec \in Seq(T), NEW c, NEW n, Reads(rec, n),
           \A j \in 1 .. n : \A i \in 0 .. 2 : rec[j].mr = i + 1 => rec[j].alg = "SHA-384",
           \A j \in n + 1 .. Len(rec) : \A i \in 0 .. 2 : rec[j].mr # i + 1
    PROVE  Right(rec, c)
<1>1. \A i \in 0 .. 2 : Of(i, ReadRecords(rec).events) = Of(i, rec)
  BY ReadsAll
<1>2. ReadRecords(rec).events \in Seq(T)
  BY ReadsType
<1> QED
  BY <1>1, <1>2 DEF Right

LEMMA RightWhenTorn ==
    ASSUME NEW T, NEW rec \in Seq(T), NEW c, NEW n, Reads(rec, n),
           n # Len(rec), rec[n + 1].whole = FALSE
    PROVE  Right(rec, c)
<1>1. ReadRecords(rec).ok = (n = Len(rec) \/ rec[n + 1].whole)
  BY ReadsPart
<1>2. ~ReadRecords(rec).ok
  BY <1>1
<1>3. ReadRecords(rec).events \in Seq(T)
  BY ReadsType
<1> QED
  BY <1>2, <1>3 DEF Right

LEMMA RightWhenShort ==
    ASSUME NEW T, NEW rec \in Seq(T), NEW b \in Boots, NEW c \in Boots, NEW n, Reads(rec, n),
           NEW k \in 1 .. Len(BootLog[b]), BootLog[b][k].mr # 0,
           Keep(SubSeq(rec, 1, n), Sha384(T)) = RemoveAt(BootLog[b], k)
    PROVE  Right(rec, c)
<1>1. ReadRecords(rec).events = RemoveAt(BootLog[b], k)
  BY ReadsPart
<1>2. \E i \in 0 .. 2 : Of(i, RemoveAt(BootLog[b], k)) # Of(i, BootLog[c])
  BY OneExtendShort
<1>3. ReadRecords(rec).events \in Seq(T)
  BY ReadsType
<1> QED
  BY <1>1, <1>2, <1>3 DEF Right

(* A log that is not damaged. *)
LEMMA UndamagedRight ==
    ASSUME NEW b \in Boots, NEW c
    PROVE  /\ Right(WholeLog(b), c)
           /\ ReadRecords(WholeLog(b)).ok /\ Len(ReadRecords(WholeLog(b)).events) <= MaxEvents
           /\ \A i \in 0 .. 2 : Of(i, ReadRecords(WholeLog(b)).events) = Of(i, BootLog[b])
<1> DEFINE w == WholeLog(b)
           n == Len(BootLog[b])
<1>1. PICK T : IsWhole(b, T, w, n)
  BY WholeShape
<1>2. /\ w \in Seq(T) /\ n \in Nat /\ Len(w) \in {n, n + 1}
      /\ \A i \in 1 .. n : w[i] = BootLog[b][i] /\ Plain(w[i])
      /\ Len(w) = n + 1 => Ends(w[n + 1])
  BY <1>1 DEF IsWhole
<1> HIDE DEF w
<1>3. n \in 0 .. Len(w) /\ (n < Len(w) => Len(w) = n + 1) /\ (n # Len(w) => Len(w) = n + 1)
  BY <1>2
<1>4. Reads(w, n)
  BY <1>2, <1>3, PlainReads DEF Reads
<1>5. \A j \in 1 .. n : w[j].alg = "SHA-384"
  BY <1>2, PlainReads
<1>6. \A j \in n + 1 .. Len(w) : \A i \in 0 .. 2 : w[j].mr # i + 1
  <2>1. \A j \in n + 1 .. Len(w) : j = n + 1 /\ Len(w) = n + 1
    BY <1>2
  <2>2. ASSUME Len(w) = n + 1 PROVE \A i \in 0 .. 2 : w[n + 1].mr # i + 1
    <3>1. Ends(w[n + 1])
      BY <1>2, <2>2
    <3> QED
      BY <3>1, PlainReads
  <2> QED
    BY <2>1, <2>2
<1>7. Right(w, c)
  BY <1>2, <1>4, <1>5, <1>6, RightWhenAll
<1>8. /\ ReadRecords(w).events = Keep(SubSeq(w, 1, n), Sha384(T))
      /\ ReadRecords(w).ok = (n = Len(w) \/ w[n + 1].whole)
  BY <1>2, <1>4, ReadsPart
<1>9. ReadRecords(w).ok
  <2>1. CASE n = Len(w)
    BY <1>8, <2>1
  <2>2. CASE n # Len(w)
    <3>1. w[n + 1].whole = TRUE
      BY <1>2, <1>3, <2>2, PlainReads
    <3> QED
      BY <1>8, <3>1
  <2> QED
    BY <2>1, <2>2
<1>10. PICK R : LogParts(b, R)
  BY LogShape
<1>11. BootLog[b] \in Seq(R)
  BY <1>10, Zenon DEF LogParts
<1> DEFINE s == SubSeq(w, 1, n)
<1>12. s \in Seq(T) /\ Len(s) = n /\ \A i \in 1 .. n : s[i] = w[i]
  BY <1>2
<1> HIDE DEF s
<1>13. s = BootLog[b]
  <2>1. Len(s) = Len(BootLog[b]) /\ \A i \in 1 .. Len(s) : s[i] = BootLog[b][i]
    BY <1>2, <1>12
  <2>2. s \in Seq(T) /\ BootLog[b] \in Seq(R)
    BY <1>11, <1>12
  <2> QED
    BY <2>1, <2>2, SeqEqual
<1>14. Keep(s, Sha384(T)) = s
  <2>1. \A i \in 1 .. Len(s) : s[i] \in T /\ s[i].alg = "SHA-384"
    BY <1>5, <1>12
  <2>2. \A i \in 1 .. Len(s) : s[i] \in Sha384(T)
    BY <2>1 DEF Sha384
  <2>3. s \in Seq(T)
    BY <1>12
  <2> QED
    BY <2>2, <2>3, KeepAll
<1>15. ReadRecords(w).events = BootLog[b]
  BY <1>8, <1>13, <1>14 DEF s
<1>16. Len(BootLog[b]) <= MaxEvents
  BY LogAssumption
<1> QED
  BY <1>7, <1>9, <1>15, <1>16 DEF w

(* Cut before a record, or inside one. *)
LEMMA CutRight ==
    ASSUME NEW b \in Boots, NEW c, NEW k \in 1 .. Len(WholeLog(b))
    PROVE  /\ Right(SubSeq(WholeLog(b), 1, k - 1), c)
           /\ Right(SubSeq([WholeLog(b) EXCEPT ![k].whole = FALSE], 1, k), c)
<1> DEFINE w == WholeLog(b)
           n == Len(BootLog[b])
           cut == SubSeq(w, 1, k - 1)
           x == [w[k] EXCEPT !.whole = FALSE]
           all == [w EXCEPT ![k] = x]
           torn == SubSeq(all, 1, k)
<1>1. PICK T : IsWhole(b, T, w, n)
  BY WholeShape
<1>2. /\ w \in Seq(T) /\ n \in Nat /\ Len(w) \in {n, n + 1}
      /\ \A i \in 1 .. n : w[i] = BootLog[b][i] /\ Plain(w[i])
      /\ Len(w) = n + 1 => Ends(w[n + 1])
  BY <1>1 DEF IsWhole
<1>3. k \in 1 .. Len(w) /\ [WholeLog(b) EXCEPT ![k].whole = FALSE] = all
  OBVIOUS
<1> HIDE DEF w, n
<1>4. k \in Nat /\ k - 1 \in Nat /\ Len(w) \in Nat /\ k - 1 <= n /\ k <= Len(w) /\ 1 <= k
  BY <1>2, <1>3
<1>5. cut \in Seq(T) /\ Len(cut) = k - 1 /\ \A i \in 1 .. k - 1 : cut[i] = w[i]
  BY <1>2, <1>4
<1>6. \A i \in 1 .. k - 1 : i \in 1 .. n
  BY <1>2, <1>4
<1>7. \A i \in 1 .. k - 1 : Plain(w[i])
  BY <1>2, <1>6
<1>8. Right(cut, c)
  <2> HIDE DEF cut
  <2>1. Reads(cut, k - 1)
    <3>1. \A i \in 1 .. k - 1 : ~Stops(cut[i])
      BY <1>5, <1>7, PlainReads
    <3>2. k - 1 \in 0 .. Len(cut) /\ ~(k - 1 < Len(cut))
      BY <1>4, <1>5
    <3> QED
      BY <3>1, <3>2 DEF Reads
  <2>2. \A j \in 1 .. k - 1 : cut[j].alg = "SHA-384"
    BY <1>5, <1>7, PlainReads
  <2>3. \A j \in (k - 1) + 1 .. Len(cut) : FALSE
    BY <1>4, <1>5
  <2>4. cut \in Seq(T)
    BY <1>5
  <2> QED
    BY <2>1, <2>2, <2>3, <2>4, RightWhenAll
<1>9. x.whole = FALSE
  <2>1. Plain(w[k]) \/ Ends(w[k])
    <3>1. k \in 1 .. n \/ (k = n + 1 /\ Len(w) = n + 1)
      BY <1>2, <1>4
    <3> QED
      BY <1>2, <3>1
  <2> QED
    BY <2>1, PlainReads
<1> DEFINE U == T \cup {x}
<1>10. all \in Seq(U) /\ Len(all) = Len(w) /\ all[k] = x /\ \A i \in 1 .. Len(w) : i # k => all[i] = w[i]
  <2>1. w \in [1 .. Len(w) -> T] /\ Len(w) \in Nat
    BY <1>2
  <2> HIDE DEF x
  <2>2. all \in [1 .. Len(w) -> U] /\ all[k] = x /\ \A i \in 1 .. Len(w) : i # k => all[i] = w[i]
    BY <1>3, <2>1
  <2> HIDE DEF U, all
  <2>3. all \in Seq(U) /\ Len(all) = Len(w)
    BY <2>1, <2>2, FunIsSeq
  <2> QED
    BY <2>2, <2>3
<1> HIDE DEF U, all, x
<1>11. torn \in Seq(U) /\ Len(torn) = k /\ \A i \in 1 .. k : torn[i] = all[i]
  <2>1. all \in Seq(U) /\ Len(all) = Len(w)
    BY <1>10
  <2> QED
    BY <1>4, <2>1
<1> HIDE DEF torn
<1>12. torn[(k - 1) + 1].whole = FALSE
  BY <1>4, <1>9, <1>10, <1>11
<1>13. \A i \in 1 .. k - 1 : torn[i] = w[i]
  <2>1. \A i \in 1 .. k - 1 : i \in 1 .. k /\ i \in 1 .. Len(w) /\ i # k
    BY <1>4
  <2> QED
    BY <1>10, <1>11, <2>1
<1>14. Reads(torn, k - 1)
  <2>1. Stops(torn[(k - 1) + 1])
    BY <1>12 DEF Stops
  <2>2. k - 1 \in 0 .. Len(torn)
    BY <1>4, <1>11
  <2>3. \A i \in 1 .. k - 1 : ~Stops(torn[i])
    BY <1>7, <1>13, PlainReads
  <2> QED
    BY <2>1, <2>2, <2>3 DEF Reads
<1>15. Right(torn, c)
  <2>1. k - 1 # Len(torn) /\ torn \in Seq(U)
    BY <1>4, <1>11
  <2> QED
    BY <1>12, <1>14, <2>1, RightWhenTorn
<1> QED
  BY <1>3, <1>8, <1>15 DEF w, torn

(* Without a record. *)
LEMMA LostRight ==
    ASSUME NEW b \in Boots, NEW c, NEW k \in 1 .. Len(WholeLog(b))
    PROVE  Right(RemoveAt(WholeLog(b), k), c)
<1> DEFINE w == WholeLog(b)
           n == Len(BootLog[b])
           rec == RemoveAt(w, k)
           m == IF k <= n THEN n - 1 ELSE n
<1>1. PICK T : IsWhole(b, T, w, n)
  BY WholeShape
<1>2. /\ w \in Seq(T) /\ n \in Nat /\ Len(w) \in {n, n + 1}
      /\ \A i \in 1 .. n : w[i] = BootLog[b][i] /\ Plain(w[i])
      /\ Len(w) = n + 1 => Ends(w[n + 1])
  BY <1>1 DEF IsWhole
<1>3. k \in 1 .. Len(w)
  OBVIOUS
<1> HIDE DEF w, n
<1>4. /\ rec \in Seq(T) /\ Len(rec) = Len(w) - 1
      /\ \A i \in 1 .. Len(w) - 1 : rec[i] = IF i < k THEN w[i] ELSE w[i + 1]
  <2>1. w \in Seq(T) /\ k \in 1 .. Len(w)
    BY <1>2, <1>3
  <2> QED
    BY <2>1, RemoveFacts
<1> HIDE DEF rec
<1>5. k \in Nat /\ 1 <= k /\ k <= Len(w) /\ Len(w) \in Nat
  BY <1>2, <1>3
<1>6. m \in 0 .. Len(rec)
  BY <1>2, <1>4, <1>5
<1>7. ASSUME NEW j \in 1 .. m PROVE Plain(rec[j])
  <2>1. j \in 1 .. Len(w) - 1
    BY <1>4, <1>6
  <2>2. CASE j < k
    <3>1. j \in 1 .. n
      BY <1>2, <1>5, <2>2
    <3> QED
      BY <1>2, <1>4, <2>1, <2>2, <3>1
  <2>3. CASE ~(j < k)
    <3>1. j + 1 \in 1 .. n
      BY <1>2, <1>5, <2>1, <2>3
    <3> QED
      BY <1>2, <1>4, <2>1, <2>3, <3>1
  <2> QED
    BY <2>2, <2>3
<1>8. ASSUME NEW j \in m + 1 .. Len(rec) PROVE Ends(rec[j]) /\ j = m + 1
  <2>1. /\ j \in 1 .. Len(w) - 1 /\ ~(j < k) /\ j + 1 = n + 1 /\ Len(w) = n + 1 /\ j = m + 1
    BY <1>2, <1>4, <1>5, <1>6
  <2>2. rec[j] = w[j + 1]
    BY <1>4, <2>1
  <2> QED
    BY <1>2, <2>1, <2>2
<1>9. Reads(rec, m)
  <2>1. \A i \in 1 .. m : ~Stops(rec[i])
    BY <1>7, PlainReads
  <2>2. m < Len(rec) => m + 1 \in m + 1 .. Len(rec)
    BY <1>6
  <2>3. m < Len(rec) => Stops(rec[m + 1])
    BY <1>8, <2>2, PlainReads
  <2> QED
    BY <1>6, <2>1, <2>3 DEF Reads
<1> HIDE DEF m
<1>10. \A j \in 1 .. m : rec[j].alg = "SHA-384"
  BY <1>7, PlainReads
<1>11. \A j \in m + 1 .. Len(rec) : \A i \in 0 .. 2 : rec[j].mr # i + 1
  BY <1>8, PlainReads
<1>12. rec \in Seq(T)
  BY <1>4
<1>13. Right(rec, c)
  BY <1>9, <1>10, <1>11, <1>12, RightWhenAll
<1> QED
  BY <1>13 DEF w, rec

(* With two records in the wrong order: if the last extend comes after the    *)
(* record that ends the log, it is not read.                                  *)
LEMMA SwapRight ==
    ASSUME NEW b \in Boots, NEW c \in Boots, NEW k \in 1 .. Len(WholeLog(b)) - 1
    PROVE  Right([WholeLog(b) EXCEPT ![k] = WholeLog(b)[k + 1], ![k + 1] = WholeLog(b)[k]], c)
<1> DEFINE w == WholeLog(b)
           log == BootLog[b]
           n == Len(log)
           rec == [w EXCEPT ![k] = w[k + 1], ![k + 1] = w[k]]
<1>1. PICK T : IsWhole(b, T, w, n)
  BY WholeShape
<1>2. /\ w \in Seq(T) /\ n \in Nat /\ Len(w) \in {n, n + 1}
      /\ \A i \in 1 .. n : w[i] = log[i] /\ Plain(w[i])
      /\ Len(w) = n + 1 => Ends(w[n + 1])
  BY <1>1 DEF IsWhole
<1>3. k \in 1 .. Len(w) - 1
  OBVIOUS
<1>4. PICK R : LogParts(b, R)
  BY LogShape
<1>5. log \in Seq(R) /\ n > 0 /\ log[n].mr \in {2, 3}
  BY <1>4, Zenon DEF LogParts
<1> HIDE DEF w, log
<1>6. /\ k \in Nat /\ 1 <= k /\ k + 1 <= Len(w) /\ Len(w) \in Nat /\ k <= n
      /\ k \in 1 .. Len(w) /\ k + 1 \in 1 .. Len(w)
  BY <1>2, <1>3
<1>7. /\ rec \in Seq(T) /\ Len(rec) = Len(w) /\ rec[k] = w[k + 1] /\ rec[k + 1] = w[k]
      /\ \A i \in 1 .. Len(w) : i # k /\ i # k + 1 => rec[i] = w[i]
  <2>1. w \in [1 .. Len(w) -> T]
    BY <1>2
  <2>2. /\ rec \in [1 .. Len(w) -> T] /\ rec[k] = w[k + 1] /\ rec[k + 1] = w[k]
        /\ \A i \in 1 .. Len(w) : i # k /\ i # k + 1 => rec[i] = w[i]
    BY <1>6, <2>1
  <2> HIDE DEF rec
  <2>3. rec \in Seq(T) /\ Len(rec) = Len(w)
    BY <1>6, <2>2, FunIsSeq
  <2> QED
    BY <2>2, <2>3
<1> HIDE DEF rec
<1>8. rec \in Seq(T) /\ Len(rec) = Len(w)
  BY <1>7
<1>9. CASE k < n
  <2>1. ASSUME NEW i \in 1 .. n PROVE Plain(rec[i])
    <3>1. k \in 1 .. n /\ k + 1 \in 1 .. n /\ i \in 1 .. Len(w)
      BY <1>2, <1>6, <1>9
    <3> QED
      BY <1>2, <1>7, <3>1
  <2>2. ASSUME NEW j \in n + 1 .. Len(rec) PROVE Ends(rec[j]) /\ j = n + 1
    <3>1. j \in 1 .. Len(w) /\ j # k /\ j # k + 1 /\ j = n + 1 /\ Len(w) = n + 1
      BY <1>2, <1>6, <1>8, <1>9
    <3> QED
      BY <1>2, <1>7, <3>1
  <2>3. n \in 0 .. Len(rec) /\ (n < Len(rec) => n + 1 \in n + 1 .. Len(rec))
    BY <1>2, <1>8
  <2>4. Reads(rec, n)
    <3>1. \A i \in 1 .. n : ~Stops(rec[i])
      BY <2>1, PlainReads
    <3>2. n < Len(rec) => Stops(rec[n + 1])
      BY <2>2, <2>3, PlainReads
    <3> QED
      BY <2>3, <3>1, <3>2 DEF Reads
  <2>5. \A j \in 1 .. n : rec[j].alg = "SHA-384"
    BY <2>1, PlainReads
  <2>6. \A j \in n + 1 .. Len(rec) : \A i \in 0 .. 2 : rec[j].mr # i + 1
    BY <2>2, PlainReads
  <2>7. Right(rec, c)
    <3> HIDE DEF n
    <3> QED
      BY <1>8, <2>4, <2>5, <2>6, RightWhenAll
  <2> QED
    BY <2>7 DEF rec, w
<1>10. CASE k >= n
  <2>1. k = n /\ Len(w) = n + 1 /\ n - 1 \in Nat /\ n \in 1 .. n /\ n \in 1 .. Len(log)
    BY <1>2, <1>5, <1>6, <1>10
  <2> DEFINE m == n - 1
             s == SubSeq(rec, 1, m)
             r == RemoveAt(log, n)
  <2>2. m \in Nat /\ m + 1 = k /\ m < Len(rec) /\ m <= Len(rec)
    BY <1>8, <2>1
  <2>3. s \in Seq(T) /\ Len(s) = m /\ \A i \in 1 .. m : s[i] = rec[i]
    BY <1>8, <2>2
  <2>4. r \in Seq(R) /\ Len(r) = n - 1 /\ \A i \in 1 .. n - 1 : r[i] = IF i < n THEN log[i] ELSE log[i + 1]
    BY <1>5, <2>1, RemoveFacts
  <2>5. \A i \in 1 .. m : rec[i] = log[i] /\ Plain(rec[i])
    <3>1. \A i \in 1 .. m : i \in 1 .. n /\ i \in 1 .. Len(w) /\ i # k /\ i # k + 1
      BY <1>2, <2>1
    <3> QED
      BY <1>2, <1>7, <3>1
  <2>6. Ends(rec[m + 1])
    <3>1. rec[m + 1] = w[n + 1]
      BY <1>7, <2>1
    <3> QED
      BY <1>2, <2>1, <3>1
  <2>7. Reads(rec, m)
    <3>1. \A i \in 1 .. m : ~Stops(rec[i])
      BY <2>5, PlainReads
    <3>2. Stops(rec[m + 1])
      BY <2>6, PlainReads
    <3>3. m \in 0 .. Len(rec)
      BY <2>2
    <3> QED
      BY <3>1, <3>2, <3>3 DEF Reads
  <2> HIDE DEF s, r, m, n
  <2>8. s = r
    <3>1. Len(s) = Len(r) /\ \A i \in 1 .. Len(s) : s[i] = r[i]
      <4>1. Len(s) = m /\ Len(r) = m /\ \A i \in 1 .. m : r[i] = log[i]
        BY <2>1, <2>3, <2>4 DEF m
      <4> QED
        BY <2>3, <2>5, <4>1
    <3>2. s \in Seq(T) /\ r \in Seq(R)
      BY <2>3, <2>4
    <3> QED
      BY <3>1, <3>2, SeqEqual
  <2>9. Keep(s, Sha384(T)) = s
    <3>0. \A i \in 1 .. m : rec[i].alg = "SHA-384"
      BY <2>5, PlainReads
    <3>1. \A i \in 1 .. Len(s) : s[i] \in T /\ s[i].alg = "SHA-384"
      BY <2>3, <3>0
    <3>2. \A i \in 1 .. Len(s) : s[i] \in Sha384(T)
      BY <3>1 DEF Sha384
    <3>3. s \in Seq(T)
      BY <2>3
    <3> QED
      BY <3>2, <3>3, KeepAll
  <2>10. Keep(SubSeq(rec, 1, m), Sha384(T)) = RemoveAt(BootLog[b], n)
    BY <2>8, <2>9 DEF s, r, log
  <2>11. n \in 1 .. Len(BootLog[b]) /\ BootLog[b][n].mr # 0
    BY <1>5, <2>1 DEF log
  <2>12. Right(rec, c)
    BY <1>8, <2>7, <2>10, <2>11, RightWhenShort
  <2> QED
    BY <2>12 DEF rec, w
<1> QED
  BY <1>2, <1>6, <1>9, <1>10

(* With a record that has no SHA-384 digest, which parse_ccel passes over. *)
LEMMA AlgRight ==
    ASSUME NEW b \in Boots, NEW c \in Boots, NEW k \in 1 .. Len(WholeLog(b))
    PROVE  Right([WholeLog(b) EXCEPT ![k].alg = "SHA-256"], c)
<1> DEFINE w == WholeLog(b)
           log == BootLog[b]
           n == Len(log)
           x == [w[k] EXCEPT !.alg = "SHA-256"]
           rec == [w EXCEPT ![k] = x]
<1>1. PICK T : IsWhole(b, T, w, n)
  BY WholeShape
<1>2. /\ w \in Seq(T) /\ n \in Nat /\ Len(w) \in {n, n + 1}
      /\ \A i \in 1 .. n : w[i] = log[i] /\ Plain(w[i])
      /\ Len(w) = n + 1 => Ends(w[n + 1])
  BY <1>1 DEF IsWhole
<1>3. k \in 1 .. Len(w) /\ [WholeLog(b) EXCEPT ![k].alg = "SHA-256"] = rec
  OBVIOUS
<1> HIDE DEF w
<1>4. k \in Nat /\ 1 <= k /\ k <= Len(w) /\ Len(w) \in Nat
  BY <1>2, <1>3
<1>5. Plain(w[k]) \/ Ends(w[k])
  <2>1. k \in 1 .. n \/ (k = n + 1 /\ Len(w) = n + 1)
    BY <1>2, <1>4
  <2> QED
    BY <1>2, <2>1
<1>6. x.mr = w[k].mr /\ x.alg = "SHA-256" /\ (Stops(x) <=> Stops(w[k]))
  BY <1>5, PlainReads
<1> DEFINE U == T \cup {x}
<1>7. rec \in Seq(U) /\ Len(rec) = Len(w) /\ rec[k] = x /\ \A i \in 1 .. Len(w) : i # k => rec[i] = w[i]
  <2>1. w \in [1 .. Len(w) -> T] /\ Len(w) \in Nat
    BY <1>2
  <2> HIDE DEF x
  <2>2. rec \in [1 .. Len(w) -> U] /\ rec[k] = x /\ \A i \in 1 .. Len(w) : i # k => rec[i] = w[i]
    BY <1>3, <2>1
  <2> HIDE DEF U, rec
  <2>3. rec \in Seq(U) /\ Len(rec) = Len(w)
    BY <2>1, <2>2, FunIsSeq
  <2> QED
    BY <2>2, <2>3
<1> HIDE DEF U, rec, x, n
<1>8. rec \in Seq(U) /\ Len(rec) = Len(w)
  BY <1>7
<1>9. ASSUME NEW i \in 1 .. Len(w)
      PROVE  rec[i].mr = w[i].mr /\ (Stops(rec[i]) <=> Stops(w[i]))
  <2>1. CASE i = k
    BY <1>6, <1>7, <2>1
  <2>2. CASE i # k
    <3>1. rec[i] = w[i]
      BY <1>7, <2>2
    <3> QED
      BY <3>1
  <2> QED
    BY <2>1, <2>2
<1>10. \A i \in 1 .. n : i \in 1 .. Len(w)
  BY <1>2
<1>11. \A j \in n + 1 .. Len(rec) : j \in 1 .. Len(w) /\ Ends(w[j]) /\ j = n + 1
  <2>1. \A j \in n + 1 .. Len(rec) : j \in 1 .. Len(w) /\ Len(w) = n + 1 /\ j = n + 1
    BY <1>2, <1>8
  <2> QED
    BY <1>2, <2>1
<1>12. n \in 0 .. Len(rec) /\ (n < Len(rec) => n + 1 \in n + 1 .. Len(rec))
  BY <1>2, <1>8
<1>13. Reads(rec, n)
  <2>1. \A i \in 1 .. n : ~Stops(w[i])
    BY <1>2, PlainReads
  <2>2. \A i \in 1 .. n : ~Stops(rec[i])
    BY <1>9, <1>10, <2>1
  <2>3. n < Len(rec) => Stops(w[n + 1])
    BY <1>11, <1>12, PlainReads
  <2>4. n < Len(rec) => Stops(rec[n + 1])
    BY <1>9, <1>11, <1>12, <2>3
  <2> QED
    BY <1>12, <2>2, <2>4 DEF Reads
<1>14. \A j \in n + 1 .. Len(rec) : \A i \in 0 .. 2 : rec[j].mr # i + 1
  <2>1. \A j \in n + 1 .. Len(rec) : \A i \in 0 .. 2 : w[j].mr # i + 1
    BY <1>11, PlainReads
  <2> QED
    BY <1>9, <1>11, <2>1
<1>15. \A i \in 1 .. n : w[i].alg = "SHA-384"
  BY <1>2, PlainReads
<1>16. \A i \in 1 .. n : i # k => rec[i] = w[i] /\ rec[i].alg = "SHA-384"
  BY <1>7, <1>10, <1>15
<1>17. CASE k \in 1 .. n /\ w[k].mr # 0
  <2> DEFINE s == SubSeq(rec, 1, n)
             r == RemoveAt(s, k)
             q == RemoveAt(log, k)
             V == Sha384(U)
  <2>1. s \in Seq(U) /\ Len(s) = n /\ \A i \in 1 .. n : s[i] = rec[i]
    BY <1>2, <1>8, <1>12
  <2>2. PICK R : LogParts(b, R)
    BY LogShape
  <2>3. log \in Seq(R)
    BY <2>2, Zenon DEF LogParts
  <2> HIDE DEF s, log
  <2>4. /\ r \in Seq(U) /\ Len(r) = n - 1
        /\ \A i \in 1 .. n - 1 : r[i] = IF i < k THEN s[i] ELSE s[i + 1]
    <3>1. s \in Seq(U) /\ k \in 1 .. Len(s)
      BY <1>17, <2>1
    <3>2. /\ r \in Seq(U) /\ Len(r) = Len(s) - 1
          /\ \A i \in 1 .. Len(s) - 1 : r[i] = IF i < k THEN s[i] ELSE s[i + 1]
      BY <3>1, RemoveFacts
    <3> QED
      BY <2>1, <3>2
  <2>5. /\ q \in Seq(R) /\ Len(q) = n - 1
        /\ \A i \in 1 .. n - 1 : q[i] = IF i < k THEN log[i] ELSE log[i + 1]
    <3>1. k \in 1 .. Len(log) /\ n = Len(log)
      BY <1>17 DEF n
    <3>2. /\ q \in Seq(R) /\ Len(q) = Len(log) - 1
          /\ \A i \in 1 .. Len(log) - 1 : q[i] = IF i < k THEN log[i] ELSE log[i + 1]
      BY <2>3, <3>1, RemoveFacts
    <3> QED
      BY <3>1, <3>2
  <2> HIDE DEF r, q
  <2>6. \A i \in 1 .. n : i # k => s[i] = log[i] /\ s[i].alg = "SHA-384"
    BY <1>2, <1>16, <2>1
  <2>7. ASSUME NEW i \in 1 .. n - 1 PROVE r[i] = q[i] /\ r[i].alg = "SHA-384"
    <3>1. CASE i < k
      <4>1. i \in 1 .. n /\ i # k
        BY <1>2, <3>1
      <4> QED
        BY <2>4, <2>5, <2>6, <3>1, <4>1
    <3>2. CASE ~(i < k)
      <4>1. i + 1 \in 1 .. n /\ i + 1 # k
        BY <1>2, <1>4, <3>2
      <4> QED
        BY <2>4, <2>5, <2>6, <3>2, <4>1
    <3> QED
      BY <3>1, <3>2
  <2>8. r = q
    <3>1. Len(r) = Len(q) /\ \A i \in 1 .. Len(r) : r[i] = q[i]
      BY <2>4, <2>5, <2>7
    <3>2. r \in Seq(U) /\ q \in Seq(R)
      BY <2>4, <2>5
    <3> QED
      BY <3>1, <3>2, SeqEqual
  <2>9. Keep(r, V) = r
    <3>1. r \in Seq(U)
      BY <2>4
    <3>2. \A i \in 1 .. Len(r) : r[i] \in U
      BY <3>1
    <3>3. \A i \in 1 .. Len(r) : r[i] \in V
      BY <2>4, <2>7, <3>2 DEF Sha384
    <3> HIDE DEF V
    <3> QED
      BY <3>1, <3>3, KeepAll
  <2>10. Keep(r, V) = Keep(s, V)
    <3>1. s[k] = x
      BY <1>7, <1>17, <2>1
    <3>2. s[k] \notin V
      BY <1>6, <3>1 DEF Sha384
    <3>3. s \in Seq(U) /\ k \in 1 .. Len(s)
      BY <1>17, <2>1
    <3> HIDE DEF V
    <3> QED
      BY <3>2, <3>3, KeepRemoved DEF r
  <2>11. Keep(SubSeq(rec, 1, n), Sha384(U)) = RemoveAt(BootLog[b], k)
    BY <2>8, <2>9, <2>10 DEF s, q, log
  <2>12. k \in 1 .. Len(BootLog[b]) /\ BootLog[b][k].mr # 0
    BY <1>2, <1>17 DEF n, log
  <2>13. Right(rec, c)
    BY <1>8, <1>13, <2>11, <2>12, RightWhenShort
  <2> QED
    BY <1>3, <2>13
<1>18. CASE ~(k \in 1 .. n /\ w[k].mr # 0)
  <2>1. ASSUME NEW j \in 1 .. n, NEW i \in 0 .. 2, rec[j].mr = i + 1 PROVE rec[j].alg = "SHA-384"
    <3>1. CASE j = k
      <4>1. w[k].mr = 0 /\ rec[k].mr = w[k].mr
        BY <1>9, <1>10, <1>18, <3>1
      <4> QED
        BY <2>1, <3>1, <4>1
    <3>2. CASE j # k
      BY <1>16, <3>2
    <3> QED
      BY <3>1, <3>2
  <2>2. Right(rec, c)
    BY <1>8, <1>13, <1>14, <2>1, RightWhenAll
  <2> QED
    BY <1>3, <2>2
<1> QED
  BY <1>17, <1>18

(* The same event to a replay: other data, or lengths in it that do not fit. *)
Alike(x, y) == x.mr = y.mr /\ x.type = y.type /\ x.digest = y.digest /\ x.name = y.name
Dents(r) == {[r EXCEPT !.data = <<"garbled">>], [r EXCEPT !.readable = FALSE]}

LEMMA DentFacts ==
    ASSUME NEW r, Plain(r) \/ Ends(r), NEW y \in Dents(r)
    PROVE  Alike(y, r) /\ y.alg = r.alg /\ y.whole = r.whole /\ (Stops(y) <=> Stops(r))
<1>1. {"mr", "type", "digest", "data", "readable", "name", "alg", "whole"} \subseteq DOMAIN r
  BY DEF Plain, Ends
<1>2. /\ y.mr = r.mr /\ y.type = r.type /\ y.digest = r.digest /\ y.name = r.name
      /\ y.alg = r.alg /\ y.whole = r.whole
  BY <1>1 DEF Dents
<1> QED
  BY <1>2 DEF Alike, Stops

(* With such a record a log is read as before. *)
LEMMA DentReads ==
    ASSUME NEW b \in Boots, NEW k \in 1 .. Len(WholeLog(b)), NEW y \in Dents(WholeLog(b)[k])
    PROVE  LET rec == [WholeLog(b) EXCEPT ![k] = y]
               n == Len(BootLog[b])
           IN  /\ (\E U : rec \in Seq(U)) /\ Reads(rec, n)
               /\ \A j \in 1 .. n : rec[j].alg = "SHA-384" /\ Alike(rec[j], BootLog[b][j])
               /\ \A j \in n + 1 .. Len(rec) : \A i \in 0 .. 2 : rec[j].mr # i + 1
<1> DEFINE w == WholeLog(b)
           log == BootLog[b]
           n == Len(log)
           rec == [w EXCEPT ![k] = y]
<1>1. PICK T : IsWhole(b, T, w, n)
  BY WholeShape
<1>2. /\ w \in Seq(T) /\ n \in Nat /\ Len(w) \in {n, n + 1}
      /\ \A i \in 1 .. n : w[i] = log[i] /\ Plain(w[i])
      /\ Len(w) = n + 1 => Ends(w[n + 1])
  BY <1>1 DEF IsWhole
<1>3. k \in 1 .. Len(w) /\ y \in Dents(w[k])
  OBVIOUS
<1> HIDE DEF w
<1>4. \A i \in 1 .. Len(w) : i \in 1 .. n \/ (i = n + 1 /\ Len(w) = n + 1)
  BY <1>2
<1>5. \A i \in 1 .. Len(w) : Plain(w[i]) \/ Ends(w[i])
  BY <1>2, <1>4
<1>6. Alike(y, w[k]) /\ y.alg = w[k].alg /\ (Stops(y) <=> Stops(w[k]))
  BY <1>3, <1>5, DentFacts
<1> DEFINE U == T \cup {y}
<1>7. rec \in Seq(U) /\ Len(rec) = Len(w) /\ rec[k] = y /\ \A i \in 1 .. Len(w) : i # k => rec[i] = w[i]
  <2>1. w \in [1 .. Len(w) -> T] /\ Len(w) \in Nat
    BY <1>2
  <2>2. rec \in [1 .. Len(w) -> U] /\ rec[k] = y /\ \A i \in 1 .. Len(w) : i # k => rec[i] = w[i]
    BY <1>3, <2>1
  <2> HIDE DEF U, rec
  <2>3. rec \in Seq(U) /\ Len(rec) = Len(w)
    BY <2>1, <2>2, FunIsSeq
  <2> QED
    BY <2>2, <2>3
<1> HIDE DEF U, rec, n
<1>8. ASSUME NEW i \in 1 .. Len(w)
      PROVE  Alike(rec[i], w[i]) /\ rec[i].alg = w[i].alg /\ (Stops(rec[i]) <=> Stops(w[i]))
  <2>1. CASE i = k
    BY <1>6, <1>7, <2>1
  <2>2. CASE i # k
    <3>1. rec[i] = w[i]
      BY <1>7, <2>2
    <3> QED
      BY <3>1 DEF Alike
  <2> QED
    BY <2>1, <2>2
<1>9. \A i \in 1 .. n : i \in 1 .. Len(w)
  BY <1>2
<1>10. \A j \in n + 1 .. Len(rec) : j \in 1 .. Len(w) /\ Ends(w[j])
  <2>1. \A j \in n + 1 .. Len(rec) : j \in 1 .. Len(w) /\ Len(w) = n + 1 /\ j = n + 1
    BY <1>2, <1>7
  <2> QED
    BY <1>2, <2>1
<1>11. n \in 0 .. Len(rec) /\ (n < Len(rec) => n + 1 \in n + 1 .. Len(rec))
  BY <1>2, <1>7
<1>12. Reads(rec, n)
  <2>1. \A i \in 1 .. n : ~Stops(w[i])
    BY <1>2, PlainReads
  <2>2. \A i \in 1 .. n : ~Stops(rec[i])
    BY <1>8, <1>9, <2>1
  <2>3. n < Len(rec) => Stops(w[n + 1])
    BY <1>10, <1>11, PlainReads
  <2>4. n < Len(rec) => Stops(rec[n + 1])
    BY <1>8, <1>10, <1>11, <2>3
  <2> QED
    BY <1>11, <2>2, <2>4 DEF Reads
<1>13. \A j \in 1 .. n : rec[j].alg = "SHA-384" /\ Alike(rec[j], log[j])
  <2>1. \A j \in 1 .. n : w[j].alg = "SHA-384" /\ w[j] = log[j]
    BY <1>2, PlainReads
  <2> QED
    BY <1>8, <1>9, <2>1
<1>14. \A j \in n + 1 .. Len(rec) : \A i \in 0 .. 2 : rec[j].mr # i + 1
  <2>1. \A j \in n + 1 .. Len(rec) : rec[j].mr = w[j].mr
    BY <1>8, <1>10 DEF Alike
  <2>2. \A j \in n + 1 .. Len(rec) : \A i \in 0 .. 2 : w[j].mr # i + 1
    BY <1>10, PlainReads
  <2> QED
    BY <2>1, <2>2
<1> QED
  BY <1>7, <1>12, <1>13, <1>14 DEF rec, n, w

LEMMA DentRight ==
    ASSUME NEW b \in Boots, NEW c, NEW k \in 1 .. Len(WholeLog(b)), NEW y \in Dents(WholeLog(b)[k])
    PROVE  Right([WholeLog(b) EXCEPT ![k] = y], c)
<1> DEFINE rec == [WholeLog(b) EXCEPT ![k] = y]
           n == Len(BootLog[b])
<1>1. /\ (\E U : rec \in Seq(U)) /\ Reads(rec, n)
      /\ \A j \in 1 .. n : rec[j].alg = "SHA-384"
      /\ \A j \in n + 1 .. Len(rec) : \A i \in 0 .. 2 : rec[j].mr # i + 1
  BY DentReads
<1> HIDE DEF rec, n
<1>2. Right(rec, c)
  BY <1>1, RightWhenAll
<1> QED
  BY <1>2 DEF rec

(* Every copy of a log. *)
LEMMA FileRight ==
    ASSUME NEW file \in CcelFiles, NEW c \in Boots
    PROVE  Right(Records(file), c)
<1> DEFINE b == file.boot
           kind == file.fault.kind
           k == file.fault.at
           w == WholeLog(b)
<1>1. b \in Boots /\ file.fault \in Faults \cup {Undamaged}
  BY DEF CcelFiles
<1>2. Records(file) = Damaged(w, kind, k)
  BY DEF Records
<1>3. /\ kind \in {"cut", "torn", "lost", "no SHA-384", "data", "unreadable"} => k \in 1 .. Len(w)
      /\ kind = "swapped" => k \in 1 .. Len(w) - 1
  <2>1. CASE file.fault = Undamaged
    <3>1. kind = "none"
      BY <2>1 DEF Undamaged
    <3> QED
      BY <3>1
  <2>2. CASE file.fault \in Faults
    <3> HIDE DEF b
    <3> QED
      BY <1>1, <2>2, LogAssumption, Zenon
  <2> QED
    BY <1>1, <2>1, <2>2
<1>4. kind = "swapped" => k \in 1 .. Len(w) - 1
  BY <1>3
<1> HIDE DEF b, kind, k
<1>5. CASE kind = "cut"
  <2>1. Damaged(w, kind, k) = SubSeq(w, 1, k - 1)
    BY <1>5 DEF Damaged
  <2>2. Right(SubSeq(w, 1, k - 1), c)
    BY <1>1, <1>3, <1>5, CutRight
  <2> QED
    BY <1>2, <2>1, <2>2
<1>6. CASE kind = "torn"
  <2> DEFINE rec == SubSeq([w EXCEPT ![k].whole = FALSE], 1, k)
  <2>1. Damaged(w, kind, k) = rec
    BY <1>6 DEF Damaged
  <2>2. Right(rec, c)
    BY <1>1, <1>3, <1>6, CutRight
  <2> QED
    BY <1>2, <2>1, <2>2
<1>7. CASE kind = "lost"
  <2>1. Damaged(w, kind, k) = RemoveAt(w, k)
    BY <1>7 DEF Damaged
  <2>2. Right(RemoveAt(w, k), c)
    BY <1>1, <1>3, <1>7, LostRight
  <2> QED
    BY <1>2, <2>1, <2>2
<1>8. CASE kind = "swapped"
  <2> DEFINE rec == [w EXCEPT ![k] = w[k + 1], ![k + 1] = w[k]]
  <2>1. Damaged(w, kind, k) = rec
    BY <1>8 DEF Damaged
  <2>2. Right(rec, c)
    BY <1>1, <1>4, <1>8, SwapRight
  <2> QED
    BY <1>2, <2>1, <2>2
<1>9. CASE kind = "no SHA-384"
  <2> DEFINE rec == [w EXCEPT ![k].alg = "SHA-256"]
  <2>1. Damaged(w, kind, k) = rec
    BY <1>9 DEF Damaged
  <2>2. Right(rec, c)
    BY <1>1, <1>3, <1>9, AlgRight
  <2> QED
    BY <1>2, <2>1, <2>2
<1>10. CASE kind \notin {"cut", "torn", "lost", "swapped", "no SHA-384", "data", "unreadable"}
  <2>1. Damaged(w, kind, k) = w
    BY <1>10 DEF Damaged
  <2>2. Right(w, c)
    BY <1>1, UndamagedRight
  <2> QED
    BY <1>2, <2>1, <2>2
<1>11. CASE kind \in {"data", "unreadable"}
  <2> DEFINE y == IF kind = "data" THEN [w[k] EXCEPT !.data = <<"garbled">>]
                                 ELSE [w[k] EXCEPT !.readable = FALSE]
             rec == [w EXCEPT ![k] = y]
  <2>1. Damaged(w, kind, k) = rec
    BY <1>11 DEF Damaged
  <2>2. y \in Dents(w[k])
    BY DEF Dents
  <2> HIDE DEF y
  <2>3. Right(rec, c)
    BY <1>1, <1>3, <1>11, <2>2, DentRight
  <2> QED
    BY <1>2, <2>1, <2>3
<1> QED
  BY <1>5, <1>6, <1>7, <1>8, <1>9, <1>10, <1>11

LEMMA MatchesOf ==
    ASSUME NEW R, NEW events \in Seq(R), NEW c \in Boots
    PROVE  Matches(events, BootRegisters[c]) <=> \A i \in 0 .. 2 : Of(i, events) = Of(i, BootLog[c])
<1>1. \A i \in 0 .. 2 : i \in 0 .. 3
  OBVIOUS
<1>2. \A i \in 0 .. 2 : ReplayRtmrs(events)[i] = Of(i, events)
  BY <1>1, ReplayIsOf
<1>3. \A i \in 0 .. 2 : BootRegisters[c][i] = Of(i, BootLog[c])
  BY DEF BootRegisters
<1> QED
  BY <1>2, <1>3 DEF Matches

LEMMA RegistersOfBoot ==
    ASSUME NEW parsed, NEW t
    PROVE  /\ Verdict(parsed, Registers(t)) = Verdict(parsed, BootRegisters[t.boot])
           /\ \A i \in 0 .. 2 : Registers(t)[i] = BootRegisters[t.boot][i]
<1>1. \A i \in 0 .. 2 : Registers(t)[i] = BootRegisters[t.boot][i]
  BY DEF Registers
<1>2. Matches(parsed.events, Registers(t)) <=> Matches(parsed.events, BootRegisters[t.boot])
  BY <1>1 DEF Matches
<1> QED
  BY <1>1, <1>2 DEF Verdict

LEMMA JudgedRight ==
    ASSUME NEW file \in CcelFiles, NEW c \in Boots
    PROVE  LET v == Verdict(ParseCcel[file], BootRegisters[c])
           IN  /\ v \in {"passed", "failed"}
               /\ v = "passed" => \A i \in 0 .. 2 : Of(i, Records(file)) = BootRegisters[c][i]
               /\ file = [boot |-> c, fault |-> Undamaged] => v = "passed"
<1> DEFINE rec == Records(file)
           read == ReadRecords(rec)
           parsed == ParseCcel[file]
           v == Verdict(parsed, BootRegisters[c])
<1>1. parsed = Accepts(read, file)
  BY DEF ParseCcel
<1>2. read = [ok |-> read.ok, events |-> read.events]
  BY DEF ReadRecords, ReadUpTo
<1> HIDE DEF parsed, rec, read
<1>3. /\ parsed.events = read.events
      /\ parsed.ok = (read.ok /\ file.fault.kind # "header" /\ Len(read.events) <= MaxEvents)
  BY <1>1, <1>2 DEF Accepts
<1>4. Right(rec, c)
  BY FileRight DEF rec
<1>5. PICK T : read.events \in Seq(T)
  BY <1>4 DEF Right, read
<1>6. Matches(read.events, BootRegisters[c]) <=> \A i \in 0 .. 2 : Of(i, read.events) = Of(i, BootLog[c])
  BY <1>5, MatchesOf
<1>7. \A i \in 0 .. 2 : BootRegisters[c][i] = Of(i, BootLog[c])
  BY DEF BootRegisters
<1>8. v = IF parsed.ok /\ Matches(parsed.events, BootRegisters[c]) THEN "passed" ELSE "failed"
  BY DEF Verdict
<1>9. v \in {"passed", "failed"}
  BY <1>8
<1>10. ASSUME v = "passed" PROVE \A i \in 0 .. 2 : Of(i, rec) = BootRegisters[c][i]
  <2>1. parsed.ok /\ Matches(parsed.events, BootRegisters[c])
    BY <1>8, <1>10
  <2>2. read.ok /\ Matches(read.events, BootRegisters[c])
    BY <1>3, <2>1
  <2>3. \A i \in 0 .. 2 : Of(i, rec) = Of(i, BootLog[c])
    BY <1>4, <1>6, <2>2 DEF Right, read
  <2> QED
    BY <1>7, <2>3
<1>11. ASSUME file = [boot |-> c, fault |-> Undamaged] PROVE v = "passed"
  <2>1. rec = WholeLog(c) /\ file.fault.kind = "none"
    BY <1>11 DEF rec, Records, Damaged, Undamaged
  <2>2. /\ ReadRecords(WholeLog(c)).ok /\ Len(ReadRecords(WholeLog(c)).events) <= MaxEvents
        /\ \A i \in 0 .. 2 : Of(i, ReadRecords(WholeLog(c)).events) = Of(i, BootLog[c])
    BY UndamagedRight
  <2>3. /\ read.ok /\ Len(read.events) <= MaxEvents
        /\ \A i \in 0 .. 2 : Of(i, read.events) = Of(i, BootLog[c])
    BY <2>1, <2>2 DEF read
  <2>4. parsed.ok
    BY <1>3, <2>1, <2>3
  <2>5. Matches(parsed.events, BootRegisters[c])
    BY <1>3, <1>6, <2>3
  <2> QED
    BY <1>8, <2>4, <2>5
<1> QED
  BY <1>9, <1>10, <1>11 DEF parsed, rec

-----------------------------------------------------------------------------
(* verify                                                                    *)

(* What verify said, it said of the log that is there and of the TD that runs: *)
(* a hook changes RTMR[3] only.                                                *)
VerdictInv ==
    /\ td = [boot |-> td.boot, rtmr3 |-> td.rtmr3] /\ td.boot \in Boots
    /\ ccel \in {None} \cup CcelFiles
    /\ verdict # None => /\ ccel \in CcelFiles
                         /\ verdict = Verdict(ParseCcel[ccel], BootRegisters[td.boot])

LEMMA VerdictInit == Init => VerdictInv
BY DEF Init, VerdictInv, CcelFiles

LEMMA VerdictStep == VerdictInv /\ [Next]_vars => VerdictInv'
<1> SUFFICES ASSUME VerdictInv, [Next]_vars PROVE VerdictInv'
  OBVIOUS
<1>0. /\ td = [boot |-> td.boot, rtmr3 |-> td.rtmr3] /\ td.boot \in Boots
      /\ ccel \in {None} \cup CcelFiles
  BY DEF VerdictInv
<1>1. ASSUME NEW b \in Boots, Boot(b) PROVE VerdictInv'
  BY <1>0, <1>1 DEF Boot, VerdictInv, files
<1>2. CASE SaveCcel
  <2>1. ccel' \in CcelFiles /\ verdict' = None /\ td' = td
    BY <1>2 DEF SaveCcel, guest
  <2> QED
    BY <1>0, <2>1 DEF VerdictInv
<1>3. CASE Verify
  <2>1. /\ ccel \in CcelFiles /\ ccel' = ccel /\ td' = td
        /\ verdict' = Verdict(ParseCcel[ccel], Registers(td))
    BY <1>0, <1>3 DEF Verify, guest, files
  <2>2. verdict' = Verdict(ParseCcel[ccel], BootRegisters[td.boot])
    BY <2>1, RegistersOfBoot
  <2>3. /\ ccel' \in CcelFiles /\ verdict' = Verdict(ParseCcel[ccel'], BootRegisters[td'.boot])
        /\ td' = [boot |-> td'.boot, rtmr3 |-> td'.rtmr3] /\ td'.boot \in Boots
    BY <1>0, <2>1, <2>2
  <2> QED
    BY <2>3 DEF VerdictInv
<1>4. CASE StartExtract
  BY <1>0, <1>4 DEF StartExtract, VerdictInv, guest
<1>5. ASSUME NEW m \in Measures, StartMeasure(m) PROVE VerdictInv'
  BY <1>0, <1>5 DEF StartMeasure, VerdictInv, guest, files
<1>6. ASSUME td' = td, ccel' = ccel, verdict' = verdict PROVE VerdictInv'
  BY <1>6 DEF VerdictInv
<1>7. CASE ExtractVar \/ ExtractDone \/ WalkTable \/ WalkFails \/ MeasureDone \/ MeasureFails \/ Kill
  <2>1. td' = td /\ ccel' = ccel /\ verdict' = verdict
    BY <1>7 DEF ExtractVar, ExtractDone, WalkTable, WalkFails, MeasureDone, MeasureFails, Kill,
                guest, files
  <2> QED
    BY <1>6, <2>1
<1>8. ASSUME NEW c \in Containers, CreateContainer(c) PROVE VerdictInv'
  <2>1. td' = td /\ ccel' = ccel /\ verdict' = verdict
    BY <1>8 DEF CreateContainer, files, host
  <2> QED
    BY <1>6, <2>1
<1>9. ASSUME NEW i \in DOMAIN pod,
             HookSkips(i) \/ HookRefuses(i) \/ StartContainer(i) \/ CreationFails(i)
      PROVE  VerdictInv'
  <2>1. td' = td /\ ccel' = ccel /\ verdict' = verdict
    BY <1>9 DEF HookSkips, HookRefuses, StartContainer, CreationFails, files, host
  <2> QED
    BY <1>6, <2>1
<1>10. ASSUME NEW i \in DOMAIN pod, HookExtends(i) PROVE VerdictInv'
  <2>1. ccel' = ccel /\ verdict' = verdict
    BY <1>10 DEF HookExtends, files, host
  <2>2. td' = [td EXCEPT !.rtmr3 = Append(@, WorkloadEventDigest(pod[i].ref))]
    BY <1>10 DEF HookExtends
  <2>3. td' = [boot |-> td'.boot, rtmr3 |-> td'.rtmr3] /\ td'.boot = td.boot
    BY <1>0, <2>2
  <2> QED
    BY <2>1, <2>3 DEF VerdictInv
<1>11. CASE UNCHANGED vars
  <2>1. td' = td /\ ccel' = ccel /\ verdict' = verdict
    BY <1>11 DEF vars
  <2> QED
    BY <1>6, <2>1
<1> QED
  BY <1>1, <1>2, <1>3, <1>4, <1>5, <1>7, <1>8, <1>9, <1>10, <1>11 DEF Next

LEMMA VerdictImplies == VerdictInv => VerdictIsRight
<1> SUFFICES ASSUME VerdictInv PROVE VerdictIsRight
  OBVIOUS
<1> DEFINE v == Verdict(ParseCcel[ccel], BootRegisters[td.boot])
<1>1. CASE verdict = None
  BY <1>1, NoneAssumption DEF VerdictIsRight
<1>2. CASE verdict # None
  <2>1. ccel \in CcelFiles /\ verdict = v /\ td.boot \in Boots
    BY <1>2 DEF VerdictInv
  <2>2. /\ v = "passed" => \A i \in 0 .. 2 : Of(i, Records(ccel)) = BootRegisters[td.boot][i]
        /\ ccel = [boot |-> td.boot, fault |-> Undamaged] => v = "passed"
    BY <2>1, JudgedRight
  <2>3. \A i \in 0 .. 2 : Registers(td)[i] = BootRegisters[td.boot][i]
    BY RegistersOfBoot
  <2> HIDE DEF v
  <2> QED
    BY <2>1, <2>2, <2>3 DEF VerdictIsRight
<1> QED
  BY <1>1, <1>2

(* For every set of machines, images and faults, of any log lengths: tdx-measure *)
(* verify passes a saved log, however it was cut, torn, reordered or robbed of a  *)
(* record or a digest, only if the file holds all that the reported TD extended   *)
(* into RTMR[0..2], in order; and it passes every undamaged log of that boot.     *)
THEOREM VerdictStaysRight == Spec => []VerdictIsRight
<1>1. Init => VerdictInv
  BY VerdictInit
<1>2. VerdictInv /\ [Next]_vars => VerdictInv'
  BY VerdictStep
<1>3. VerdictInv => VerdictIsRight
  BY VerdictImplies
<1> QED
  BY <1>1, <1>2, <1>3, PTL DEF Spec

-----------------------------------------------------------------------------
(* Sequences whose elements are in order                                     *)

(* Every two elements, in their order, are related. *)
Ordered(s, R) == \A i, j \in 1 .. Len(s) : i < j => <<s[i], s[j]>> \in R
Across(a, b, R) == \A x \in ToSet(a), y \in ToSet(b) : <<x, y>> \in R

LEMMA CatOrdered ==
    ASSUME NEW S, NEW a \in Seq(S), NEW b \in Seq(S), NEW R,
           Ordered(a, R), Ordered(b, R), Across(a, b, R)
    PROVE  Ordered(Cat(a, b), R)
<1> DEFINE c == Cat(a, b)
           m == Len(a)
           n == Len(b)
<1>1. /\ m \in Nat /\ n \in Nat /\ Len(c) = m + n
      /\ \A i \in 1 .. m : c[i] = a[i]
      /\ \A i \in 1 .. n : c[m + i] = b[i]
  BY ConcatFacts DEF Cat
<1>2. /\ \A i \in 1 .. m : a[i] \in ToSet(a)
      /\ \A i \in 1 .. n : b[i] \in ToSet(b)
  BY ElementsOf
<1>3. \A i, j \in 1 .. m : i < j => <<a[i], a[j]>> \in R
  BY DEF Ordered
<1>4. \A i, j \in 1 .. n : i < j => <<b[i], b[j]>> \in R
  BY DEF Ordered
<1>5. \A i \in 1 .. m, j \in 1 .. n : <<a[i], b[j]>> \in R
  BY <1>2 DEF Across
<1> HIDE DEF c, m, n
<1>6. ASSUME NEW i \in 1 .. m + n, NEW j \in 1 .. m + n, i < j PROVE <<c[i], c[j]>> \in R
  <2>1. CASE j <= m
    <3>1. i \in 1 .. m /\ j \in 1 .. m
      BY <1>1, <1>6, <2>1
    <3> QED
      BY <1>1, <1>3, <1>6, <3>1
  <2>2. CASE i <= m /\ j > m
    <3> DEFINE k == j - m
    <3>1. i \in 1 .. m /\ k \in 1 .. n /\ j = m + k
      BY <1>1, <2>2
    <3> HIDE DEF k
    <3> QED
      BY <1>1, <1>5, <3>1
  <2>3. CASE i > m
    <3> DEFINE k == j - m
               l == i - m
    <3>1. l \in 1 .. n /\ k \in 1 .. n /\ j = m + k /\ i = m + l /\ l < k
      BY <1>1, <1>6, <2>3
    <3> HIDE DEF k, l
    <3> QED
      BY <1>1, <1>4, <3>1
  <2> QED
    BY <1>1, <2>1, <2>2, <2>3
<1>7. Ordered(c, R)
  BY <1>1, <1>6 DEF Ordered
<1> QED
  BY <1>7 DEF c

(* The elements of sequences put one after the other. *)
LEMMA FlatElements ==
    ASSUME NEW S, NEW f \in Seq(Seq(S))
    PROVE  ToSet(FlattenSeq(f)) = UNION {ToSet(f[k]) : k \in 1 .. Len(f)}
<1> DEFINE U == Seq(S)
           Parts(t) == UNION {ToSet(t[k]) : k \in 1 .. Len(t)}
           T == {t \in Seq(U) : ToSet(FlattenSeq(t)) = Parts(t)}
<1>1. <<>> \in T
  <2>1. FlattenSeq(<<>>) = <<>>
    BY DEF FlattenSeq
  <2>2. ToSet(<<>>) = {}
    BY DEF ToSet
  <2>3. <<>> \in Seq(U) /\ Len(<<>>) = 0
    BY ShortSeqs
  <2>4. Parts(<<>>) = {}
    BY <2>3
  <2> QED
    BY <2>1, <2>2, <2>3, <2>4
<1>2. ASSUME NEW t \in Seq(U), t \in T, NEW x \in U PROVE Append(t, x) \in T
  <2> DEFINE more == Append(t, x)
             n == Len(t)
  <2>1. FlattenSeq(more) = FlattenSeq(t) \o x
    BY FlatAppend
  <2>2. FlattenSeq(t) \in Seq(S)
    BY FlatType
  <2>3. ToSet(FlattenSeq(more)) = ToSet(FlattenSeq(t)) \cup ToSet(x)
    BY <2>1, <2>2, ElementsConcat
  <2> HIDE DEF U
  <2>4. /\ more \in Seq(U) /\ n \in Nat /\ Len(more) = n + 1 /\ more[n + 1] = x
        /\ \A k \in 1 .. n : more[k] = t[k]
    OBVIOUS
  <2> HIDE DEF more, n
  <2>5. Parts(more) = Parts(t) \cup ToSet(x)
    <3>1. ASSUME NEW k \in 1 .. n + 1
          PROVE  ToSet(more[k]) \subseteq Parts(t) \cup ToSet(x)
      <4>1. CASE k = n + 1
        BY <2>4, <4>1
      <4>2. CASE k # n + 1
        <5>1. k \in 1 .. n
          BY <2>4, <4>2
        <5> QED
          BY <2>4, <5>1 DEF n
      <4> QED
        BY <4>1, <4>2
    <3>2. ASSUME NEW k \in 1 .. n PROVE ToSet(t[k]) \subseteq Parts(more)
      <4>1. k \in 1 .. n + 1
        BY <2>4
      <4> QED
        BY <2>4, <4>1
    <3>3. ToSet(x) \subseteq Parts(more)
      <4>1. n + 1 \in 1 .. n + 1
        BY <2>4
      <4> QED
        BY <2>4, <4>1
    <3>4. Parts(more) \subseteq Parts(t) \cup ToSet(x)
      <4>1. Parts(more) = UNION {ToSet(more[k]) : k \in 1 .. n + 1}
        BY <2>4
      <4> HIDE DEF Parts
      <4> QED
        BY <3>1, <4>1
    <3>5. Parts(t) \subseteq Parts(more)
      <4>1. Parts(t) = UNION {ToSet(t[k]) : k \in 1 .. n}
        BY DEF n
      <4> HIDE DEF Parts
      <4> QED
        BY <3>2, <4>1
    <3> HIDE DEF Parts
    <3> QED
      BY <3>3, <3>4, <3>5
  <2>6. ToSet(FlattenSeq(t)) = Parts(t)
    <3> HIDE DEF Parts
    <3> QED
      BY <1>2
  <2>7. ToSet(FlattenSeq(more)) = Parts(more)
    <3> HIDE DEF Parts
    <3> QED
      BY <2>3, <2>5, <2>6
  <2>8. more \in T
    <3> HIDE DEF Parts
    <3> QED
      BY <2>4, <2>7
  <2> QED
    BY <2>8 DEF more
<1>3. Seq(U) \subseteq T
  <2> HIDE DEF T, U
  <2> QED
    BY <1>1, <1>2, SeqInduction
<1> QED
  BY <1>3

(* Sequences that are ordered in themselves and among each other are ordered *)
(* when they are put one after the other.                                    *)
LEMMA FlatRelated ==
    ASSUME NEW S, NEW f \in Seq(Seq(S)), NEW R,
           \A k \in 1 .. Len(f) : Ordered(f[k], R),
           \A k, l \in 1 .. Len(f) : k < l => Across(f[k], f[l], R)
    PROVE  Ordered(FlattenSeq(f), R)
<1> DEFINE U == Seq(S)
           Pre(t) == /\ \A k \in 1 .. Len(t) : Ordered(t[k], R)
                     /\ \A k, l \in 1 .. Len(t) : k < l => Across(t[k], t[l], R)
           T == {t \in Seq(U) : Pre(t) => Ordered(FlattenSeq(t), R)}
<1>1. <<>> \in T
  <2>1. FlattenSeq(<<>>) = <<>>
    BY DEF FlattenSeq
  <2>2. <<>> \in Seq(U) /\ Len(<<>>) = 0
    BY ShortSeqs
  <2>3. Ordered(<<>>, R)
    BY <2>2 DEF Ordered
  <2> HIDE DEF Pre
  <2> QED
    BY <2>1, <2>2, <2>3
<1>2. ASSUME NEW t \in Seq(U), t \in T, NEW x \in U PROVE Append(t, x) \in T
  <2> DEFINE more == Append(t, x)
             n == Len(t)
             F == FlattenSeq(t)
  <2>1. FlattenSeq(more) = Cat(F, x)
    BY FlatAppend DEF Cat
  <2>2. F \in Seq(S) /\ ToSet(F) = UNION {ToSet(t[k]) : k \in 1 .. Len(t)}
    BY FlatType, FlatElements
  <2> HIDE DEF U
  <2>3. /\ more \in Seq(U) /\ n \in Nat /\ Len(more) = n + 1 /\ more[n + 1] = x
        /\ \A k \in 1 .. n : more[k] = t[k]
    OBVIOUS
  <2> HIDE DEF more, n
  <2>4. ASSUME Pre(more) PROVE Ordered(FlattenSeq(more), R)
    <3>1. \A k \in 1 .. n : k \in 1 .. n + 1 /\ k < n + 1
      BY <2>3
    <3>2. n + 1 \in 1 .. n + 1
      BY <2>3
    <3>3. Pre(t)
      <4>1. \A k \in 1 .. n : Ordered(t[k], R)
        BY <2>3, <2>4, <3>1
      <4>2. \A k, l \in 1 .. n : k < l => Across(t[k], t[l], R)
        BY <2>3, <2>4, <3>1
      <4> QED
        BY <4>1, <4>2 DEF n
    <3>4. Ordered(F, R)
      <4> HIDE DEF Pre
      <4> QED
        BY <1>2, <3>3
    <3>5. Ordered(x, R)
      BY <2>3, <2>4, <3>2
    <3>6. \A k \in 1 .. n : Across(t[k], x, R)
      BY <2>3, <2>4, <3>1, <3>2
    <3>7. Across(F, x, R)
      BY <2>2, <3>6 DEF Across, n
    <3>8. x \in Seq(S)
      BY DEF U
    <3> HIDE DEF F
    <3> QED
      BY <2>1, <2>2, <3>4, <3>5, <3>7, <3>8, CatOrdered
  <2>5. more \in T
    <3> HIDE DEF Pre
    <3> QED
      BY <2>3, <2>4
  <2> QED
    BY <2>5 DEF more
<1>3. Pre(f)
  OBVIOUS
<1>4. Seq(U) \subseteq T
  <2> HIDE DEF T, U
  <2> QED
    BY <1>1, <1>2, SeqInduction
<1>5. f \in T
  BY <1>4
<1> HIDE DEF Pre
<1> QED
  BY <1>3, <1>5

-----------------------------------------------------------------------------
(* The ranges of MemoryAcceptor.                                            *)

RangeSet == [accepted : BOOLEAN, start : Nat, end : Nat]
Below == {x \in RangeSet \X RangeSet : x[1].end <= x[2].start}
Taken(from, to) == [accepted |-> TRUE, start |-> from, end |-> to]
Has(r, x) == r.start <= x /\ x < r.end

(* Memory up to M, cut into ranges by what was accepted so far. *)
Tiling(ranges, M, A) ==
    /\ ranges \in Seq(RangeSet) /\ Ordered(ranges, Below)
    /\ \A r \in ToSet(ranges) : r.start < r.end /\ r.end <= M
    /\ \A r \in ToSet(ranges) : r.accepted => <<r.start, r.end>> \in A
    /\ \A a \in A : Taken(a[1], a[2]) \in ToSet(ranges)
    /\ \A r \in ToSet(ranges) :
         ~r.accepted => /\ r.start = 0 \/ \E a \in A : r.start = a[2]
                        /\ r.end = M \/ \E a \in A : r.end = a[1]
    /\ \A x \in 0 .. M - 1 : \E r \in ToSet(ranges) : Has(r, x)

(* What cutting leaves of a range. *)
LEMMA CutFacts ==
    ASSUME NEW r \in RangeSet, r.start < r.end, NEW from \in Nat, NEW to \in Nat, from < to,
           r.accepted => r.end <= from \/ to <= r.start
    PROVE  /\ Cut(r, from, to) \in Seq(RangeSet) /\ Ordered(Cut(r, from, to), Below)
           /\ r.accepted => ToSet(Cut(r, from, to)) = {r}
           /\ \A q \in ToSet(Cut(r, from, to)) :
                /\ q.accepted = r.accepted /\ q.start >= r.start /\ q.end <= r.end /\ q.start < q.end
                /\ q.end <= from \/ to <= q.start
                /\ r.accepted => q = r
                /\ q.start = r.start \/ (~r.accepted /\ q.start = to)
                /\ q.end = r.end \/ (~r.accepted /\ q.end = from)
           /\ \A x \in Nat : Has(r, x) /\ ~(from <= x /\ x < to) =>
                \E q \in ToSet(Cut(r, from, to)) : Has(q, x)
<1>0. /\ r.start \in Nat /\ r.end \in Nat /\ r.accepted \in BOOLEAN
      /\ r = [accepted |-> r.accepted, start |-> r.start, end |-> r.end]
  BY DEF RangeSet
<1> DEFINE c == Cut(r, from, to)
           u == [r EXCEPT !.end = from]
           v == [r EXCEPT !.start = to]
<1>1. /\ u \in RangeSet /\ u.accepted = r.accepted /\ u.start = r.start /\ u.end = from
      /\ v \in RangeSet /\ v.accepted = r.accepted /\ v.start = to /\ v.end = r.end
  BY DEF RangeSet
<1> HIDE DEF u, v
<1>2. /\ <<r>> \in Seq(RangeSet) /\ ToSet(<<r>>) = {r} /\ Len(<<r>>) = 1
      /\ <<u>> \in Seq(RangeSet) /\ ToSet(<<u>>) = {u} /\ Len(<<u>>) = 1
      /\ <<v>> \in Seq(RangeSet) /\ ToSet(<<v>>) = {v} /\ Len(<<v>>) = 1
      /\ <<>> \in Seq(RangeSet) /\ ToSet(<<>>) = {} /\ Len(<<>>) = 0
  <2>1. ASSUME NEW x \in RangeSet
        PROVE  <<x>> \in Seq(RangeSet) /\ ToSet(<<x>>) = {x} /\ Len(<<x>>) = 1
    BY DEF ToSet
  <2>2. <<>> \in Seq(RangeSet) /\ Len(<<>>) = 0
    BY ShortSeqs
  <2>3. ToSet(<<>>) = {}
    BY DEF ToSet
  <2> QED
    BY <1>1, <2>1, <2>2, <2>3, Zenon
<1>3. CASE r.accepted \/ r.end <= from \/ r.start >= to
  <2>1. c = <<r>>
    BY <1>3 DEF Cut
  <2>2. ToSet(c) = {r} /\ c \in Seq(RangeSet)
    BY <1>2, <2>1
  <2>3. Ordered(c, Below)
    BY <1>2, <2>1 DEF Ordered
  <2> HIDE DEF c
  <2>4. r.end <= from \/ to <= r.start
    BY <1>0, <1>3
  <2> QED
    BY <1>0, <2>2, <2>3, <2>4 DEF c
<1>4. CASE ~(r.accepted \/ r.end <= from \/ r.start >= to)
  <2> DEFINE a == IF r.start < from THEN <<u>> ELSE <<>>
             b == IF r.end > to THEN <<v>> ELSE <<>>
  <2>1. c = Cat(a, b)
    BY <1>4 DEF Cut, Cat, u, v
  <2>2. a \in Seq(RangeSet) /\ b \in Seq(RangeSet)
    BY <1>2
  <2>3. ToSet(a) = (IF r.start < from THEN {u} ELSE {}) /\ ToSet(b) = (IF r.end > to THEN {v} ELSE {})
    BY <1>2
  <2>4. Ordered(a, Below) /\ Ordered(b, Below)
    BY <1>2 DEF Ordered
  <2>5. Across(a, b, Below)
    BY <1>1, <2>3 DEF Across, Below
  <2> HIDE DEF a, b
  <2>6. Ordered(c, Below)
    BY <2>1, <2>2, <2>4, <2>5, CatOrdered
  <2>7. c \in Seq(RangeSet)
    BY <2>1, <2>2, CatType
  <2>8. ToSet(c) = ToSet(a) \cup ToSet(b)
    BY <2>1, <2>2, ElementsConcat DEF Cat
  <2> HIDE DEF c
  <2>9. \A q \in ToSet(c) : (q = u /\ r.start < from) \/ (q = v /\ r.end > to)
    BY <2>3, <2>8
  <2>10. ASSUME NEW x \in Nat, Has(r, x), ~(from <= x /\ x < to)
         PROVE  \E q \in ToSet(c) : Has(q, x)
    <3>1. CASE x < from
      <4>1. r.start < from /\ Has(u, x)
        BY <1>0, <1>1, <2>10, <3>1 DEF Has
      <4>2. u \in ToSet(c)
        BY <2>3, <2>8, <4>1
      <4> QED
        BY <4>1, <4>2
    <3>2. CASE ~(x < from)
      <4>1. r.end > to /\ Has(v, x)
        BY <1>0, <1>1, <2>10, <3>2 DEF Has
      <4>2. v \in ToSet(c)
        BY <2>3, <2>8, <4>1
      <4> QED
        BY <4>1, <4>2
    <3> QED
      BY <3>1, <3>2
  <2>11. ~r.accepted
    BY <1>4
  <2>12. ASSUME NEW q \in ToSet(c)
         PROVE  /\ q.accepted = r.accepted /\ q.start >= r.start /\ q.end <= r.end /\ q.start < q.end
                /\ q.end <= from \/ to <= q.start
                /\ q.start = r.start \/ (~r.accepted /\ q.start = to)
                /\ q.end = r.end \/ (~r.accepted /\ q.end = from)
    BY <1>0, <1>1, <1>4, <2>9, <2>11
  <2> QED
    BY <2>6, <2>7, <2>10, <2>11, <2>12 DEF c
<1> QED
  BY <1>3, <1>4

(* Accepting a range that meets no accepted one. *)
LEMMA AcceptTiles ==
    ASSUME NEW M \in Nat, NEW A, NEW ranges, Tiling(ranges, M, A),
           NEW from \in Nat, NEW to \in Nat, from < to, to <= M,
           \A a \in A : a[2] <= from \/ to <= a[1]
    PROVE  Tiling(Accept(ranges, from, to), M, A \cup {<<from, to>>})
<1> DEFINE n == Len(ranges)
           f == [i \in DOMAIN ranges |-> Cut(ranges[i], from, to)]
           kept == FlattenSeq(f)
           S == ToSet(ranges)
           K == ToSet(kept)
           low == {r \in K : r.start <= from}
           high == {r \in K : r.start > from}
           new == Taken(from, to)
           B == A \cup {<<from, to>>}
<1>1. /\ ranges \in Seq(RangeSet) /\ n \in Nat /\ DOMAIN ranges = 1 .. n
      /\ S = {ranges[i] : i \in 1 .. n} /\ S \subseteq RangeSet
  BY ElementsOf DEF Tiling
<1>2. \A r \in S : r.start < r.end /\ r.end <= M /\ (r.accepted => r.end <= from \/ to <= r.start)
  <2>1. \A r \in S : r.start < r.end /\ r.end <= M /\ (r.accepted => <<r.start, r.end>> \in A)
    BY DEF Tiling
  <2> QED
    BY <2>1
<1>3. \A i \in 1 .. n : ranges[i] \in S
  BY <1>1
<1>4. \A r \in S : /\ Cut(r, from, to) \in Seq(RangeSet) /\ Ordered(Cut(r, from, to), Below)
                   /\ r.accepted => ToSet(Cut(r, from, to)) = {r}
                   /\ \A q \in ToSet(Cut(r, from, to)) :
                        /\ q.accepted = r.accepted /\ q.start >= r.start /\ q.end <= r.end /\ q.start < q.end
                        /\ q.end <= from \/ to <= q.start
                        /\ r.accepted => q = r
                        /\ q.start = r.start \/ (~r.accepted /\ q.start = to)
                        /\ q.end = r.end \/ (~r.accepted /\ q.end = from)
                   /\ \A x \in Nat : Has(r, x) /\ ~(from <= x /\ x < to) =>
                        \E q \in ToSet(Cut(r, from, to)) : Has(q, x)
  <2> TAKE r \in S
  <2>1. r \in RangeSet /\ r.start < r.end /\ (r.accepted => r.end <= from \/ to <= r.start)
    BY <1>1, <1>2
  <2> QED
    BY <2>1, CutFacts
<1>5. f \in Seq(Seq(RangeSet)) /\ Len(f) = n /\ \A i \in 1 .. n : f[i] = Cut(ranges[i], from, to)
  <2>1. f \in [1 .. n -> Seq(RangeSet)]
    BY <1>1, <1>3, <1>4
  <2>2. \A i \in 1 .. n : f[i] = Cut(ranges[i], from, to)
    BY <1>1
  <2> HIDE DEF f
  <2> QED
    BY <1>1, <2>1, <2>2, FunIsSeq
<1> HIDE DEF f
<1>6. kept \in Seq(RangeSet) /\ K \subseteq RangeSet
  BY <1>5, FlatType, ElementsOf
<1>7. /\ \A q \in K : \E r \in S : q \in ToSet(Cut(r, from, to))
      /\ \A r \in S : ToSet(Cut(r, from, to)) \subseteq K
  <2>1. K = UNION {ToSet(f[k]) : k \in 1 .. n}
    BY <1>5, FlatElements
  <2> HIDE DEF K
  <2>2. ASSUME NEW q \in K PROVE \E r \in S : q \in ToSet(Cut(r, from, to))
    <3>1. PICK k \in 1 .. n : q \in ToSet(f[k])
      BY <2>1
    <3> QED
      BY <1>3, <1>5, <3>1
  <2>3. ASSUME NEW r \in S PROVE ToSet(Cut(r, from, to)) \subseteq K
    <3>1. PICK k \in 1 .. n : r = ranges[k]
      BY <1>1
    <3>2. ToSet(f[k]) \subseteq K
      BY <2>1
    <3> QED
      BY <1>5, <3>1, <3>2
  <2> QED
    BY <2>2, <2>3
<1>8. Ordered(kept, Below)
  <2>1. \A k \in 1 .. n : Ordered(f[k], Below)
    BY <1>3, <1>4, <1>5
  <2>2. ASSUME NEW k \in 1 .. n, NEW l \in 1 .. n, k < l PROVE Across(f[k], f[l], Below)
    <3> DEFINE r == ranges[k]
               q == ranges[l]
    <3>1. r \in S /\ q \in S
      BY <1>3
    <3>2. <<r, q>> \in Below
      BY <2>2 DEF Tiling, Ordered
    <3>3. r.end <= q.start
      BY <3>2 DEF Below
    <3> SUFFICES ASSUME NEW x \in ToSet(f[k]), NEW y \in ToSet(f[l]) PROVE <<x, y>> \in Below
      BY DEF Across
    <3>4. x \in ToSet(Cut(r, from, to)) /\ y \in ToSet(Cut(q, from, to))
      BY <1>5
    <3> HIDE DEF r, q
    <3>5. x \in RangeSet /\ y \in RangeSet
      BY <1>6, <1>7, <3>1, <3>4
    <3>6. x.end <= r.end /\ y.start >= q.start
      BY <1>4, <3>1, <3>4
    <3>7. x.end \in Nat /\ y.start \in Nat /\ r.end \in Nat /\ q.start \in Nat
      BY <1>1, <3>1, <3>5 DEF RangeSet
    <3>8. x.end <= y.start
      BY <3>3, <3>6, <3>7
    <3> QED
      BY <3>5, <3>8 DEF Below
  <2> QED
    BY <1>5, <2>1, <2>2, FlatRelated
<1> HIDE DEF kept
<1> DEFINE a == Keep(kept, low)
           b == Keep(kept, high)
           one == <<new>>
           done == Accept(ranges, from, to)
<1>9. done = Cat(Cat(a, one), b)
  <2>1. ~(from >= to)
    OBVIOUS
  <2> QED
    BY <2>1 DEF Accept, Where, Cat, Taken, f, kept
<1>10. /\ a \in Seq(RangeSet) /\ b \in Seq(RangeSet) /\ one \in Seq(RangeSet)
       /\ ToSet(a) = low /\ ToSet(b) = high /\ ToSet(one) = {new} /\ new \in RangeSet
  <2>1. ToSet(a) = K \cap low /\ ToSet(b) = K \cap high /\ a \in Seq(RangeSet) /\ b \in Seq(RangeSet)
    BY <1>6, KeepType, KeepElements
  <2>2. new \in RangeSet
    BY DEF Taken, RangeSet
  <2> HIDE DEF new
  <2>3. one \in Seq(RangeSet) /\ ToSet(one) = {new}
    BY <2>2 DEF ToSet
  <2> QED
    BY <2>1, <2>2, <2>3
<1>11. Ordered(a, Below) /\ Ordered(b, Below) /\ Ordered(one, Below)
  <2>1. \A i, j \in 1 .. Len(kept) : i < j => <<kept[i], kept[j]>> \in Below
    BY <1>8 DEF Ordered
  <2>2. Ordered(a, Below)
    BY <1>6, <2>1, KeepOrdered DEF Ordered
  <2>3. Ordered(b, Below)
    BY <1>6, <2>1, KeepOrdered DEF Ordered
  <2>4. Ordered(one, Below)
    BY DEF Ordered
  <2> QED
    BY <2>2, <2>3, <2>4
<1>12. \A q \in K : /\ q \in RangeSet /\ q.start \in Nat /\ q.end \in Nat
                    /\ q.end <= from \/ to <= q.start
                    /\ q.start < q.end /\ q.end <= M
  <2> TAKE q \in K
  <2>1. PICK r \in S : q \in ToSet(Cut(r, from, to))
    BY <1>7
  <2>2. q \in RangeSet /\ r \in RangeSet
    BY <1>1, <1>6
  <2>3. q.start \in Nat /\ q.end \in Nat /\ r.end \in Nat
    BY <2>2 DEF RangeSet
  <2>4. q.end <= r.end /\ q.start < q.end /\ (q.end <= from \/ to <= q.start)
    BY <1>4, <2>1
  <2> QED
    BY <1>2, <2>2, <2>3, <2>4
<1>13. new.start = from /\ new.end = to /\ new.accepted
  BY DEF Taken
<1> HIDE DEF new, K, a, b, one
<1>14. Across(a, one, Below)
  <2> SUFFICES ASSUME NEW x \in low PROVE <<x, new>> \in Below
    BY <1>10 DEF Across
  <2> QED
    BY <1>10, <1>12, <1>13 DEF Below
<1>15. Across(Cat(a, one), b, Below) /\ Cat(a, one) \in Seq(RangeSet) /\ ToSet(Cat(a, one)) = low \cup {new}
  <2>1. Cat(a, one) \in Seq(RangeSet) /\ ToSet(Cat(a, one)) = low \cup {new}
    BY <1>10, CatType, ElementsConcat DEF Cat
  <2>2. ASSUME NEW x \in low \cup {new}, NEW y \in high PROVE <<x, y>> \in Below
    <3>1. x \in RangeSet /\ x.end \in Nat /\ x.end <= to
      BY <1>10, <1>12, <1>13
    <3>2. y \in RangeSet /\ y.start \in Nat /\ to <= y.start
      BY <1>12
    <3> QED
      BY <3>1, <3>2 DEF Below
  <2> HIDE DEF low, high
  <2> QED
    BY <1>10, <2>1, <2>2 DEF Across
<1>16. Ordered(Cat(a, one), Below)
  BY <1>10, <1>11, <1>14, CatOrdered
<1>17. Ordered(done, Below) /\ done \in Seq(RangeSet)
  BY <1>9, <1>10, <1>11, <1>15, <1>16, CatOrdered, CatType
<1>18. ToSet(done) = K \cup {new}
  <2>1. ToSet(done) = (low \cup {new}) \cup high
    <3> DEFINE c == Cat(a, one)
    <3>1. c \in Seq(RangeSet) /\ ToSet(c) = low \cup {new} /\ done = c \o b
      BY <1>9, <1>15 DEF Cat
    <3> HIDE DEF c, low, high, done
    <3> QED
      BY <1>10, <3>1, ElementsConcat
  <2>2. K = low \cup high
    BY <1>12
  <2> HIDE DEF low, high
  <2> QED
    BY <2>1, <2>2
<1> HIDE DEF done
<1>19. \A r \in ToSet(done) : r.start < r.end /\ r.end <= M
  BY <1>12, <1>13, <1>18
<1>20. \A r \in ToSet(done) : r.accepted => <<r.start, r.end>> \in B
  <2> SUFFICES ASSUME NEW q \in K, q.accepted PROVE <<q.start, q.end>> \in A
    BY <1>13, <1>18
  <2>1. PICK r \in S : q \in ToSet(Cut(r, from, to))
    BY <1>7
  <2>2. q = r
    BY <1>4, <2>1
  <2> QED
    BY <2>2 DEF Tiling
<1>21. \A x \in B : Taken(x[1], x[2]) \in ToSet(done)
  <2>1. ASSUME NEW x \in A PROVE Taken(x[1], x[2]) \in K
    <3> DEFINE r == Taken(x[1], x[2])
    <3>1. r \in S
      BY DEF Tiling
    <3>2. r.accepted
      BY DEF Taken
    <3> HIDE DEF r
    <3>3. r \in ToSet(Cut(r, from, to))
      BY <1>4, <3>1, <3>2
    <3> QED
      BY <1>7, <3>1, <3>3 DEF r
  <2>2. Taken(<<from, to>>[1], <<from, to>>[2]) = new
    BY DEF new
  <2> QED
    BY <1>18, <2>1, <2>2
<1>22. \A r \in ToSet(done) :
         ~r.accepted => /\ r.start = 0 \/ \E x \in B : r.start = x[2]
                        /\ r.end = M \/ \E x \in B : r.end = x[1]
  <2> SUFFICES ASSUME NEW q \in K, ~q.accepted
               PROVE  /\ q.start = 0 \/ \E x \in B : q.start = x[2]
                      /\ q.end = M \/ \E x \in B : q.end = x[1]
    BY <1>13, <1>18
  <2>1. PICK r \in S : q \in ToSet(Cut(r, from, to))
    BY <1>7
  <2>2. /\ ~r.accepted /\ (q.start = r.start \/ q.start = to) /\ (q.end = r.end \/ q.end = from)
    BY <1>4, <2>1
  <2>3. /\ r.start = 0 \/ \E x \in A : r.start = x[2]
        /\ r.end = M \/ \E x \in A : r.end = x[1]
    BY <2>2 DEF Tiling
  <2>4. <<from, to>> \in B /\ <<from, to>>[1] = from /\ <<from, to>>[2] = to
    OBVIOUS
  <2> QED
    BY <2>2, <2>3, <2>4
<1>23. \A x \in 0 .. M - 1 : \E r \in ToSet(done) : Has(r, x)
  <2> TAKE x \in 0 .. M - 1
  <2>1. CASE from <= x /\ x < to
    BY <1>13, <1>18, <2>1 DEF Has
  <2>2. CASE ~(from <= x /\ x < to)
    <3>1. PICK r \in S : Has(r, x)
      BY DEF Tiling
    <3>2. x \in Nat
      OBVIOUS
    <3>3. \E q \in ToSet(Cut(r, from, to)) : Has(q, x)
      BY <1>4, <2>2, <3>1, <3>2
    <3> QED
      BY <1>7, <1>18, <3>3
  <2> QED
    BY <2>1, <2>2
<1>24. Tiling(done, M, B)
  <2> HIDE DEF B
  <2> QED
    BY <1>17, <1>19, <1>20, <1>21, <1>22, <1>23 DEF Tiling
<1> QED
  BY <1>24 DEF done

LEMMA AcceptType ==
    ASSUME NEW ranges \in Seq(RangeSet), NEW from \in Nat, NEW to \in Nat
    PROVE  Accept(ranges, from, to) \in Seq(RangeSet)
<1> DEFINE n == Len(ranges)
           f == [i \in DOMAIN ranges |-> Cut(ranges[i], from, to)]
           kept == FlattenSeq(f)
           a == Keep(kept, {r \in ToSet(kept) : r.start <= from})
           b == Keep(kept, {r \in ToSet(kept) : r.start > from})
           one == <<Taken(from, to)>>
<1>1. n \in Nat /\ DOMAIN ranges = 1 .. n /\ \A i \in 1 .. n : ranges[i] \in RangeSet
  OBVIOUS
<1>2. ASSUME NEW r \in RangeSet PROVE Cut(r, from, to) \in Seq(RangeSet)
  <2> DEFINE u == [r EXCEPT !.end = from]
             v == [r EXCEPT !.start = to]
             x == IF r.start < from THEN <<u>> ELSE <<>>
             y == IF r.end > to THEN <<v>> ELSE <<>>
  <2>1. u \in RangeSet /\ v \in RangeSet
    BY DEF RangeSet
  <2>2. Cut(r, from, to) = <<r>> \/ Cut(r, from, to) = Cat(x, y)
    BY DEF Cut, Cat
  <2> HIDE DEF u, v
  <2>3. <<r>> \in Seq(RangeSet) /\ x \in Seq(RangeSet) /\ y \in Seq(RangeSet)
    BY <2>1, ShortSeqs
  <2> HIDE DEF x, y
  <2> QED
    BY <2>2, <2>3, CatType
<1>3. f \in Seq(Seq(RangeSet))
  <2>1. f \in [1 .. n -> Seq(RangeSet)]
    BY <1>1, <1>2
  <2> HIDE DEF f
  <2> QED
    BY <1>1, <2>1, FunIsSeq
<1> HIDE DEF f
<1>4. kept \in Seq(RangeSet)
  BY <1>3, FlatType
<1> HIDE DEF kept
<1>5. a \in Seq(RangeSet) /\ b \in Seq(RangeSet)
  BY <1>4, KeepType
<1>6. one \in Seq(RangeSet)
  BY ShortSeqs DEF Taken, RangeSet
<1>7. Accept(ranges, from, to) = ranges \/ Accept(ranges, from, to) = Cat(Cat(a, one), b)
  BY DEF Accept, Where, Cat, Taken, f, kept
<1> HIDE DEF a, b, one
<1>8. Cat(a, one) \in Seq(RangeSet)
  BY <1>5, <1>6, CatType
<1>9. Cat(Cat(a, one), b) \in Seq(RangeSet)
  BY <1>5, <1>8, CatType
<1> QED
  BY <1>7, <1>9

(* measure_td_hob accepts one section after the other. *)
RangeStep(r, s) ==
    IF s.type \in {"TD_HOB", "TEMP_MEM"} THEN Accept(r, s.base, s.base + s.pages) ELSE r
Unaccepted(M) == <<[accepted |-> FALSE, start |-> 0, end |-> M]>>

LEMMA RangeSteps ==
    ASSUME NEW p \in DOMAIN Platforms, NEW R, NEW sections \in Seq(R),
           sections = Platforms[p].fw.sections, Platforms[p].memory \in Nat,
           \A s \in R : s.base \in Nat /\ s.pages \in Nat
    PROVE  \E P : /\ P[0] = Unaccepted(Platforms[p].memory)
                  /\ \A n \in 1 .. Len(sections) : P[n] = RangeStep(P[n - 1], sections[n])
                  /\ Ranges[p] = P[Len(sections)]
<1> DEFINE N == Len(sections)
           S == Seq(RangeSet)
           init == Unaccepted(Platforms[p].memory)
           Solves(h) == h = [s \in SUBSET (1 .. N) |->
                               IF s = {} THEN init ELSE RangeStep(h[s \ {Max(s)}], sections[Max(s)])]
           F == CHOOSE h : Solves(h)
           P == [n \in 0 .. N |-> F[1 .. n]]
<1>1. N \in Nat /\ DOMAIN sections = 1 .. N /\ \A n \in 1 .. N : sections[n] \in R
  OBVIOUS
<1>2. init \in S
  <2>1. [accepted |-> FALSE, start |-> 0, end |-> Platforms[p].memory] \in RangeSet
    BY DEF RangeSet
  <2> QED
    BY <2>1, ShortSeqs DEF Unaccepted
<1>3. ASSUME NEW r \in S, NEW n \in 1 .. N PROVE RangeStep(r, sections[n]) \in S
  <2>1. sections[n].base \in Nat /\ sections[n].pages \in Nat
    BY <1>1
  <2>2. sections[n].base + sections[n].pages \in Nat
    <3>1. \A x, y \in Nat : x + y \in Nat
      OBVIOUS
    <3> QED
      BY <2>1, <3>1, Zenon
  <2>3. Accept(r, sections[n].base, sections[n].base + sections[n].pages) \in S
    BY <2>1, <2>2, AcceptType
  <2> QED
    BY <2>3 DEF RangeStep
<1>6. Ranges[p] = F[1 .. N]
  <2>1. Ranges[p] = FoldLeft(LAMBDA r, s : IF s.type \in {"TD_HOB", "TEMP_MEM"}
                                   THEN Accept(r, s.base, s.base + s.pages) ELSE r,
                                 <<[accepted |-> FALSE, start |-> 0, end |-> Platforms[p].memory]>>, sections)
    BY DEF Ranges
  <2> QED
    BY <1>1, <2>1 DEF FoldLeft, MapThenFoldSet, RangeStep, Unaccepted
<1> HIDE DEF init
<1>4. \E h : Solves(h)
  <2> DEFINE st == [x \in S \X (1 .. N) |-> RangeStep(x[1], sections[x[2]])]
  <2> HIDE DEF S
  <2>1. st \in [S \X (1 .. N) -> S]
    BY <1>3
  <2>2. \A r \in S, n \in 1 .. N : st[<<r, n>>] = RangeStep(r, sections[n])
    OBVIOUS
  <2> HIDE DEF st
  <2>3. FoldTo(S, init, st, N)
    BY <1>1, <1>2, <2>1, FoldSolution
  <2>4. PICK h \in [SUBSET (1 .. N) -> S] :
          \A s \in SUBSET (1 .. N) : h[s] = IF s = {} THEN init ELSE st[<<h[s \ {Max(s)}], Max(s)>>]
    BY <2>3 DEF FoldTo
  <2>5. ASSUME NEW s \in SUBSET (1 .. N), s # {}
        PROVE  h[s] = RangeStep(h[s \ {Max(s)}], sections[Max(s)])
    <3>1. Max(s) \in 1 .. N
      BY <1>1, <2>5, MaxIsGreatest
    <3>2. s \ {Max(s)} \in SUBSET (1 .. N)
      OBVIOUS
    <3>3. h[s \ {Max(s)}] \in S
      BY <3>2
    <3>4. h[s] = st[<<h[s \ {Max(s)}], Max(s)>>]
      BY <2>4, <2>5
    <3> QED
      BY <2>2, <3>1, <3>3, <3>4
  <2>6. Solves(h)
    BY <2>4, <2>5
  <2> QED
    BY <2>6
<1>5. Solves(F)
  BY <1>4
<1> HIDE DEF F
<1>7. P[0] = init
  <2>1. 1 .. 0 = {}
    OBVIOUS
  <2>2. P[0] = F[{}]
    BY <1>1, <2>1
  <2> QED
    BY <1>5, <2>2
<1>8. ASSUME NEW n \in 1 .. N PROVE P[n] = RangeStep(P[n - 1], sections[n])
  <2>1. /\ 1 .. n \in SUBSET (1 .. N) /\ 1 .. n # {}
        /\ Max(1 .. n) = n /\ (1 .. n) \ {Max(1 .. n)} = 1 .. (n - 1)
    BY <1>1, IndexPrefixes
  <2>2. F[1 .. n] = RangeStep(F[1 .. (n - 1)], sections[n])
    BY <1>5, <2>1
  <2>3. n \in 0 .. N /\ n - 1 \in 0 .. N
    BY <1>1
  <2> QED
    BY <2>2, <2>3
<1>9. Ranges[p] = P[N]
  BY <1>1, <1>6
<1> QED
  BY <1>7, <1>8, <1>9 DEF init

(* What MachineAssumption says of a machine that boots. *)
Span(s) == <<s.base, s.base + s.pages>>
SpansOf(p) == {Span(s) : s \in {s \in ToSet(Platforms[p].fw.sections) : Accepted(s)}}
Boots_(p) == \E b \in Boots : p = b.platform

LEMMA MachineFacts ==
    ASSUME NEW p, Boots_(p)
    PROVE  LET sections == Platforms[p].fw.sections
               M == Platforms[p].memory
           IN  /\ p \in DOMAIN Platforms /\ M \in Nat \ {0}
               /\ sections \in Seq(ToSet(sections)) /\ Len(sections) \in Nat
               /\ ToSet(sections) = {sections[i] : i \in 1 .. Len(sections)}
               /\ \A s \in ToSet(sections) :
                    /\ s.base \in Nat /\ s.pages \in Nat
                    /\ Accepted(s) => s.base + s.pages < LowEnd /\ s.base + s.pages < M
                    /\ s.extend => s.raw = s.pages
               /\ \A i, j \in 1 .. Len(sections) :
                    Accepted(sections[i]) /\ Accepted(sections[j]) /\ i # j =>
                      LET s == sections[i]  t == sections[j]
                      IN  s.base + s.pages <= t.base \/ t.base + t.pages <= s.base
<1> DEFINE sections == Platforms[p].fw.sections
           M == Platforms[p].memory
<1>1. PICK b \in Boots : p = b.platform
  BY DEF Boots_
<1>2. p \in DOMAIN Platforms
  BY <1>1, MachineAssumption
<1>3. /\ M \in Nat \ {0} /\ sections \in Seq(ToSet(sections))
      /\ \A i, j \in DOMAIN sections :
           /\ {sections[i].base, sections[i].pages} \subseteq Nat
           /\ Accepted(sections[i]) /\ Accepted(sections[j]) /\ i # j =>
                sections[i].base + sections[i].pages <= sections[j].base
                \/ sections[j].base + sections[j].pages <= sections[i].base
           /\ Accepted(sections[i]) => sections[i].base + sections[i].pages < LowEnd
           /\ Accepted(sections[i]) => sections[i].base + sections[i].pages < M
           /\ sections[i].extend => sections[i].raw = sections[i].pages
  BY <1>1, MachineAssumption, SMTT(40)
<1> HIDE DEF sections, M
<1>4. /\ DOMAIN sections = 1 .. Len(sections) /\ Len(sections) \in Nat
      /\ ToSet(sections) = {sections[i] : i \in 1 .. Len(sections)}
  BY <1>3, ElementsOf
<1>5. \A s \in ToSet(sections) :
         /\ s.base \in Nat /\ s.pages \in Nat
         /\ Accepted(s) => s.base + s.pages < LowEnd /\ s.base + s.pages < M
         /\ s.extend => s.raw = s.pages
  <2> SUFFICES ASSUME NEW i \in 1 .. Len(sections)
               PROVE  /\ sections[i].base \in Nat /\ sections[i].pages \in Nat
                      /\ Accepted(sections[i]) => sections[i].base + sections[i].pages < LowEnd
                                                  /\ sections[i].base + sections[i].pages < M
                      /\ sections[i].extend => sections[i].raw = sections[i].pages
    BY <1>4
  <2> QED
    BY <1>3, <1>4
<1> QED
  BY <1>2, <1>3, <1>4, <1>5 DEF sections, M

(* The ranges in the end: memory cut by all accepted sections. *)
LEMMA RangesTile ==
    ASSUME NEW p, Boots_(p)
    PROVE  Tiling(Ranges[p], Platforms[p].memory, SpansOf(p))
<1> DEFINE sections == Platforms[p].fw.sections
           M == Platforms[p].memory
           N == Len(sections)
           A(n) == {Span(sections[i]) : i \in {i \in 1 .. n : Accepted(sections[i])}}
<1>1. /\ p \in DOMAIN Platforms /\ M \in Nat \ {0}
      /\ sections \in Seq(ToSet(sections)) /\ N \in Nat
      /\ ToSet(sections) = {sections[i] : i \in 1 .. N}
      /\ \A s \in ToSet(sections) : /\ s.base \in Nat /\ s.pages \in Nat
                                    /\ Accepted(s) => s.base + s.pages < M
      /\ \A i, j \in 1 .. N :
           Accepted(sections[i]) /\ Accepted(sections[j]) /\ i # j =>
             \/ sections[i].base + sections[i].pages <= sections[j].base
             \/ sections[j].base + sections[j].pages <= sections[i].base
  BY MachineFacts
<1>2. PICK P : /\ P[0] = Unaccepted(M)
               /\ \A n \in 1 .. N : P[n] = RangeStep(P[n - 1], sections[n])
               /\ Ranges[p] = P[N]
  BY <1>1, RangeSteps
<1>3. SpansOf(p) = A(N)
  BY <1>1 DEF SpansOf
<1> DEFINE T == {n \in Nat : n <= N => Tiling(P[n], M, A(n))}
<1> HIDE DEF sections, M, N
<1>4. 0 \in T
  <2> DEFINE r == [accepted |-> FALSE, start |-> 0, end |-> M]
             u == Unaccepted(M)
  <2>1. A(0) = {}
    OBVIOUS
  <2>2. r \in RangeSet /\ r.start = 0 /\ r.end = M /\ ~r.accepted
    BY <1>1 DEF RangeSet
  <2>3. u = <<r>>
    BY DEF Unaccepted
  <2> HIDE DEF r, u
  <2>4. u \in Seq(RangeSet) /\ ToSet(u) = {r} /\ Len(u) = 1
    BY <2>2, <2>3 DEF ToSet
  <2>5. Ordered(u, Below)
    BY <2>4 DEF Ordered
  <2>6. \A x \in 0 .. M - 1 : Has(r, x)
    BY <1>1, <2>2 DEF Has
  <2>7. Tiling(u, M, {})
    BY <1>1, <2>2, <2>4, <2>5, <2>6 DEF Tiling
  <2> QED
    BY <1>2, <2>1, <2>7 DEF u
<1>5. ASSUME NEW n \in Nat, n \in T PROVE n + 1 \in T
  <2> SUFFICES ASSUME n + 1 <= N PROVE Tiling(P[n + 1], M, A(n + 1))
    OBVIOUS
  <2> DEFINE s == sections[n + 1]
  <2>1. n + 1 \in 1 .. N /\ n <= N /\ (n + 1) - 1 = n
    BY <1>1
  <2>2. P[n + 1] = RangeStep(P[n], s) /\ Tiling(P[n], M, A(n))
    BY <1>2, <1>5, <2>1
  <2>3. s \in ToSet(sections)
    BY <1>1, <2>1
  <2>4. A(n + 1) = IF Accepted(s) THEN A(n) \cup {Span(s)} ELSE A(n)
    <3>1. \A i : i \in 1 .. n + 1 <=> i \in 1 .. n \/ i = n + 1
      OBVIOUS
    <3> QED
      BY <3>1
  <2>5. CASE Accepted(s)
    <3> DEFINE from == s.base
               to == s.base + s.pages
    <3>1. from \in Nat /\ to \in Nat /\ from < to /\ to <= M
      <4>1. s.base \in Nat /\ s.pages \in Nat /\ s.pages > 0 /\ s.base + s.pages < M /\ M \in Nat
        <5> HIDE DEF s
        <5> QED
          BY <1>1, <2>3, <2>5 DEF Accepted
      <4> DEFINE x == s.base
                 y == s.pages
      <4> HIDE DEF x, y
      <4>2. x \in Nat /\ x + y \in Nat /\ x < x + y /\ x + y <= M
        BY <4>1 DEF x, y
      <4> QED
        BY <4>2 DEF x, y
    <3>2. \A x \in A(n) : x[2] <= from \/ to <= x[1]
      <4> SUFFICES ASSUME NEW i \in 1 .. n, Accepted(sections[i])
                   PROVE  sections[i].base + sections[i].pages <= from \/ to <= sections[i].base
        BY DEF Span
      <4>1. i \in 1 .. N /\ i # n + 1
        BY <1>1, <2>1
      <4> QED
        BY <1>1, <2>1, <2>5, <4>1
    <3>3. P[n + 1] = Accept(P[n], from, to)
      BY <2>2, <2>5 DEF RangeStep, Accepted
    <3>4. A(n + 1) = A(n) \cup {<<from, to>>}
      BY <2>4, <2>5 DEF Span
    <3> HIDE DEF A, from, to
    <3> QED
      BY <1>1, <2>2, <3>1, <3>2, <3>3, <3>4, AcceptTiles
  <2>6. CASE ~Accepted(s)
    <3>1. A(n + 1) = A(n)
      BY <2>4, <2>6
    <3>2. P[n + 1] = P[n]
      <4>1. CASE s.type \in {"TD_HOB", "TEMP_MEM"}
        <5>1. s.base >= s.base + s.pages
          BY <1>1, <2>3, <2>6, <4>1, SMTT(40) DEF Accepted
        <5> QED
          BY <2>2, <4>1, <5>1 DEF RangeStep, Accept
      <4>2. CASE s.type \notin {"TD_HOB", "TEMP_MEM"}
        BY <2>2, <4>2 DEF RangeStep
      <4> QED
        BY <4>1, <4>2
    <3> HIDE DEF A
    <3> QED
      BY <2>2, <3>1, <3>2
  <2> QED
    BY <2>5, <2>6
<1>6. Nat \subseteq T
  <2> HIDE DEF T
  <2> QED
    BY <1>4, <1>5, SetInduction
<1>7. Tiling(P[N], M, A(N))
  <2> HIDE DEF A
  <2> QED
    BY <1>1, <1>6
<1> QED
  BY <1>2, <1>3, <1>7 DEF M, N, sections

-----------------------------------------------------------------------------
(* The TD HOB.                                                              *)

(* In the order of their addresses. *)
Rising(s) == \A i, j \in 1 .. Len(s) : i < j => s[i].start < s[j].start

LEMMA RisingPrefix ==
    ASSUME NEW S, NEW a \in Seq(S), NEW b \in Seq(S), ToSet(a) = ToSet(b), Rising(a), Rising(b),
           \A x \in S : x.start \in Nat
    PROVE  \A m \in 1 .. Len(a) : m <= Len(b) /\ a[m] = b[m]
<1> DEFINE M == Len(a)
           N == Len(b)
           T == {n \in Nat : \A m \in 1 .. n : m <= M => m <= N /\ a[m] = b[m]}
<1>1. /\ M \in Nat /\ N \in Nat /\ \A i \in 1 .. M : a[i] \in S /\ a[i].start \in Nat
      /\ \A i \in 1 .. N : b[i] \in S /\ b[i].start \in Nat
  OBVIOUS
<1>2. {a[i] : i \in 1 .. M} = {b[i] : i \in 1 .. N}
  BY ElementsOf
<1>3. /\ \A i, j \in 1 .. M : i < j => a[i].start < a[j].start
      /\ \A i, j \in 1 .. N : i < j => b[i].start < b[j].start
  BY DEF Rising
<1> HIDE DEF M, N
<1>4. 0 \in T
  OBVIOUS
<1>5. ASSUME NEW n \in Nat, n \in T PROVE n + 1 \in T
  <2> SUFFICES ASSUME n + 1 <= M PROVE n + 1 <= N /\ a[n + 1] = b[n + 1]
    <3>1. \A m \in 1 .. n + 1 : m \in 1 .. n \/ m = n + 1
      OBVIOUS
    <3> QED
      BY <1>5, <3>1
  <2>1. n + 1 \in 1 .. M
    BY <1>1
  <2>2. PICK k \in 1 .. N : a[n + 1] = b[k]
    BY <1>2, <2>1
  <2>3. \A m \in 1 .. n : m \in 1 .. M /\ m \in 1 .. N /\ a[m] = b[m] /\ m < n + 1
    BY <1>1, <1>5
  <2>4. k > n
    <3> SUFFICES ASSUME k <= n PROVE FALSE
      BY <1>1
    <3>1. k \in 1 .. n
      BY <1>1
    <3>2. a[k] = a[n + 1] /\ k \in 1 .. M /\ k < n + 1
      BY <2>2, <2>3, <3>1
    <3>3. a[k].start < a[n + 1].start /\ a[k].start \in Nat
      BY <1>1, <1>3, <2>1, <3>2
    <3> QED
      BY <3>2, <3>3
  <2>5. n + 1 \in 1 .. N
    BY <1>1, <2>4
  <2>6. k = n + 1
    <3> SUFFICES ASSUME k > n + 1 PROVE FALSE
      BY <1>1, <2>4
    <3>1. PICK l \in 1 .. M : b[n + 1] = a[l]
      BY <1>2, <2>5
    <3>2. b[n + 1].start < b[k].start
      BY <1>3, <2>5
    <3>3. a[l].start < a[n + 1].start /\ a[l].start \in Nat /\ a[n + 1].start \in Nat
      BY <1>1, <2>1, <2>2, <3>1, <3>2
    <3>4. l < n + 1
      <4> SUFFICES ASSUME ~(l < n + 1) PROVE FALSE
        OBVIOUS
      <4>1. l = n + 1 \/ n + 1 < l
        BY <1>1
      <4>2. a[l].start = a[n + 1].start \/ a[n + 1].start < a[l].start
        BY <1>3, <2>1, <4>1
      <4> QED
        BY <3>3, <4>2
    <3>5. l \in 1 .. n
      BY <1>1, <3>4
    <3>6. b[l] = b[n + 1] /\ l \in 1 .. N /\ l < n + 1
      BY <2>3, <3>1, <3>5
    <3>7. b[l].start < b[n + 1].start /\ b[l].start \in Nat
      BY <1>1, <1>3, <2>5, <3>6
    <3> QED
      BY <3>6, <3>7
  <2> QED
    BY <1>1, <2>2, <2>5, <2>6
<1>6. Nat \subseteq T
  <2> HIDE DEF T
  <2> QED
    BY <1>4, <1>5, SetInduction
<1>7. M \in T /\ \A m \in 1 .. M : m <= M
  <2>1. M \in T
    <3> HIDE DEF T
    <3> QED
      BY <1>1, <1>6
  <2> QED
    BY <1>1, <2>1
<1>8. \A m \in 1 .. M : m <= M => m <= N /\ a[m] = b[m]
  BY <1>7
<1>9. \A m \in 1 .. M : m <= N /\ a[m] = b[m]
  BY <1>7, <1>8
<1> QED
  BY <1>9 DEF M, N

LEMMA RisingSame ==
    ASSUME NEW S, NEW a \in Seq(S), NEW b \in Seq(S), ToSet(a) = ToSet(b), Rising(a), Rising(b),
           \A x \in S : x.start \in Nat
    PROVE  a = b
<1>1. \A m \in 1 .. Len(a) : m <= Len(b) /\ a[m] = b[m]
  BY RisingPrefix
<1>2. \A m \in 1 .. Len(b) : m <= Len(a) /\ b[m] = a[m]
  BY RisingPrefix
<1>3. Len(a) \in Nat /\ Len(b) \in Nat
  OBVIOUS
<1> DEFINE M == Len(a)
           N == Len(b)
<1> HIDE DEF M, N
<1>4. M <= N /\ N <= M
  <2>1. M \in Nat /\ N \in Nat
    BY <1>3 DEF M, N
  <2>2. M # 0 => M <= N
    <3> HAVE M # 0
    <3>1. M \in 1 .. M
      BY <2>1
    <3> QED
      BY <1>1, <3>1 DEF M, N
  <2>3. N # 0 => N <= M
    <3> HAVE N # 0
    <3>1. N \in 1 .. N
      BY <2>1
    <3> QED
      BY <1>2, <3>1 DEF M, N
  <2> QED
    BY <2>1, <2>2, <2>3
<1>5. Len(a) = Len(b)
  BY <1>3, <1>4 DEF M, N
<1> QED
  BY <1>1, <1>5, SeqEqual

(* The one way to put a finite set in the order of addresses. *)
InOrder(H) == CHOOSE m \in SetToSeqs(H) : \A i, j \in DOMAIN m : i < j => m[i].start < m[j].start

LEMMA OnlyOrder ==
    ASSUME NEW H, NEW h \in Seq(H), ToSet(h) = H, Rising(h), \A x \in H : x.start \in Nat
    PROVE  InOrder(H) = h
<1> DEFINE n == Len(h)
           D == 1 .. n
           Up(m) == \A i, j \in DOMAIN m : i < j => m[i].start < m[j].start
<1>1. n \in Nat /\ DOMAIN h = D /\ h \in [D -> H] /\ H = {h[i] : i \in D}
  BY ElementsOf
<1>2. \A i, j \in D : i # j => h[i] # h[j]
  <2> SUFFICES ASSUME NEW i \in D, NEW j \in D, i < j PROVE h[i] # h[j]
    BY <1>1
  <2>1. h[i].start < h[j].start /\ h[i].start \in Nat
    BY <1>1 DEF Rising
  <2> QED
    BY <2>1
<1>3. h \in Bijection(D, H) /\ h \in Injection(D, H) /\ h \in Surjection(D, H)
  BY <1>1, <1>2 DEF Bijection, Injection, Surjection, IsInjective
<1>4. ExistsBijection(D, H)
  BY <1>3 DEF ExistsBijection
<1>5. Cardinality(H) = n
  BY <1>1, <1>4, FS_CountingElements
<1>6. IsFiniteSet(D) /\ Cardinality(D) = n
  <2>1. 1 \in Int /\ n \in Int
    BY <1>1
  <2>2. IsFiniteSet(D) /\ Cardinality(D) = (IF 1 > n THEN 0 ELSE n - 1 + 1)
    BY <2>1, FS_Interval
  <2> QED
    BY <1>1, <2>2
<1>7. IsFiniteSet(H)
  BY <1>4, <1>6, FS_Bijection
<1>8. SetToSeqs(H) = {f \in [D -> H] : \A i, j \in D : i # j => f[i] # f[j]}
  BY <1>5 DEF SetToSeqs
<1>9. h \in SetToSeqs(H) /\ Up(h)
  <2>1. h \in SetToSeqs(H)
    BY <1>1, <1>2, <1>8
  <2> QED
    BY <1>1, <2>1 DEF Rising
<1> DEFINE m == InOrder(H)
<1>10. m \in SetToSeqs(H) /\ Up(m)
  <2> HIDE DEF Up
  <2>1. m = CHOOSE x \in SetToSeqs(H) : Up(x)
    BY DEF InOrder, Up
  <2> QED
    BY <1>9, <2>1
<1> HIDE DEF m
<1>11. m \in [D -> H] /\ \A i, j \in D : i # j => m[i] # m[j]
  BY <1>8, <1>10
<1>12. m \in Injection(D, H)
  BY <1>11 DEF Injection, IsInjective
<1>13. m \in Surjection(D, H)
  BY <1>5, <1>6, <1>7, <1>12, FS_Injection
<1>14. m \in Seq(H) /\ Len(m) = n
  BY <1>1, <1>11, FunIsSeq
<1>15. ToSet(m) = H
  <2>1. ToSet(m) = {m[i] : i \in 1 .. n}
    BY <1>14, ElementsOf
  <2>2. \A x \in H : \E i \in D : m[i] = x
    BY <1>13 DEF Surjection
  <2>3. \A i \in D : m[i] \in H
    BY <1>11
  <2> QED
    BY <2>1, <2>2, <2>3
<1>16. Rising(m)
  BY <1>10, <1>11, <1>14 DEF Rising
<1> QED
  BY <1>14, <1>15, <1>16, RisingSame DEF m

(* A gap between accepted ranges, and a free range. *)
Gap(A, M, a, b) ==
    /\ a \in {0} \cup {x[2] : x \in A} /\ b \in {M} \cup {x[1] : x \in A}
    /\ a < b /\ \A x \in A : x[2] <= a \/ b <= x[1]
Free(a, b) == [accepted |-> FALSE, start |-> a, end |-> b]
SpansIn(A, M) == \A x \in A : x[1] \in Nat /\ x[2] \in Nat /\ x[1] < x[2] /\ x[2] < M

LEMMA TilesApart ==
    ASSUME NEW M, NEW A, NEW ranges, Tiling(ranges, M, A),
           NEW r \in ToSet(ranges), NEW q \in ToSet(ranges)
    PROVE  /\ r = q \/ r.end <= q.start \/ q.end <= r.start
           /\ r \in RangeSet /\ r.start \in Nat /\ r.end \in Nat /\ r.accepted \in BOOLEAN
           /\ r = [accepted |-> r.accepted, start |-> r.start, end |-> r.end]
<1>1. ranges \in Seq(RangeSet) /\ Len(ranges) \in Nat
  BY DEF Tiling
<1>2. ToSet(ranges) = {ranges[i] : i \in 1 .. Len(ranges)} /\ ToSet(ranges) \subseteq RangeSet
  BY <1>1, ElementsOf
<1>3. PICK i \in 1 .. Len(ranges), j \in 1 .. Len(ranges) : r = ranges[i] /\ q = ranges[j]
  BY <1>2
<1>4. i = j \/ i < j \/ j < i
  BY <1>1
<1>5. i < j => <<r, q>> \in Below
  BY <1>3 DEF Tiling, Ordered
<1>6. j < i => <<q, r>> \in Below
  BY <1>3 DEF Tiling, Ordered
<1>7. r \in RangeSet
  BY <1>2
<1>8. /\ r.start \in Nat /\ r.end \in Nat /\ r.accepted \in BOOLEAN
      /\ r = [accepted |-> r.accepted, start |-> r.start, end |-> r.end]
  BY <1>7 DEF RangeSet
<1>9. i < j => r.end <= q.start
  BY <1>5 DEF Below
<1>10. j < i => q.end <= r.start
  BY <1>6 DEF Below
<1>11. i = j => r = q
  BY <1>3
<1> QED
  BY <1>4, <1>7, <1>8, <1>9, <1>10, <1>11

LEMMA GapsAreFree ==
    ASSUME NEW M \in Nat, NEW A, NEW ranges, Tiling(ranges, M, A), SpansIn(A, M), NEW a, NEW b
    PROVE  Gap(A, M, a, b) <=> Free(a, b) \in ToSet(ranges)
<1> DEFINE S == ToSet(ranges)
<1>0. \A r \in S : /\ r.start \in Nat /\ r.end \in Nat /\ r.accepted \in BOOLEAN
                   /\ r = [accepted |-> r.accepted, start |-> r.start, end |-> r.end]
                   /\ r.start < r.end /\ r.end <= M
  <2>1. \A r \in S : r.start < r.end /\ r.end <= M
    BY DEF Tiling
  <2>2. \A r \in S : /\ r.start \in Nat /\ r.end \in Nat /\ r.accepted \in BOOLEAN
                     /\ r = [accepted |-> r.accepted, start |-> r.start, end |-> r.end]
    BY TilesApart
  <2> QED
    BY <2>1, <2>2
<1>1. \A x \in A : /\ Taken(x[1], x[2]) \in S /\ x[1] \in Nat /\ x[2] \in Nat /\ x[1] < x[2] /\ x[2] < M
                   /\ Taken(x[1], x[2]).start = x[1] /\ Taken(x[1], x[2]).end = x[2]
                   /\ Taken(x[1], x[2]).accepted
  BY DEF Tiling, SpansIn, Taken
\* A free range meets no accepted one.
<1>2. ASSUME NEW r \in S, ~r.accepted, NEW x \in A PROVE x[2] <= r.start \/ r.end <= x[1]
  <2> DEFINE q == Taken(x[1], x[2])
  <2>1. q \in S /\ q.start = x[1] /\ q.end = x[2] /\ q.accepted
    BY <1>1
  <2> HIDE DEF q
  <2>2. r = q \/ r.end <= q.start \/ q.end <= r.start
    BY <2>1, TilesApart
  <2> QED
    BY <1>2, <2>1, <2>2
<1>3. ASSUME Free(a, b) \in S PROVE Gap(A, M, a, b)
  <2> DEFINE r == Free(a, b)
  <2>1. r \in S /\ r.start = a /\ r.end = b /\ ~r.accepted
    BY <1>3 DEF Free
  <2> HIDE DEF r
  <2>2. /\ r.start = 0 \/ \E x \in A : r.start = x[2]
        /\ r.end = M \/ \E x \in A : r.end = x[1]
    BY <2>1 DEF Tiling
  <2> QED
    BY <1>0, <1>2, <2>1, <2>2 DEF Gap
<1>4. ASSUME Gap(A, M, a, b) PROVE Free(a, b) \in S
  <2>1. a \in Nat /\ b \in Nat /\ a < b /\ b <= M
    BY <1>1, <1>4 DEF Gap
  <2>2. a \in 0 .. M - 1
    BY <2>1
  <2>3. PICK r \in S : Has(r, a)
    BY <2>2 DEF Tiling
  <2>4. r.start <= a /\ a < r.end /\ r.start \in Nat /\ r.end \in Nat /\ r.end <= M
    BY <1>0, <2>3 DEF Has
  <2>5. ~r.accepted
    <3> SUFFICES ASSUME r.accepted PROVE FALSE
      BY <1>0
    <3> DEFINE x == <<r.start, r.end>>
    <3>1. x \in A /\ x[1] = r.start /\ x[2] = r.end
      BY DEF Tiling
    <3> HIDE DEF x
    <3>2. x[2] <= a \/ b <= x[1]
      BY <1>4, <3>1 DEF Gap
    <3> QED
      BY <2>1, <2>4, <3>1, <3>2
  <2>6. /\ r.start = 0 \/ \E x \in A : r.start = x[2]
        /\ r.end = M \/ \E x \in A : r.end = x[1]
    BY <2>5 DEF Tiling
  <2>7. r.start = a
    <3> SUFFICES ASSUME r.start < a PROVE FALSE
      BY <2>1, <2>4
    <3>1. PICK x \in A : a = x[2]
      BY <1>4, <2>4 DEF Gap
    <3>2. x[2] <= r.start \/ r.end <= x[1]
      BY <1>2, <2>5
    <3> QED
      BY <1>1, <2>4, <3>1, <3>2
  <2>8. r.end = b
    <3>1. CASE r.end < b
      <4>1. PICK x \in A : r.end = x[1]
        BY <2>1, <2>4, <2>6, <3>1
      <4>2. x[2] <= a \/ b <= x[1]
        BY <1>4 DEF Gap
      <4> QED
        BY <1>1, <2>1, <2>4, <3>1, <4>1, <4>2
    <3>2. CASE b < r.end
      <4>1. PICK x \in A : b = x[1]
        BY <1>4, <2>1, <2>4, <3>2 DEF Gap
      <4>2. x[2] <= r.start \/ r.end <= x[1]
        BY <1>2, <2>5
      <4> QED
        BY <1>1, <2>1, <2>4, <2>7, <3>2, <4>1, <4>2
    <3> QED
      BY <2>1, <2>4, <3>1, <3>2
  <2>9. r = Free(a, b)
    BY <1>0, <2>5, <2>7, <2>8 DEF Free
  <2> QED
    BY <2>9
<1> QED
  BY <1>3, <1>4

(* The last range is free and reaches the end of memory. *)
LEMMA LastRange ==
    ASSUME NEW M \in Nat \ {0}, NEW A, NEW ranges, Tiling(ranges, M, A), SpansIn(A, M)
    PROVE  LET n == Len(ranges)
           IN  /\ n \in Nat \ {0} /\ ranges[n].end = M /\ ~ranges[n].accepted
               /\ \A i \in 1 .. n - 1 : ranges[i].end < M
               /\ \A i \in 1 .. n - 1 : ranges[i].start < ranges[n].start
<1> DEFINE n == Len(ranges)
           S == ToSet(ranges)
<1>0. ranges \in Seq(RangeSet)
  BY DEF Tiling
<1>1. n \in Nat /\ S = {ranges[i] : i \in 1 .. n}
  BY <1>0, ElementsOf
<1>2. \A r \in S : /\ r.start \in Nat /\ r.end \in Nat /\ r.accepted \in BOOLEAN
                   /\ r.start < r.end /\ r.end <= M
  <2>1. \A r \in S : r.start < r.end /\ r.end <= M
    BY DEF Tiling
  <2>2. \A r \in S : r.start \in Nat /\ r.end \in Nat /\ r.accepted \in BOOLEAN
    BY TilesApart
  <2> QED
    BY <2>1, <2>2
<1>3. M - 1 \in 0 .. M - 1
  OBVIOUS
<1>4. PICK r \in S : Has(r, M - 1)
  BY <1>3 DEF Tiling
<1>5. r.end = M
  BY <1>2, <1>4 DEF Has
<1>6. PICK k \in 1 .. n : r = ranges[k]
  BY <1>1
<1>7. \A i, j \in 1 .. n : i < j => ranges[i].end <= ranges[j].start
  BY DEF Tiling, Ordered, Below
<1> HIDE DEF n
<1>8. \A i \in 1 .. n : ranges[i] \in S
  BY <1>1
<1>9. n \in Nat \ {0} /\ n \in 1 .. n
  BY <1>1, <1>6
<1>10. k = n
  <2> SUFFICES ASSUME k < n PROVE FALSE
    BY <1>1
  <2>1. r.end <= ranges[n].start
    BY <1>6, <1>7, <1>9
  <2>2. ranges[n].start \in Nat /\ ranges[n].end \in Nat /\ ranges[n].start < ranges[n].end /\ ranges[n].end <= M
    BY <1>2, <1>8, <1>9
  <2> QED
    BY <1>5, <2>1, <2>2
<1>11. ~r.accepted
  <2> SUFFICES ASSUME r.accepted PROVE FALSE
    BY <1>2
  <2> DEFINE x == <<r.start, r.end>>
  <2>1. x \in A /\ x[2] = r.end
    BY DEF Tiling
  <2> HIDE DEF x
  <2>2. x[2] < M
    BY <2>1 DEF SpansIn
  <2> QED
    BY <1>5, <2>1, <2>2
<1>12. ASSUME NEW i \in 1 .. n - 1 PROVE ranges[i].end < M /\ ranges[i].start < ranges[n].start
  <2>1. i \in 1 .. n /\ i < n
    BY <1>1
  <2>2. ranges[i].end <= ranges[n].start
    BY <1>7, <1>9, <2>1
  <2>3. /\ ranges[n].start \in Nat /\ ranges[n].start < M
        /\ ranges[i].end \in Nat /\ ranges[i].start \in Nat /\ ranges[i].start < ranges[i].end
    <3>1. /\ ranges[n].start \in Nat /\ ranges[n].end \in Nat /\ ranges[n].start < ranges[n].end
          /\ ranges[n].end <= M
          /\ ranges[i].end \in Nat /\ ranges[i].start \in Nat /\ ranges[i].start < ranges[i].end
      BY <1>2, <1>8, <1>9, <2>1
    <3> QED
      BY <3>1
  <2> QED
    BY <2>2, <2>3
<1> QED
  BY <1>5, <1>6, <1>9, <1>10, <1>11, <1>12 DEF n

(* The descriptors of memory, from its accepted spans: what MemoryMap puts  *)
(* in order.                                                                *)
Hob(type, a, b) == [type |-> type, start |-> a, length |-> b - a]
Large(M) == M >= SplitFrom
Top(M, e) == IF Large(M) /\ e = M THEN LowEnd ELSE e
Gaps(A, M) ==
    {g \in ({0} \cup {x[2] : x \in A}) \X ({M} \cup {x[1] : x \in A}) : Gap(A, M, g[1], g[2])}
High(M) == Hob("UNACCEPTED", HighBase, HighBase + M - LowEnd)
HobSet(A, M) ==
    {Hob("SYSTEM", x[1], x[2]) : x \in A}
      \cup {Hob("UNACCEPTED", g[1], Top(M, g[2])) : g \in Gaps(A, M)}
      \cup (IF Large(M) THEN {High(M)} ELSE {})

LEMMA MapIsOrder ==
    ASSUME NEW p
    PROVE  MemoryMap(Platforms[p]) = InOrder(HobSet(SpansOf(p), Platforms[p].memory))
<1> DEFINE q == Platforms[p]
           acc == {s \in ToSet(q.fw.sections) : Accepted(s)}
           from == {0} \cup {s.base + s.pages : s \in acc}
           to == {q.memory} \cup {s.base : s \in acc}
           free(a, b) == a < b /\ \A s \in acc : s.base + s.pages <= a \/ b <= s.base
           gaps == {g \in from \X to : free(g[1], g[2])}
           large == q.memory >= SplitFrom
           A == SpansOf(p)
           M == q.memory
<1>1. A = {Span(s) : s \in acc} /\ \A s \in acc : Span(s)[1] = s.base /\ Span(s)[2] = s.base + s.pages
  BY DEF SpansOf, Span
<1> HIDE DEF acc
<1>2. from = {0} \cup {x[2] : x \in A} /\ to = {M} \cup {x[1] : x \in A}
  BY <1>1
<1>3. \A a, b : (a < b /\ \A x \in A : x[2] <= a \/ b <= x[1]) <=> free(a, b)
  BY <1>1
<1> DEFINE F == {0} \cup {x[2] : x \in A}
           G == {M} \cup {x[1] : x \in A}
<1>4. gaps = {g \in F \X G : free(g[1], g[2])}
  BY <1>2
<1>5. \A g \in F \X G : g[1] \in F /\ g[2] \in G
  OBVIOUS
<1>6. \A a, b : Gap(A, M, a, b) <=> a \in F /\ b \in G /\ free(a, b)
  BY <1>3 DEF Gap
<1>7. Gaps(A, M) = {g \in F \X G : Gap(A, M, g[1], g[2])}
  BY DEF Gaps
<1>8. gaps = Gaps(A, M)
  <2> HIDE DEF F, G, free, A, M, gaps
  <2> QED
    BY <1>4, <1>5, <1>6, <1>7
<1>9. {Hob("SYSTEM", s.base, s.base + s.pages) : s \in acc} = {Hob("SYSTEM", x[1], x[2]) : x \in A}
  BY <1>1
<1> DEFINE H == {Hob("SYSTEM", s.base, s.base + s.pages) : s \in acc}
             \cup {Hob("UNACCEPTED", g[1], IF large /\ g[2] = q.memory THEN LowEnd ELSE g[2]) : g \in gaps}
             \cup (IF large THEN {Hob("UNACCEPTED", HighBase, HighBase + q.memory - LowEnd)} ELSE {})
<1>10. H = HobSet(A, M)
  <2> HIDE DEF A, M, gaps
  <2>1. large <=> Large(M)
    BY DEF Large, M
  <2>2. \A e : Top(M, e) = IF large /\ e = q.memory THEN LowEnd ELSE e
    BY <2>1 DEF Top, M
  <2>3. Hob("UNACCEPTED", HighBase, HighBase + q.memory - LowEnd) = High(M)
    BY DEF High, M
  <2> HIDE DEF large
  <2> QED
    BY <1>8, <1>9, <2>1, <2>2, <2>3 DEF HobSet
<1>11. MemoryMap(q) = InOrder(H)
  BY DEF MemoryMap, InOrder, Hob, acc
<1> QED
  BY <1>10, <1>11

(* The descriptors measure_td_hob writes, range by range. *)
Shown(M, r) == Hob(IF r.accepted THEN "SYSTEM" ELSE "UNACCEPTED", r.start, Top(M, r.end))
ShownRanges(M, ranges) == [i \in 1 .. Len(ranges) |-> Shown(M, ranges[i])]
ShownMap(M, ranges) ==
    ShownRanges(M, ranges) \o (IF Large(M) THEN <<High(M)>> ELSE <<>>)

LEMMA ShownIsSet ==
    ASSUME NEW M \in Nat \ {0}, NEW A, NEW ranges, Tiling(ranges, M, A), SpansIn(A, M)
    PROVE  {Shown(M, r) : r \in ToSet(ranges)}
             = {Hob("SYSTEM", x[1], x[2]) : x \in A}
                 \cup {Hob("UNACCEPTED", g[1], Top(M, g[2])) : g \in Gaps(A, M)}
<1> DEFINE S == ToSet(ranges)
<1>1. \A r \in S : /\ r.start \in Nat /\ r.end \in Nat /\ r.accepted \in BOOLEAN
                   /\ r = [accepted |-> r.accepted, start |-> r.start, end |-> r.end]
  BY TilesApart
<1>2. \A x \in A : x[2] # M /\ Top(M, x[2]) = x[2]
  BY DEF SpansIn, Top
<1>3. ASSUME NEW r \in S, r.accepted
      PROVE  \E x \in A : Shown(M, r) = Hob("SYSTEM", x[1], x[2])
  <2> DEFINE x == <<r.start, r.end>>
  <2>1. x \in A /\ x[1] = r.start /\ x[2] = r.end
    BY <1>3 DEF Tiling
  <2> HIDE DEF x
  <2>2. Shown(M, r) = Hob("SYSTEM", x[1], x[2])
    BY <1>2, <1>3, <2>1 DEF Shown
  <2> QED
    BY <2>1, <2>2
<1>4. ASSUME NEW x \in A PROVE \E r \in S : Shown(M, r) = Hob("SYSTEM", x[1], x[2])
  <2> DEFINE r == Taken(x[1], x[2])
  <2>1. r \in S
    BY DEF Tiling
  <2>2. r.start = x[1] /\ r.end = x[2] /\ r.accepted
    BY DEF Taken
  <2> HIDE DEF r
  <2>3. Shown(M, r) = Hob("SYSTEM", x[1], x[2])
    BY <1>2, <2>2 DEF Shown
  <2> QED
    BY <2>1, <2>3
<1>5. ASSUME NEW r \in S, ~r.accepted
      PROVE  \E g \in Gaps(A, M) : Shown(M, r) = Hob("UNACCEPTED", g[1], Top(M, g[2]))
  <2> DEFINE g == <<r.start, r.end>>
  <2>1. r = Free(r.start, r.end)
    BY <1>1, <1>5 DEF Free
  <2>2. Gap(A, M, r.start, r.end)
    BY <2>1, GapsAreFree
  <2>3. g[1] = r.start /\ g[2] = r.end
    OBVIOUS
  <2>4. g \in Gaps(A, M)
    BY <2>2 DEF Gaps, Gap
  <2>5. Shown(M, r) = Hob("UNACCEPTED", g[1], Top(M, g[2]))
    BY <1>5, <2>3 DEF Shown
  <2> QED
    BY <2>4, <2>5
<1>6. ASSUME NEW g \in Gaps(A, M)
      PROVE  \E r \in S : Shown(M, r) = Hob("UNACCEPTED", g[1], Top(M, g[2]))
  <2> DEFINE r == Free(g[1], g[2])
  <2>1. Gap(A, M, g[1], g[2])
    BY DEF Gaps
  <2>2. r \in S
    BY <2>1, GapsAreFree
  <2>3. r.start = g[1] /\ r.end = g[2] /\ ~r.accepted
    BY DEF Free
  <2> HIDE DEF r
  <2>4. Shown(M, r) = Hob("UNACCEPTED", g[1], Top(M, g[2]))
    BY <2>3 DEF Shown
  <2> QED
    BY <2>2, <2>4
<1> HIDE DEF S
<1>7. \A r \in S : r.accepted \/ ~r.accepted
  OBVIOUS
<1>8. {Shown(M, r) : r \in S}
        = {Hob("SYSTEM", x[1], x[2]) : x \in A}
            \cup {Hob("UNACCEPTED", g[1], Top(M, g[2])) : g \in Gaps(A, M)}
  BY <1>3, <1>4, <1>5, <1>6, <1>7
<1> QED
  BY <1>8 DEF S

(* ... which are the memory map, in its order. *)
LEMMA ShownInOrder ==
    ASSUME NEW M \in Nat \ {0}, NEW A, NEW ranges, Tiling(ranges, M, A), SpansIn(A, M),
           Large(M) => ranges[Len(ranges)].start < LowEnd
    PROVE  /\ Rising(ShownMap(M, ranges)) /\ ToSet(ShownMap(M, ranges)) = HobSet(A, M)
           /\ ShownMap(M, ranges) \in Seq(HobSet(A, M))
           /\ \A x \in HobSet(A, M) : x.start \in Nat
<1> DEFINE n == Len(ranges)
           mid == ShownRanges(M, ranges)
           S == ToSet(ranges)
           Mid == {Shown(M, r) : r \in S}
           end == IF Large(M) THEN <<High(M)>> ELSE <<>>
           End == IF Large(M) THEN {High(M)} ELSE {}
           H == Mid \cup End
           h == mid \o end
<1>1. HobSet(A, M) = H
  BY ShownIsSet DEF HobSet
<1>2. /\ n \in Nat \ {0} /\ ranges[n].end = M
      /\ \A i \in 1 .. n - 1 : ranges[i].start < ranges[n].start
  BY LastRange
<1>3. ranges \in Seq(RangeSet)
  BY DEF Tiling
<1>4. S = {ranges[i] : i \in 1 .. n}
  BY <1>3, ElementsOf
<1>5. \A r \in S : r.start \in Nat /\ r.end \in Nat
  BY TilesApart
<1>6. \A r \in S : r.start < r.end
  BY DEF Tiling
<1>7. \A i, j \in 1 .. n : i < j => ranges[i].end <= ranges[j].start
  BY DEF Tiling, Ordered, Below
<1>8. \A i \in 1 .. n : ranges[i] \in S
  BY <1>4
<1> HIDE DEF n, S
<1>9. \A i, j \in 1 .. n : i < j => ranges[i].start < ranges[j].start
  <2> SUFFICES ASSUME NEW i \in 1 .. n, NEW j \in 1 .. n, i < j
               PROVE  ranges[i].start < ranges[j].start
    OBVIOUS
  <2>1. /\ ranges[i].start \in Nat /\ ranges[i].end \in Nat /\ ranges[i].start < ranges[i].end
        /\ ranges[j].start \in Nat
    BY <1>5, <1>6, <1>8
  <2>2. ranges[i].end <= ranges[j].start
    BY <1>7
  <2> QED
    BY <2>1, <2>2
<1>10. \A r : Shown(M, r).start = r.start
  BY DEF Shown, Hob
<1>11. High(M).start = HighBase /\ HighBase \in Nat /\ LowEnd \in Nat /\ LowEnd < HighBase
  BY MemoryAssumption DEF High, Hob
<1>12. mid = [i \in 1 .. n |-> Shown(M, ranges[i])]
  BY DEF ShownRanges, n
<1>13. /\ mid \in [1 .. n -> H] /\ \A i \in 1 .. n : mid[i] = Shown(M, ranges[i])
  BY <1>8, <1>12
<1>14. mid \in Seq(H) /\ Len(mid) = n
  BY <1>2, <1>13, FunIsSeq
<1> HIDE DEF mid
<1>15. \A i \in 1 .. n : mid[i].start = ranges[i].start
  BY <1>10, <1>13
<1>16. ToSet(mid) = Mid
  <2>1. ToSet(mid) = {mid[i] : i \in 1 .. n}
    BY <1>14, ElementsOf
  <2> QED
    BY <1>4, <1>13, <2>1
<1>17. \A x \in H : x.start \in Nat
  <2>1. \A r \in S : Shown(M, r).start \in Nat
    BY <1>5, <1>10
  <2> QED
    BY <1>11, <2>1
<1> HIDE DEF Mid
<1>18. CASE ~Large(M)
  <2>1. h = mid
    BY <1>14, <1>18
  <2>2. H = Mid
    BY <1>18
  <2>3. Rising(mid)
    BY <1>9, <1>14, <1>15 DEF Rising
  <2>4. ShownMap(M, ranges) = mid
    BY <2>1 DEF ShownMap, mid
  <2> QED
    BY <1>1, <1>14, <1>16, <1>17, <2>2, <2>3, <2>4
<1>19. CASE Large(M)
  <2> DEFINE y == High(M)
  <2>1. h = mid \o <<y>> /\ H = Mid \cup {y} /\ y \in H
    BY <1>19
  <2> HIDE DEF y, h, H
  <2>2. <<y>> \in Seq(H) /\ Len(<<y>>) = 1 /\ <<y>>[1] = y
    BY <2>1, ShortSeqs
  <2>3. /\ h \in Seq(H) /\ Len(h) = n + 1
        /\ \A i \in 1 .. n : h[i] = mid[i]
        /\ \A i \in 1 .. 1 : h[n + i] = <<y>>[i]
    BY <1>14, <2>1, <2>2, ConcatFacts
  <2>4. h[n + 1] = y
    BY <2>2, <2>3
  <2>5. \A i \in 1 .. n : h[i].start = ranges[i].start /\ h[i].start < y.start
    <3>1. n \in 1 .. n
      BY <1>2
    <3>2. ranges[n].start < LowEnd
      BY <1>19 DEF n
    <3> SUFFICES ASSUME NEW i \in 1 .. n PROVE ranges[i].start < y.start
      BY <1>15, <2>3
    <3>3. i = n \/ ranges[i].start < ranges[n].start
      BY <1>2
    <3>4. ranges[i].start \in Nat /\ ranges[n].start \in Nat
      BY <1>5, <1>8, <3>1
    <3>5. ranges[i].start < LowEnd
      BY <1>11, <3>2, <3>3, <3>4
    <3> QED
      BY <1>11, <3>4, <3>5 DEF y
  <2>6. Rising(h)
    <3> SUFFICES ASSUME NEW i \in 1 .. n + 1, NEW j \in 1 .. n + 1, i < j
                 PROVE  h[i].start < h[j].start
      BY <2>3 DEF Rising
    <3>1. i \in 1 .. n /\ (j \in 1 .. n \/ j = n + 1)
      BY <1>2
    <3> QED
      BY <1>9, <2>4, <2>5, <3>1
  <2>7. ToSet(h) = H
    <3>1. ToSet(h) = {h[i] : i \in 1 .. n + 1}
      BY <2>3, ElementsOf
    <3>2. 1 .. n + 1 = (1 .. n) \cup {n + 1}
      BY <1>2
    <3>3. ToSet(mid) = {mid[i] : i \in 1 .. n}
      BY <1>14, ElementsOf
    <3> QED
      <4>1. ToSet(h) = {h[i] : i \in 1 .. n} \cup {h[n + 1]}
        BY <3>1, <3>2
      <4>2. {h[i] : i \in 1 .. n} = {mid[i] : i \in 1 .. n}
        BY <2>3
      <4>3. ToSet(h) = ToSet(mid) \cup {y}
        BY <2>4, <3>3, <4>1, <4>2
      <4> QED
        BY <1>16, <2>1, <4>3
  <2>8. ShownMap(M, ranges) = h
    BY DEF ShownMap, mid, h
  <2> QED
    BY <1>1, <1>17, <2>3, <2>6, <2>7, <2>8
<1> QED
  BY <1>18, <1>19

LEMMA FrontThenLast ==
    ASSUME NEW S, NEW m \in Seq(S), Len(m) \in Nat \ {0}, NEW a \in Seq(S), Len(a) = Len(m) - 1,
           \A i \in 1 .. Len(m) - 1 : a[i] = m[i], NEW y \in S
    PROVE  a \o <<m[Len(m)]>> = m /\ a \o <<m[Len(m)], y>> = m \o <<y>>
<1> DEFINE n == Len(m)
           z == m[n]
<1>1. n \in Nat \ {0} /\ z \in S /\ n - 1 \in Nat
  OBVIOUS
<1>2. a \o <<z>> = m
  <2>1. <<z>> \in Seq(S) /\ Len(<<z>>) = 1 /\ <<z>>[1] = z
    BY <1>1, ShortSeqs
  <2> DEFINE b == <<z>>
             c == a \o b
  <2> HIDE DEF b
  <2>2. /\ c \in Seq(S) /\ Len(c) = n - 1 + 1
        /\ \A i \in 1 .. n - 1 : c[i] = a[i]
        /\ \A i \in 1 .. 1 : c[n - 1 + i] = b[i]
    BY <2>1, ConcatFacts DEF b
  <2> HIDE DEF c
  <2>3. c[n - 1 + 1] = z
    BY <2>1, <2>2 DEF b
  <2> HIDE DEF z
  <2>4. Len(c) = n /\ c[n] = z
    BY <1>1, <2>2, <2>3
  <2>5. \A i \in 1 .. n : c[i] = m[i]
    <3> SUFFICES ASSUME NEW i \in 1 .. n PROVE c[i] = m[i]
      OBVIOUS
    <3>1. i \in 1 .. n - 1 \/ i = n
      BY <1>1
    <3> QED
      BY <2>2, <2>4, <3>1 DEF z
  <2>6. c = m
    BY <2>2, <2>4, <2>5, SeqEqual
  <2> QED
    BY <2>6 DEF c, b
<1>3. a \o <<z, y>> = m \o <<y>>
  <2>1. <<z, y>> = <<z>> \o <<y>>
    OBVIOUS
  <2>2. <<z>> \in Seq(S) /\ <<y>> \in Seq(S)
    BY <1>1, ShortSeqs
  <2> DEFINE b == <<z>>
             d == <<y>>
  <2> HIDE DEF b, d, z
  <2>3. a \o (b \o d) = (a \o b) \o d
    <3>1. a \in Seq(S) /\ b \in Seq(S) /\ d \in Seq(S)
      BY <2>2 DEF b, d
    <3>2. Cat(Cat(a, b), d) = Cat(a, Cat(b, d))
      BY <3>1, CatAssociates
    <3> QED
      BY <3>2 DEF Cat
  <2>4. a \o b = m
    BY <1>2 DEF b
  <2> QED
    BY <2>1, <2>3, <2>4 DEF b, d
<1> QED
  BY <1>2, <1>3

LEMMA TdHobShown ==
    ASSUME NEW p, Boots_(p)
    PROVE  /\ SpansIn(SpansOf(p), Platforms[p].memory)
           /\ TdHob(p) = <<"hob", HobBase(Platforms[p].fw),
                           ShownMap(Platforms[p].memory, Ranges[p])>>
<1> DEFINE M == Platforms[p].memory
           A == SpansOf(p)
           R == Ranges[p]
           n == Len(R)
           mid == ShownRanges(M, R)
           front == Front(R)
           a == [i \in DOMAIN front |->
                   ResourceHob(front[i].accepted, front[i].start, front[i].end - front[i].start)]
           last == Last(R)
<1>1. M \in Nat \ {0} /\ Tiling(R, M, A)
  BY MachineFacts, RangesTile
<1>2. SpansIn(A, M)
  <2> SUFFICES ASSUME NEW s \in ToSet(Platforms[p].fw.sections), Accepted(s)
               PROVE  /\ Span(s)[1] \in Nat /\ Span(s)[2] \in Nat
                      /\ Span(s)[1] < Span(s)[2] /\ Span(s)[2] < M
    BY DEF SpansIn, SpansOf
  <2>1. /\ s.base \in Nat /\ s.pages \in Nat /\ s.base + s.pages < M
    BY MachineFacts
  <2>2. s.pages > 0
    BY DEF Accepted
  <2> QED
    BY <2>1, <2>2 DEF Span
<1>3. /\ n \in Nat \ {0} /\ R[n].end = M /\ ~R[n].accepted /\ \A i \in 1 .. n - 1 : R[i].end < M
  BY <1>1, <1>2, LastRange
<1>4. R \in Seq(RangeSet)
  BY <1>1 DEF Tiling
<1>5. \A i \in 1 .. n : R[i].end \in Nat
  <2>1. \A r \in RangeSet : r.end \in Nat
    BY DEF RangeSet
  <2>2. \A i \in 1 .. n : R[i] \in RangeSet
    BY <1>4
  <2> QED
    BY <2>1, <2>2
<1> HIDE DEF M, R
<1>6. last = R[n]
  BY DEF Last
<1>7. DOMAIN front = 1 .. n - 1 /\ \A i \in 1 .. n - 1 : front[i] = R[i]
  BY <1>3, <1>4 DEF Front
<1> HIDE DEF front, n, last
<1>8. \A i \in 1 .. n - 1 : a[i] = Shown(M, R[i])
  <2> SUFFICES ASSUME NEW i \in 1 .. n - 1 PROVE a[i] = Shown(M, R[i])
    OBVIOUS
  <2>1. R[i].end < M /\ R[i].end \in Nat
    BY <1>3, <1>5
  <2>2. Top(M, R[i].end) = R[i].end
    BY <1>1, <2>1 DEF Top
  <2>3. a[i] = ResourceHob(R[i].accepted, R[i].start, R[i].end - R[i].start)
    BY <1>7
  <2> QED
    BY <2>2, <2>3 DEF ResourceHob, Shown, Hob
<1> DEFINE S == {Shown(M, R[i]) : i \in 1 .. n} \cup {High(M)}
<1>9. mid \in [1 .. n -> S] /\ \A i \in 1 .. n : mid[i] = Shown(M, R[i])
  BY DEF ShownRanges, n
<1>10. mid \in Seq(S) /\ Len(mid) = n
  BY <1>3, <1>9, FunIsSeq
<1>11. a \in [1 .. n - 1 -> S]
  <2>1. \A i \in 1 .. n - 1 : i \in 1 .. n
    BY <1>3
  <2> QED
    BY <1>7, <1>8, <2>1
<1>12. a \in Seq(S) /\ Len(a) = n - 1
  <2>1. n - 1 \in Nat
    BY <1>3
  <2> HIDE DEF a, S
  <2> QED
    BY <1>11, <2>1, FunIsSeq
<1>13. mid[n] = Shown(M, R[n])
  BY <1>3, <1>9
<1> HIDE DEF a, mid
<1>14. a \o <<mid[n]>> = mid /\ a \o <<mid[n], High(M)>> = mid \o <<High(M)>>
  <2>1. \A i \in 1 .. n - 1 : a[i] = mid[i]
    BY <1>3, <1>8, <1>9
  <2>2. High(M) \in S
    OBVIOUS
  <2> HIDE DEF S
  <2>3. Len(mid) \in Nat \ {0} /\ Len(a) = Len(mid) - 1 /\ \A i \in 1 .. Len(mid) - 1 : a[i] = mid[i]
    BY <1>3, <1>10, <1>12, <2>1
  <2> DEFINE y == High(M)
  <2> HIDE DEF y
  <2>4. y \in S /\ mid \in Seq(S) /\ a \in Seq(S)
    BY <1>10, <1>12, <2>2 DEF y
  <2>5. a \o <<mid[Len(mid)]>> = mid /\ a \o <<mid[Len(mid)], y>> = mid \o <<y>>
    BY <2>3, <2>4, FrontThenLast
  <2> QED
    BY <1>10, <2>5 DEF y
<1> DEFINE tail == IF M >= SplitFrom
                   THEN <<ResourceHob(FALSE, last.start, LowEnd - last.start),
                          ResourceHob(FALSE, HighBase, last.end - LowEnd)>>
                   ELSE <<ResourceHob(FALSE, last.start, last.end - last.start)>>
<1>15. a \o tail = ShownMap(M, R)
  <2>1. CASE Large(M)
    <3>1. ResourceHob(FALSE, last.start, LowEnd - last.start) = mid[n]
      BY <1>3, <1>6, <1>13, <2>1 DEF ResourceHob, Shown, Hob, Top
    <3>2. last.end - LowEnd = (HighBase + M - LowEnd) - HighBase
      <4>1. last.end = M /\ M \in Nat
        BY <1>1, <1>3, <1>6
      <4>2. LowEnd \in Nat /\ HighBase \in Nat
        BY MemoryAssumption
      <4>3. M - LowEnd = (HighBase + M - LowEnd) - HighBase
        BY <4>1, <4>2
      <4> QED
        BY <4>1, <4>3
    <3>3. ResourceHob(FALSE, HighBase, last.end - LowEnd) = High(M)
      BY <3>2 DEF ResourceHob, High, Hob
    <3>4. tail = <<mid[n], High(M)>>
      BY <2>1, <3>1, <3>3 DEF Large
    <3>5. ShownMap(M, R) = mid \o <<High(M)>>
      BY <2>1 DEF ShownMap, mid
    <3> QED
      BY <1>14, <3>4, <3>5
  <2>2. CASE ~Large(M)
    <3>1. ResourceHob(FALSE, last.start, last.end - last.start) = mid[n]
      BY <1>3, <1>6, <1>13, <2>2 DEF ResourceHob, Shown, Hob, Top
    <3>2. tail = <<mid[n]>>
      BY <2>2, <3>1 DEF Large
    <3>3. ShownMap(M, R) = mid \o <<>>
      BY <2>2 DEF ShownMap, mid
    <3>4. mid \o <<>> = mid
      BY <1>10
    <3> QED
      BY <1>14, <3>2, <3>3, <3>4
  <2> QED
    BY <2>1, <2>2
<1>16. TdHob(p) = <<"hob", HobBase(Platforms[p].fw), a \o tail>>
  BY DEF TdHob, a, front, last, M, R
<1> QED
  BY <1>2, <1>15, <1>16 DEF M, R

(* Of a type a machine has one section of, the code and the firmware take   *)
(* the same one.                                                            *)
LEMMA OnlySection ==
    ASSUME NEW p, Boots_(p)
    PROVE  LET fw == Platforms[p].fw
           IN  /\ HobBase(fw) = Section(Platforms[p], "TD_HOB").base
               /\ fw.sections[Cfv(fw)] = Section(Platforms[p], "TD_CFV")
<1> DEFINE fw == Platforms[p].fw
           S == fw.sections
           I(type) == {i \in 1 .. Len(S) : S[i].type = type}
<1>1. /\ DOMAIN S = 1 .. Len(S) /\ Len(S) \in Nat
      /\ ToSet(S) = {S[i] : i \in 1 .. Len(S)}
  <2>1. S \in Seq(ToSet(S)) /\ Len(S) \in Nat /\ ToSet(S) = {S[i] : i \in 1 .. Len(S)}
    BY MachineFacts
  <2> HIDE DEF S
  <2> QED
    BY <2>1
<1>2. ASSUME NEW type \in {"TD_HOB", "TD_CFV"}
      PROVE  \E k \in 1 .. Len(S) :
               I(type) = {k} /\ (CHOOSE s \in ToSet(S) : s.type = type) = S[k]
  <2>1. PICK k \in 1 .. Len(S) : \A i \in 1 .. Len(S) : S[i].type = type <=> i = k
    <3>1. p \in {b.platform : b \in Boots}
      BY DEF Boots_
    <3>2. \E k \in DOMAIN S : \A i \in DOMAIN S : S[i].type = type <=> i = k
      BY <3>1, MachineAssumption
    <3> HIDE DEF S
    <3> QED
      BY <1>1, <3>2
  <2>2. I(type) = {k}
    BY <2>1
  <2>3. S[k] \in ToSet(S) /\ S[k].type = type /\ \A s \in ToSet(S) : s.type = type => s = S[k]
    BY <1>1, <2>1
  <2> HIDE DEF S
  <2> QED
    BY <2>2, <2>3
<1>3. \A k \in Nat : Max({k}) = k /\ Min({k}) = k
  BY DEF Max, Min
<1>4. HobBase(fw) = Section(Platforms[p], "TD_HOB").base
  <2>1. PICK k \in 1 .. Len(S) :
          I("TD_HOB") = {k} /\ (CHOOSE s \in ToSet(S) : s.type = "TD_HOB") = S[k]
    BY <1>2
  <2> DEFINE l == SelectLastInSeq(S, LAMBDA s : s.type = "TD_HOB")
  <2>2. l = IF I("TD_HOB") # {} THEN Max(I("TD_HOB")) ELSE 0
    BY DEF SelectLastInSeq
  <2> HIDE DEF I, l
  <2>3. l = k /\ k # 0
    <3>1. k \in Nat /\ k # 0
      BY <1>1
    <3>2. I("TD_HOB") # {}
      BY <2>1
    <3>3. l = Max({k})
      BY <2>1, <2>2, <3>2
    <3> QED
      BY <1>3, <3>1, <3>3
  <2>4. HobBase(fw) = IF l = 0 THEN DefaultHobBase ELSE S[l].base
    BY DEF HobBase, l
  <2>5. Section(Platforms[p], "TD_HOB") = S[k]
    BY <2>1 DEF Section
  <2> QED
    BY <2>3, <2>4, <2>5
<1>5. S[Cfv(fw)] = Section(Platforms[p], "TD_CFV")
  <2>1. PICK k \in 1 .. Len(S) :
          I("TD_CFV") = {k} /\ (CHOOSE s \in ToSet(S) : s.type = "TD_CFV") = S[k]
    BY <1>2
  <2>2. Cfv(fw) = IF I("TD_CFV") # {} THEN Min(I("TD_CFV")) ELSE 0
    BY DEF Cfv, SelectInSeq
  <2> HIDE DEF I
  <2>3. Cfv(fw) = k
    <3>1. k \in Nat
      BY <1>1
    <3>2. I("TD_CFV") # {}
      BY <2>1
    <3>3. Cfv(fw) = Min({k})
      BY <2>1, <2>2, <3>2
    <3> QED
      BY <1>3, <3>1, <3>3
  <2> QED
    BY <2>1, <2>3 DEF Section
<1> QED
  BY <1>4, <1>5

(* The descriptor of memory predict measures is the memory map the VMM      *)
(* hands over.                                                              *)
LEMMA HobIsMap ==
    ASSUME NEW p, Boots_(p), HobFits(p)
    PROVE  TdHob(p) = <<"hob", Section(Platforms[p], "TD_HOB").base, MemoryMap(Platforms[p])>>
<1> DEFINE M == Platforms[p].memory
           A == SpansOf(p)
           R == Ranges[p]
           h == ShownMap(M, R)
<1>1. M \in Nat \ {0} /\ Tiling(R, M, A) /\ SpansIn(A, M)
  BY MachineFacts, RangesTile, TdHobShown
<1>2. Large(M) => R[Len(R)].start < LowEnd
  BY DEF HobFits, Large, Last
<1> HIDE DEF M, A, R
<1>3. /\ Rising(h) /\ ToSet(h) = HobSet(A, M) /\ h \in Seq(HobSet(A, M))
      /\ \A x \in HobSet(A, M) : x.start \in Nat
  BY <1>1, <1>2, ShownInOrder
<1>4. InOrder(HobSet(A, M)) = h
  <2> DEFINE H == HobSet(A, M)
  <2> HIDE DEF h, H
  <2> QED
    BY <1>3, OnlyOrder DEF H
<1>5. MemoryMap(Platforms[p]) = h
  BY <1>4, MapIsOrder DEF M, A
<1>6. HobBase(Platforms[p].fw) = Section(Platforms[p], "TD_HOB").base
  BY OnlySection
<1> QED
  BY <1>5, <1>6, TdHobShown DEF M, R

-----------------------------------------------------------------------------
(* What filters keep of parts of a sequence.                                *)

(* A sequence cut at a place. *)
LEMMA CutAt ==
    ASSUME NEW S, NEW s \in Seq(S), NEW m \in 0 .. Len(s)
    PROVE  /\ SubSeq(s, 1, m) \in Seq(S) /\ Len(SubSeq(s, 1, m)) = m
           /\ SubSeq(s, m + 1, Len(s)) \in Seq(S) /\ Len(SubSeq(s, m + 1, Len(s))) = Len(s) - m
           /\ \A i \in 1 .. m : SubSeq(s, 1, m)[i] = s[i]
           /\ \A i \in 1 .. Len(s) - m : SubSeq(s, m + 1, Len(s))[i] = s[m + i]
           /\ s = Cat(SubSeq(s, 1, m), SubSeq(s, m + 1, Len(s)))
<1> DEFINE n == Len(s)
           a == SubSeq(s, 1, m)
           b == SubSeq(s, m + 1, n)
           c == Cat(a, b)
<1>1. n \in Nat /\ m \in Nat /\ m <= n /\ \A i \in 1 .. n : s[i] \in S
  OBVIOUS
<1>2. a \in Seq(S) /\ Len(a) = m /\ \A i \in 1 .. m : a[i] = s[i]
  BY <1>1
<1>3. b \in Seq(S) /\ Len(b) = n - m /\ \A i \in 1 .. n - m : b[i] = s[m + i]
  BY <1>1
<1> HIDE DEF a, b
<1>4. /\ c \in Seq(S) /\ Len(c) = m + (n - m)
      /\ \A i \in 1 .. m : c[i] = a[i]
      /\ \A i \in 1 .. n - m : c[m + i] = b[i]
  BY <1>2, <1>3, ConcatFacts DEF Cat
<1> HIDE DEF c
<1>5. Len(c) = n
  BY <1>1, <1>4
<1>6. ASSUME NEW i \in 1 .. n PROVE c[i] = s[i]
  <2>1. CASE i <= m
    <3>1. i \in 1 .. m
      BY <2>1
    <3> QED
      BY <1>2, <1>4, <3>1
  <2>2. CASE ~(i <= m)
    <3> DEFINE j == i - m
    <3>1. j \in 1 .. n - m /\ i = m + j
      BY <1>1, <2>2
    <3> HIDE DEF j
    <3> QED
      BY <1>3, <1>4, <3>1
  <2> QED
    BY <2>1, <2>2
<1>7. s = c
  <2>1. Len(s) = Len(c) /\ \A i \in 1 .. Len(s) : s[i] = c[i]
    BY <1>5, <1>6
  <2>2. s \in Seq(S) /\ c \in Seq(S)
    BY <1>4
  <2> QED
    BY <2>1, <2>2, SeqEqual
<1> QED
  BY <1>2, <1>3, <1>7 DEF a, b, c

(* What is kept is the front, the back, or a stretch in the middle. *)
LEMMA KeepFront ==
    ASSUME NEW S, NEW s \in Seq(S), NEW V, NEW m \in 0 .. Len(s),
           \A i \in 1 .. Len(s) : s[i] \in V <=> i <= m
    PROVE  Keep(s, V) = SubSeq(s, 1, m)
<1> DEFINE n == Len(s)
           a == SubSeq(s, 1, m)
           b == SubSeq(s, m + 1, n)
<1>1. /\ a \in Seq(S) /\ Len(a) = m /\ b \in Seq(S) /\ Len(b) = n - m
      /\ \A i \in 1 .. m : a[i] = s[i]
      /\ \A i \in 1 .. n - m : b[i] = s[m + i]
      /\ s = Cat(a, b)
  BY CutAt
<1>2. n \in Nat /\ m \in Nat /\ m <= n
  OBVIOUS
<1> HIDE DEF a, b, n
<1>3. \A i \in 1 .. m : a[i] \in V
  <2>1. \A i \in 1 .. m : i \in 1 .. n /\ i <= m
    BY <1>2
  <2> QED
    BY <1>1, <2>1 DEF n
<1>4. \A i \in 1 .. n - m : b[i] \notin V
  <2>1. \A i \in 1 .. n - m : m + i \in 1 .. n /\ ~(m + i <= m)
    BY <1>2
  <2> QED
    BY <1>1, <2>1 DEF n
<1>5. Keep(a, V) = a
  BY <1>1, <1>3, KeepAll
<1>6. Keep(b, V) = <<>>
  BY <1>1, <1>4, KeepNone
<1>7. Keep(Cat(a, b), V) = Cat(a, <<>>)
  BY <1>1, <1>5, <1>6, KeepCat
<1>8. Cat(a, <<>>) = a
  BY <1>1, CatEmpty
<1> QED
  BY <1>1, <1>7, <1>8 DEF a

Stretch(s, V, l, h) == \A i \in 1 .. Len(s) : s[i] \in V <=> l < i /\ i <= h
IsStretch(s, k, l, h) == Len(k) = h - l /\ \A i \in 1 .. h - l : k[i] = s[l + i]

LEMMA KeepStretch ==
    ASSUME NEW S, NEW s \in Seq(S), NEW V, NEW l \in Nat, NEW h \in l .. Len(s),
           Stretch(s, V, l, h)
    PROVE  Keep(s, V) \in Seq(S) /\ IsStretch(s, Keep(s, V), l, h)
<1> USE DEF Stretch, IsStretch
<1> DEFINE n == Len(s)
           a == SubSeq(s, 1, l)
           b == SubSeq(s, l + 1, n)
           m == h - l
           c == SubSeq(b, 1, m)
<1>1. n \in Nat /\ l \in 0 .. n /\ h \in Nat /\ l <= h /\ h <= n /\ m \in Nat /\ h = l + m
  OBVIOUS
<1>2. /\ a \in Seq(S) /\ Len(a) = l /\ b \in Seq(S) /\ Len(b) = n - l
      /\ \A i \in 1 .. l : a[i] = s[i]
      /\ \A i \in 1 .. n - l : b[i] = s[l + i]
      /\ s = Cat(a, b)
  BY <1>1, CutAt
<1> HIDE DEF a, b, n, m
<1>3. \A i \in 1 .. l : a[i] \notin V
  <2>1. \A i \in 1 .. l : i \in 1 .. n /\ ~(l < i)
    BY <1>1
  <2> QED
    BY <1>2, <2>1 DEF n
<1>4. \A i \in 1 .. n - l : b[i] \in V <=> i <= m
  <2>1. \A i \in 1 .. n - l : l + i \in 1 .. n /\ l < l + i /\ (l + i <= h <=> i <= m)
    BY <1>1
  <2>2. \A i \in 1 .. n : s[i] \in V <=> l < i /\ i <= h
    BY DEF n
  <2> QED
    BY <1>2, <2>1, <2>2
<1>5. m \in 0 .. Len(b)
  BY <1>1, <1>2
<1>6. Keep(b, V) = c
  <2>1. \A i \in 1 .. Len(b) : b[i] \in V <=> i <= m
    BY <1>2, <1>4
  <2>2. b \in Seq(S)
    BY <1>2
  <2> QED
    BY <1>5, <2>1, <2>2, KeepFront
<1>7. c \in Seq(S) /\ Len(c) = m /\ \A i \in 1 .. m : c[i] = b[i]
  BY <1>2, <1>5, CutAt
<1> HIDE DEF c
<1>8. Keep(a, V) = <<>>
  BY <1>2, <1>3, KeepNone
<1>9. Keep(s, V) = Cat(<<>>, c)
  BY <1>2, <1>6, <1>8, KeepCat
<1>10. Cat(<<>>, c) = c
  BY <1>7, CatEmpty
<1>11. \A i \in 1 .. m : i \in 1 .. n - l
  BY <1>1
<1>12. Keep(s, V) = c
  BY <1>9, <1>10
<1>13. \A i \in 1 .. m : c[i] = s[l + i]
  BY <1>2, <1>7, <1>11
<1> QED
  BY <1>7, <1>12, <1>13 DEF m

-----------------------------------------------------------------------------
(* MRTD and the registers of the image.                                     *)

LEMMA MrtdIsLaunch ==
    ASSUME NEW p, Boots_(p)
    PROVE  Mrtd(Platforms[p].fw) = Launch(Platforms[p].fw)
<1> DEFINE fw == Platforms[p].fw
           sections == fw.sections
           page(s, i) == IF i <= s.raw THEN fw.bytes[s.off + i] ELSE 0
           added(s, i) == IF s.aug THEN <<>> ELSE <<[add |-> s.base + i - 1]>>
           one(s, i) == added(s, i) \o (IF s.extend THEN <<[extend |-> s.base + i - 1, data |-> fw.bytes[s.off + i]]>>
                                                    ELSE <<>>)
           two(s, i) == added(s, i) \o (IF s.extend THEN <<[extend |-> s.base + i - 1, data |-> page(s, i)]>>
                                                    ELSE <<>>)
           A == [k \in DOMAIN sections |-> FlattenSeq([i \in 1 .. sections[k].pages |-> one(sections[k], i)])]
           B == [k \in DOMAIN sections |-> FlattenSeq([i \in 1 .. sections[k].pages |-> two(sections[k], i)])]
<1>1. /\ \A s \in ToSet(sections) : s.pages \in Nat /\ (s.extend => s.raw = s.pages)
      /\ sections \in Seq(ToSet(sections))
  BY MachineFacts
<1>2. ASSUME NEW k \in DOMAIN sections, NEW i \in 1 .. sections[k].pages
      PROVE  one(sections[k], i) = two(sections[k], i)
  <2> DEFINE s == sections[k]
  <2>1. s.pages \in Nat /\ (s.extend => s.raw = s.pages)
    BY <1>1
  <2>2. s.extend => i <= s.raw
    BY <2>1
  <2>3. s.extend => page(s, i) = fw.bytes[s.off + i]
    BY <2>2
  <2> HIDE DEF added, page, s
  <2>4. one(s, i) = two(s, i)
    BY <2>3, SMTT(40)
  <2> QED
    BY <2>4 DEF s, page
<1> HIDE DEF one, two
<1>3. ASSUME NEW k \in DOMAIN sections
      PROVE  [i \in 1 .. sections[k].pages |-> one(sections[k], i)]
               = [i \in 1 .. sections[k].pages |-> two(sections[k], i)]
  BY <1>2
<1>4. \A k \in DOMAIN sections : A[k] = B[k]
  BY <1>3
<1>5. A = B
  BY <1>4
<1>6. Mrtd(fw) = FlattenSeq(A)
  BY DEF Mrtd, one, added
<1>7. Launch(fw) = FlattenSeq(B)
  BY DEF Launch, two, added, page
<1> QED
  BY <1>5, <1>6, <1>7

LEMMA DigestsCat ==
    ASSUME NEW R, NEW a \in Seq(R), NEW b \in Seq(R)
    PROVE  Digests(Cat(a, b)) = Cat(Digests(a), Digests(b))
<1> DEFINE D == {r.digest : r \in R}
           c == Cat(a, b)
           m == Len(a)
           n == Len(b)
           x == Digests(a)
           y == Digests(b)
           z == Digests(c)
           w == Cat(x, y)
<1>1. /\ c \in Seq(R) /\ Len(c) = m + n /\ m \in Nat /\ n \in Nat
      /\ \A i \in 1 .. m : c[i] = a[i]
      /\ \A i \in 1 .. n : c[m + i] = b[i]
  BY ConcatFacts DEF Cat
<1>2. x \in Seq(D) /\ Len(x) = m /\ \A i \in 1 .. m : x[i] = a[i].digest
  BY DigestsOf
<1>3. y \in Seq(D) /\ Len(y) = n /\ \A i \in 1 .. n : y[i] = b[i].digest
  BY DigestsOf
<1> HIDE DEF c, D, x, y, m, n
<1>4. z \in Seq(D) /\ Len(z) = m + n /\ \A i \in 1 .. m + n : z[i] = c[i].digest
  <2>1. z \in Seq(D) /\ Len(z) = Len(c) /\ \A i \in 1 .. Len(c) : z[i] = c[i].digest
    BY <1>1, DigestsOf DEF D
  <2> QED
    BY <1>1, <2>1
<1> HIDE DEF z
<1>5. /\ w \in Seq(D) /\ Len(w) = m + n
      /\ \A i \in 1 .. m : w[i] = x[i]
      /\ \A i \in 1 .. n : w[m + i] = y[i]
  <2>1. x \in Seq(D) /\ y \in Seq(D)
    BY <1>2, <1>3
  <2>2. /\ w \in Seq(D) /\ Len(w) = Len(x) + Len(y)
        /\ \A i \in 1 .. Len(x) : w[i] = x[i]
        /\ \A i \in 1 .. Len(y) : w[Len(x) + i] = y[i]
    BY <2>1, ConcatFacts DEF Cat
  <2>3. Len(x) = m /\ Len(y) = n
    BY <1>2, <1>3
  <2> HIDE DEF w
  <2> QED
    BY <2>2, <2>3
<1> HIDE DEF w
<1>6. ASSUME NEW i \in 1 .. m + n PROVE z[i] = w[i]
  <2>1. CASE i <= m
    <3>1. i \in 1 .. m
      BY <1>1, <2>1
    <3>2. z[i] = a[i].digest
      BY <1>1, <1>4, <3>1
    <3>3. w[i] = a[i].digest
      BY <1>2, <1>5, <3>1
    <3> QED
      BY <3>2, <3>3
  <2>2. CASE ~(i <= m)
    <3> DEFINE j == i - m
    <3>1. j \in 1 .. n /\ i = m + j
      BY <1>1, <2>2
    <3> HIDE DEF j
    <3> QED
      BY <1>1, <1>3, <1>4, <1>5, <3>1, SMTT(40)
  <2> QED
    BY <2>1, <2>2
<1>7. Len(z) = Len(w) /\ \A i \in 1 .. Len(z) : z[i] = w[i]
  BY <1>4, <1>5, <1>6
<1>8. z \in Seq(D) /\ w \in Seq(D)
  BY <1>4, <1>5
<1>9. z = w
  BY <1>7, <1>8, SeqEqual
<1> QED
  BY <1>9 DEF z, w, x, y, c

(* The digests of sequences put one after the other. *)
EachDigests(f) == [i \in 1 .. Len(f) |-> Digests(f[i])]

LEMMA DigestsFlat ==
    ASSUME NEW R, NEW f \in Seq(Seq(R))
    PROVE  Digests(FlattenSeq(f)) = FlattenSeq(EachDigests(f))
<1> DEFINE D == {r.digest : r \in R}
           T == {g \in Seq(Seq(R)) : Digests(FlattenSeq(g)) = FlattenSeq(EachDigests(g))}
<1>0. \A s \in Seq(R) : Digests(s) \in Seq(D)
  BY DigestsOf
<1> HIDE DEF D
<1>1. <<>> \in T
  <2>1. <<>> \in Seq(Seq(R)) /\ Len(<<>>) = 0
    BY ShortSeqs
  <2>2. EachDigests(<<>>) = <<>>
    BY <2>1 DEF EachDigests
  <2>3. FlattenSeq(<<>>) = <<>>
    BY DEF FlattenSeq
  <2>4. Digests(<<>>) = <<>>
    BY DEF Digests
  <2> QED
    BY <2>1, <2>2, <2>3, <2>4
<1>2. ASSUME NEW g \in Seq(Seq(R)), g \in T, NEW s \in Seq(R) PROVE Append(g, s) \in T
  <2> DEFINE h == Append(g, s)
             n == Len(g)
             e == EachDigests(g)
             d == Digests(s)
  <2>1. /\ h \in Seq(Seq(R)) /\ Len(h) = n + 1 /\ n \in Nat /\ h[n + 1] = s
        /\ \A i \in 1 .. n : h[i] = g[i] /\ g[i] \in Seq(R)
    <3> DEFINE U == Seq(R)
    <3> HIDE DEF U
    <3>1. g \in Seq(U) /\ s \in U
      BY DEF U
    <3>2. /\ h \in Seq(U) /\ Len(h) = n + 1 /\ n \in Nat /\ h[n + 1] = s
          /\ \A i \in 1 .. n : h[i] = g[i] /\ g[i] \in U
      BY <3>1
    <3> QED
      BY <3>2 DEF U
  <2> HIDE DEF h, n
  <2>2. e \in [1 .. n -> Seq(D)] /\ \A i \in 1 .. n : e[i] = Digests(g[i])
    BY <1>0, <2>1 DEF EachDigests, n
  <2>3. d \in Seq(D)
    BY <1>0
  <2> DEFINE U == Seq(D)
  <2> HIDE DEF U, e, d
  <2>4. e \in Seq(U) /\ Len(e) = n
    BY <2>1, <2>2, FunIsSeq DEF U
  <2> DEFINE a == EachDigests(h)
             b == Append(e, d)
  <2>5. a = [i \in 1 .. n + 1 |-> Digests(h[i])]
    BY <2>1 DEF EachDigests
  <2>6. d \in U
    BY <2>3 DEF U
  <2>7. b \in Seq(U) /\ Len(b) = n + 1 /\ b[n + 1] = d /\ \A i \in 1 .. n : b[i] = e[i]
    <3>1. e \in Seq(U) /\ d \in U
      BY <2>4, <2>6
    <3>2. /\ b \in Seq(U) /\ Len(b) = Len(e) + 1 /\ b[Len(e) + 1] = d
          /\ \A i \in 1 .. Len(e) : b[i] = e[i]
      BY <3>1
    <3>3. Len(e) = n
      BY <2>4
    <3> HIDE DEF b
    <3> QED
      BY <3>2, <3>3
  <2>8. b \in [1 .. n + 1 -> U]
    <3> HIDE DEF b
    <3>1. b \in Seq(U) /\ Len(b) = n + 1
      BY <2>7
    <3>2. DOMAIN b = 1 .. Len(b) /\ b \in [1 .. Len(b) -> U]
      BY <3>1
    <3> QED
      BY <3>1, <3>2
  <2> HIDE DEF b
  <2>9. \A i \in 1 .. n + 1 : b[i] = Digests(h[i])
    <3>1. \A i \in 1 .. n + 1 : i \in 1 .. n \/ i = n + 1
      BY <2>1
    <3> QED
      BY <2>1, <2>2, <2>7, <3>1 DEF d
  <2>10. a = b
    BY <2>5, <2>8, <2>9
  <2>11. FlattenSeq(b) = FlattenSeq(e) \o d
    BY <2>3, <2>4, FlatAppend DEF U, b
  <2>12. FlattenSeq(h) = FlattenSeq(g) \o s
    BY FlatAppend DEF h
  <2>13. FlattenSeq(g) \in Seq(R)
    BY FlatType
  <2>14. Digests(FlattenSeq(g) \o s) = Digests(FlattenSeq(g)) \o d
    BY <2>13, DigestsCat DEF Cat, d
  <2>15. Digests(FlattenSeq(g)) = FlattenSeq(e)
    BY <1>2 DEF e
  <2>16. Digests(FlattenSeq(h)) = FlattenSeq(a)
    BY <2>10, <2>11, <2>12, <2>14, <2>15
  <2> QED
    BY <2>1, <2>16 DEF h
<1>3. Seq(Seq(R)) \subseteq T
  <2> DEFINE U == Seq(R)
  <2>1. <<>> \in T /\ \A g \in Seq(U) : g \in T => \A s \in U : Append(g, s) \in T
    BY <1>1, <1>2
  <2> HIDE DEF U, T
  <2>2. Seq(U) \subseteq T
    BY <2>1, SeqInduction
  <2> QED
    BY <2>2 DEF U
<1> QED
  BY <1>3

(* Of, block by block. *)
LEMMA OfBlocks ==
    ASSUME NEW R, NEW a \in Seq(R), NEW b \in Seq(R), NEW i
    PROVE  /\ Of(i, Cat(a, b)) = Cat(Of(i, a), Of(i, b))
           /\ (\A r \in R : r.mr = i + 1) => Of(i, a) = Digests(a)
           /\ (\A r \in R : r.mr # i + 1) => Of(i, a) = <<>>
<1> DEFINE V == Mr(R, i)
<1>1. \A s \in Seq(R) : Of(i, s) = Digests(Keep(s, V))
  BY OfIsKept
<1>2. \A r \in R : r \in V <=> r.mr = i + 1
  BY DEF Mr
<1>3. \A j \in 1 .. Len(a) : a[j] \in R
  OBVIOUS
<1> HIDE DEF V
<1>4. Of(i, Cat(a, b)) = Cat(Of(i, a), Of(i, b))
  <2>1. Cat(a, b) \in Seq(R)
    BY CatType
  <2>2. Keep(Cat(a, b), V) = Cat(Keep(a, V), Keep(b, V))
    BY KeepCat
  <2>3. Keep(a, V) \in Seq(R) /\ Keep(b, V) \in Seq(R)
    BY KeepType
  <2>4. Digests(Cat(Keep(a, V), Keep(b, V))) = Cat(Digests(Keep(a, V)), Digests(Keep(b, V)))
    BY <2>3, DigestsCat
  <2> QED
    BY <1>1, <2>1, <2>2, <2>4
<1>5. (\A r \in R : r.mr = i + 1) => Of(i, a) = Digests(a)
  <2> HAVE \A r \in R : r.mr = i + 1
  <2>1. \A j \in 1 .. Len(a) : a[j] \in V
    BY <1>2, <1>3
  <2>2. Keep(a, V) = a
    BY <2>1, KeepAll
  <2> QED
    BY <1>1, <2>2
<1>6. (\A r \in R : r.mr # i + 1) => Of(i, a) = <<>>
  <2> HAVE \A r \in R : r.mr # i + 1
  <2>1. \A j \in 1 .. Len(a) : a[j] \notin V
    BY <1>2, <1>3
  <2>2. Keep(a, V) = <<>>
    BY <2>1, KeepNone
  <2>3. Digests(<<>>) = <<>>
    BY DEF Digests
  <2> QED
    BY <1>1, <2>2, <2>3
<1> QED
  BY <1>4, <1>5, <1>6

(* The command line, which loses what is blank at its end. *)
LEMMA LineIsFront ==
    ASSUME NEW S, NEW bytes \in Seq(S), NEW B, NEW m \in 0 .. Len(bytes),
           m > 0 => bytes[m] \notin B,
           \A i \in m + 1 .. Len(bytes) : bytes[i] \in B
    PROVE  Line(bytes, B) = SubSeq(bytes, 1, m)
<1> DEFINE n == Len(bytes)
           P(k) == (k > 0 => bytes[k] \notin B) /\ \A i \in k + 1 .. n : bytes[i] \in B
<1>1. n \in Nat /\ m \in 0 .. n /\ P(m)
  OBVIOUS
<1>2. ASSUME NEW k \in 0 .. n, P(k) PROVE k = m
  <2>1. CASE k < m
    <3>1. m \in k + 1 .. n /\ m > 0
      BY <1>1, <2>1
    <3> QED
      BY <1>1, <1>2, <3>1
  <2>2. CASE m < k
    <3>1. k \in m + 1 .. n /\ k > 0
      BY <1>1, <2>2
    <3> QED
      BY <1>1, <1>2, <3>1
  <2>3. k < m \/ m < k \/ k = m
    BY <1>1
  <2> QED
    BY <2>1, <2>2, <2>3
<1>3. Line(bytes, B) = SubSeq(bytes, 1, CHOOSE k \in 0 .. n : P(k))
  BY DEF Line
<1> HIDE DEF n, P
<1>4. (CHOOSE k \in 0 .. n : P(k)) = m
  BY <1>1, <1>2
<1> QED
  BY <1>3, <1>4

LEMMA TrimmedLine ==
    ASSUME NEW S, NEW bytes \in Seq(S)
    PROVE  TrimEnd(bytes) = Line(bytes, Blank)
<1> DEFINE n == Len(bytes)
           I == {i \in 1 .. n : bytes[i] \notin Blank}
           m == IF I # {} THEN Max(I) ELSE 0
<1>1. TrimEnd(bytes) = SubSeq(bytes, 1, m)
  BY DEF TrimEnd, SelectLastInSeq
<1>2. n \in Nat
  OBVIOUS
<1>3. CASE I = {}
  <2>1. m = 0
    BY <1>3
  <2>2. \A i \in m + 1 .. n : bytes[i] \in Blank
    BY <1>3, <2>1
  <2>3. m \in 0 .. n /\ ~(m > 0)
    BY <1>2, <2>1
  <2> HIDE DEF m
  <2> QED
    BY <1>1, <2>2, <2>3, LineIsFront
<1>4. CASE I # {}
  <2>1. m = Max(I)
    BY <1>4
  <2>2. I \in SUBSET (1 .. n) /\ \A i \in I : i \in Nat /\ i <= n
    BY <1>2
  <2>3. m \in I /\ \A i \in I : i <= m
    <3> HIDE DEF I, m
    <3> QED
      BY <1>2, <1>4, <2>1, <2>2, MaxIsGreatest
  <2> HIDE DEF m
  <2>4. m \in 1 .. n /\ bytes[m] \notin Blank
    BY <2>3
  <2>5. ASSUME NEW i \in m + 1 .. n PROVE bytes[i] \in Blank
    <3>1. i \in 1 .. n /\ ~(i <= m)
      BY <1>2, <2>4
    <3>2. i \notin I
      BY <2>3, <3>1
    <3> QED
      BY <3>1, <3>2
  <2>6. m \in 0 .. n
    BY <1>2, <2>4
  <2> QED
    BY <1>1, <2>4, <2>5, <2>6, LineIsFront
<1> QED
  BY <1>3, <1>4

LEMMA StrippedLine ==
    ASSUME NEW S, NEW bytes \in Seq(S),
           \A i \in DOMAIN bytes : bytes[i] = "\n" => i = Len(bytes)
    PROVE  StripSuffix(bytes) = Line(bytes, {"\n"})
<1> DEFINE n == Len(bytes)
           B == {"\n"}
<1>1. n \in Nat /\ DOMAIN bytes = 1 .. n /\ (bytes # <<>> => n > 0)
  OBVIOUS
<1>2. \A i \in 1 .. n : bytes[i] \in B <=> bytes[i] = "\n"
  OBVIOUS
<1>3. CASE bytes # <<>> /\ bytes[n] = "\n"
  <2>1. StripSuffix(bytes) = SubSeq(bytes, 1, n - 1)
    BY <1>3 DEF StripSuffix, Last, Front
  <2>2. n - 1 \in 0 .. n /\ (n - 1) + 1 = n /\ \A i \in n .. n : i = n
    <3>1. n \in Nat /\ n > 0
      BY <1>1, <1>3
    <3> HIDE DEF n
    <3> QED
      BY <3>1
  <2>3. n - 1 > 0 => bytes[n - 1] \notin B
    <3> HAVE n - 1 > 0
    <3>1. n - 1 \in 1 .. n /\ n - 1 # n
      <4>1. n \in Nat /\ n - 1 > 0
        BY <1>1
      <4> HIDE DEF n
      <4> QED
        BY <4>1
    <3> QED
      BY <1>1, <1>2, <3>1
  <2>4. \A i \in (n - 1) + 1 .. n : bytes[i] \in B
    BY <1>3, <2>2
  <2> HIDE DEF B
  <2>5. Line(bytes, B) = SubSeq(bytes, 1, n - 1)
    BY <2>2, <2>3, <2>4, LineIsFront
  <2> QED
    BY <2>1, <2>5 DEF B
<1>4. CASE ~(bytes # <<>> /\ bytes[n] = "\n")
  <2>1. StripSuffix(bytes) = bytes
    BY <1>4 DEF StripSuffix, Last
  <2>2. n > 0 => bytes[n] \notin B
    <3> HAVE n > 0
    <3>1. bytes # <<>>
      OBVIOUS
    <3> QED
      BY <1>4, <3>1
  <2>3. n \in 0 .. n /\ \A i \in n + 1 .. n : bytes[i] \in B
    <3> HIDE DEF n
    <3> QED
      BY <1>1
  <2> HIDE DEF B
  <2>4. Line(bytes, B) = SubSeq(bytes, 1, n)
    BY <2>2, <2>3, LineIsFront
  <2>5. SubSeq(bytes, 1, n) = bytes
    BY <1>1
  <2> QED
    BY <2>1, <2>4, <2>5 DEF B
<1> QED
  BY <1>3, <1>4

(* The section a name stands for. *)
LEMMA SectionData ==
    ASSUME NEW im, im.sections \in Seq(ToSet(im.sections)),
           \A i, j \in DOMAIN im.sections : im.sections[i].name = im.sections[j].name => i = j,
           NEW n, n \in Names(im)
    PROVE  /\ im.sections[Data(im, n)] = CHOOSE s \in ToSet(im.sections) : s.name = n
           /\ im.sections[Data(im, n)] \in ToSet(im.sections)
           /\ im.sections[Data(im, n)].name = n
<1> DEFINE S == im.sections
           I == {i \in 1 .. Len(S) : S[i].name = n}
<1>1. DOMAIN S = 1 .. Len(S) /\ Len(S) \in Nat /\ ToSet(S) = {S[i] : i \in 1 .. Len(S)}
  BY ElementsOf
<1>2. PICK k \in 1 .. Len(S) : S[k].name = n
  BY <1>1 DEF Names
<1>3. I = {k}
  BY <1>1, <1>2
<1>4. Data(im, n) = IF I # {} THEN Max(I) ELSE 0
  BY DEF Data, SelectLastInSeq
<1>5. Max({k}) = k
  BY DEF Max
<1>6. Data(im, n) = k
  BY <1>3, <1>4, <1>5
<1>7. \A s \in ToSet(S) : s.name = n => s = S[k]
  <2> SUFFICES ASSUME NEW i \in 1 .. Len(S), S[i].name = n PROVE S[i] = S[k]
    BY <1>1
  <2>1. i = k
    BY <1>1, <1>2
  <2> QED
    BY <2>1
<1>8. S[k] \in ToSet(S)
  BY <1>1
<1> HIDE DEF S
<1>9. (CHOOSE s \in ToSet(S) : s.name = n) = S[k]
  BY <1>2, <1>7, <1>8
<1> QED
  BY <1>2, <1>6, <1>8, <1>9 DEF S

(* Events of RTMR[1] before and after ones of RTMR[2], digest by digest. *)
LEMMA ThreeOf ==
    ASSUME NEW P, NEW Q, \A r \in P : r.mr = 2, \A r \in Q : r.mr = 3,
           NEW A \in Seq(P), NEW B \in Seq(Q), NEW C \in Seq(P)
    PROVE  LET Y == Cat(Cat(A, B), C)
           IN  /\ Of(0, Y) = <<>> /\ Of(1, Y) = Cat(Digests(A), Digests(C)) /\ Of(2, Y) = Digests(B)
               /\ Y \in Seq(P \cup Q)
<1> DEFINE R == P \cup Q
           Y == Cat(Cat(A, B), C)
<1>1. P \subseteq R /\ Q \subseteq R
  OBVIOUS
<1> HIDE DEF R
<1>2. A \in Seq(R) /\ B \in Seq(R) /\ C \in Seq(R)
  BY <1>1, SeqMonotonic
<1>3. Cat(A, B) \in Seq(R) /\ Y \in Seq(R)
  BY <1>2, CatType
<1>4. \A i : Of(i, Y) = Cat(Cat(Of(i, A), Of(i, B)), Of(i, C))
  <2>1. \A i : Of(i, Y) = Cat(Of(i, Cat(A, B)), Of(i, C))
    BY <1>2, <1>3, OfBlocks
  <2>2. \A i : Of(i, Cat(A, B)) = Cat(Of(i, A), Of(i, B))
    BY <1>2, OfBlocks
  <2> QED
    BY <2>1, <2>2
<1>5. /\ \A r \in P : r.mr # 0 + 1 /\ r.mr = 1 + 1 /\ r.mr # 2 + 1
      /\ \A r \in Q : r.mr # 0 + 1 /\ r.mr # 1 + 1 /\ r.mr = 2 + 1
  OBVIOUS
<1>6. Of(0, A) = <<>> /\ Of(2, A) = <<>> /\ Of(0, C) = <<>> /\ Of(2, C) = <<>>
  BY <1>5, OfBlocks
<1>7. Of(1, A) = Digests(A) /\ Of(1, C) = Digests(C)
  BY <1>5, OfBlocks
<1>8. Of(0, B) = <<>> /\ Of(1, B) = <<>>
  BY <1>5, OfBlocks
<1>9. Of(2, B) = Digests(B)
  BY <1>5, OfBlocks
<1> DEFINE D == {r.digest : r \in P}
           E == {r.digest : r \in Q}
<1>10. Digests(A) \in Seq(D) /\ Digests(B) \in Seq(E)
  BY DigestsOf
<1> HIDE DEF D, E
<1>11. <<>> \in Seq(D)
  BY ShortSeqs
<1>12. Cat(<<>>, <<>>) = <<>> /\ Cat(Digests(A), <<>>) = Digests(A)
  BY <1>10, <1>11, CatEmpty
<1>13. Cat(<<>>, Digests(B)) = Digests(B) /\ Cat(Digests(B), <<>>) = Digests(B)
  BY <1>10, CatEmpty
<1>14. Of(0, Y) = <<>>
  BY <1>4, <1>6, <1>8, <1>12
<1>15. Of(1, Y) = Cat(Digests(A), Digests(C))
  BY <1>4, <1>7, <1>8, <1>12
<1>16. Of(2, Y) = Digests(B)
  BY <1>4, <1>6, <1>9, <1>13
<1> QED
  BY <1>3, <1>14, <1>15, <1>16 DEF R

IsDirect(im) ==
    /\ im.mode = "direct-kernel"
    /\ im.cmdline \in Seq(ToSet(im.cmdline))
    /\ \A i \in DOMAIN im.cmdline : im.cmdline[i] = "\n" => i = Len(im.cmdline)
IsUki(im) ==
    /\ im.mode = "uki"
    /\ im.sections \in Seq(ToSet(im.sections))
    /\ \A i, j \in DOMAIN im.sections : im.sections[i].name = im.sections[j].name => i = j
    /\ {".cmdline", ".initrd", ".osrel"} \subseteq {s.name : s \in ToSet(im.sections)}
    /\ \A s \in ToSet(im.sections) : s.name = ".cmdline" => s.data \in Seq(ToSet(s.data))

LEMMA ImageKinds ==
    ASSUME NEW b \in Boots
    PROVE  IsDirect(Images[b.image]) \/ IsUki(Images[b.image])
BY ImageAssumption, Zenon DEF IsDirect, IsUki

(* What an image extends is what predict computes. *)
Predicts(im) ==
    /\ Of(0, ImageEvents(im)) = <<>> /\ Of(1, ImageEvents(im)) = Rtmr1(im, TRUE)
    /\ Of(2, ImageEvents(im)) = Rtmr2(im) /\ \E S : ImageEvents(im) \in Seq(S)

LEMMA DirectPredicts ==
    ASSUME NEW im, IsDirect(im)
    PROVE  Predicts(im) /\ Rtmr1(im, FALSE) = Rtmr1(im, TRUE)
<1> DEFINE action(a) == Event(2, "ACTION", <<a>>)
           pe == Event(2, "BOOT_SERVICES_APPLICATION", Authenticode(im))
           call == action("Calling")
           sep == Event(2, "SEPARATOR", Separator)
           ex1 == action("Exit Invocation")
           ex2 == action("Exit Success")
           line == <<"utf16">> \o Line(im.cmdline, {"\n"})
           cmdl == Event(3, "EVENT_TAG", line)
           P == {pe, call, sep, ex1, ex2}
           Q == {cmdl}
           A == <<pe, call, sep>>
           B == <<cmdl>>
           C == <<ex1, ex2>>
<1>0. im.mode = "direct-kernel"
  BY DEF IsDirect
<1>1. ImageEvents(im) = <<pe, call, sep, cmdl>> \o C
  BY <1>0 DEF ImageEvents
<1>2. /\ pe.mr = 2 /\ call.mr = 2 /\ sep.mr = 2 /\ ex1.mr = 2 /\ ex2.mr = 2 /\ cmdl.mr = 3
      /\ pe.digest = Authenticode(im) /\ call.digest = <<"Calling">> /\ sep.digest = Separator
      /\ ex1.digest = <<"Exit Invocation">> /\ ex2.digest = <<"Exit Success">> /\ cmdl.digest = line
  BY DEF Event, Record
<1>3. line = <<"utf16">> \o StripSuffix(im.cmdline)
  BY StrippedLine DEF IsDirect
<1> HIDE DEF pe, call, sep, ex1, ex2, cmdl, line
<1>4. A \in Seq(P) /\ C \in Seq(P) /\ B \in Seq(Q)
  OBVIOUS
<1>5. ImageEvents(im) = Cat(Cat(A, B), C)
  BY <1>1 DEF Cat
<1>6. Digests(A) = <<pe.digest, call.digest, sep.digest>> /\ Digests(C) = <<ex1.digest, ex2.digest>>
  BY DEF Digests
<1>7. Digests(B) = <<cmdl.digest>>
  BY DEF Digests
<1>8. \A r \in P : r.mr = 2
  BY <1>2
<1>9. \A r \in Q : r.mr = 3
  BY <1>2
<1> HIDE DEF A, B, C, P, Q
<1> DEFINE Y == Cat(Cat(A, B), C)
<1>10. /\ Of(0, Y) = <<>> /\ Of(1, Y) = Cat(Digests(A), Digests(C)) /\ Of(2, Y) = Digests(B)
       /\ Y \in Seq(P \cup Q)
  BY <1>4, <1>8, <1>9, ThreeOf
<1>11. \A d : Rtmr1(im, d) = <<Authenticode(im), <<"Calling">>, Separator>>
                               \o <<<<"Exit Invocation">>, <<"Exit Success">>>>
  BY <1>0 DEF Rtmr1
<1>12. Cat(Digests(A), Digests(C)) = Rtmr1(im, TRUE)
  BY <1>2, <1>6, <1>11 DEF Cat
<1>13. Digests(B) = Rtmr2(im)
  BY <1>0, <1>2, <1>3, <1>7 DEF Rtmr2
<1>14. Predicts(im)
  BY <1>5, <1>10, <1>12, <1>13 DEF Predicts
<1> QED
  BY <1>11, <1>14

LEMMA PairCat ==
    ASSUME NEW S, NEW a \in S, NEW b \in S
    PROVE  Cat(<<a>>, <<b>>) = <<a, b>>
<1> DEFINE x == <<a>>
           y == <<b>>
           c == Cat(x, y)
           d == <<a, b>>
<1>1. x \in Seq(S) /\ y \in Seq(S) /\ Len(x) = 1 /\ Len(y) = 1 /\ x[1] = a /\ y[1] = b
  BY ShortSeqs
<1> HIDE DEF x, y
<1>2. /\ c \in Seq(S) /\ Len(c) = 1 + 1
      /\ \A i \in 1 .. 1 : c[i] = x[i]
      /\ \A i \in 1 .. 1 : c[1 + i] = y[i]
  BY <1>1, ConcatFacts DEF Cat
<1> HIDE DEF c
<1>3. c[1] = a /\ c[2] = b /\ Len(c) = 2
  BY <1>1, <1>2
<1>4. d \in Seq(S) /\ Len(d) = 2 /\ d[1] = a /\ d[2] = b
  OBVIOUS
<1> HIDE DEF d
<1>5. \A i \in 1 .. 2 : c[i] = d[i]
  BY <1>3, <1>4
<1>6. c = d
  BY <1>2, <1>3, <1>4, <1>5, SeqEqual
<1> QED
  BY <1>6 DEF c, d, x, y

LEMMA FiveCat ==
    ASSUME NEW S, NEW a \in S, NEW b \in S, NEW c \in S, NEW d \in S, NEW e \in S
    PROVE  Cat(Cat(<<a, b>>, <<c, d>>), <<e>>) = <<a, b, c, d, e>>
<1>1. <<a, b, c, d>> = <<a, b>> \o <<c, d>>
  OBVIOUS
<1>2. <<a, b, c, d, e>> = <<a, b, c, d>> \o <<e>>
  OBVIOUS
<1> QED
  BY <1>1, <1>2 DEF Cat

LEMMA UkiPredicts ==
    ASSUME NEW im, IsUki(im)
    PROVE  Predicts(im)
<1> DEFINE action(a) == Event(2, "ACTION", <<a>>)
           app(pe) == Event(2, "BOOT_SERVICES_APPLICATION", pe)
           tag(d) == Event(3, "EVENT_TAG", d)
           data(n) == (CHOOSE s \in ToSet(im.sections) : s.name = n).data
           held(n) == im.sections[Data(im, n)].data
           V == {n \in ToSet(SectionOrder) : \E s \in ToSet(im.sections) : s.name = n}
           W == {n \in ToSet(SectionOrder) : n \in Names(im)}
           present == Keep(SectionOrder, W)
           call == action("Calling")
           sep == Event(2, "SEPARATOR", Separator)
           disk == GptEvent(im.disk)
           gpt == Event(2, "GPT", disk)
           loader == <<"pe">> \o im.disk.loader
           boot == app(loader)
           uki == app(Authenticode(im))
           ex1 == action("Exit Invocation")
           ex2 == action("Exit Success")
           named(n) == Event(3, "IPL", <<"name", n>>)
           filled(n) == Event(3, "IPL", data(n))
           pair(n) == <<named(n), filled(n)>>
           hashes(n) == <<<<"name", n>>, held(n)>>
           f == [i \in DOMAIN present |-> pair(present[i])]
           g == [i \in DOMAIN present |-> hashes(present[i])]
           line == <<"utf16">> \o Line(data(".cmdline"), Blank)
           rest == data(".initrd") \o <<"cpio">> \o data(".osrel")
           t1 == tag(line)
           t2 == tag(rest)
           X == {".linux", ".osrel", ".cmdline", ".initrd", ".uname", ".splash", ".dtb", ".sbat",
                 ".pcrpkey"}
           P == {call, sep, gpt, boot, uki, ex1, ex2}
           Q == {named(n) : n \in X} \cup {filled(n) : n \in X} \cup {t1, t2}
           A == <<call, sep, gpt, boot, uki>>
           F == FlattenSeq(f)
           T == <<t1, t2>>
           B == Cat(F, T)
           C == <<ex1, ex2>>
<1>0. /\ im.mode = "uki" /\ im.mode # "direct-kernel" /\ im.sections \in Seq(ToSet(im.sections))
      /\ \A i, j \in DOMAIN im.sections : im.sections[i].name = im.sections[j].name => i = j
  BY DEF IsUki
<1>1. Names(im) = {s.name : s \in ToSet(im.sections)}
  <2>1. ToSet(im.sections) = {im.sections[i] : i \in DOMAIN im.sections}
    BY DEF ToSet
  <2> QED
    BY <2>1 DEF Names
<1>2. V = W
  BY <1>1
<1>3. {".cmdline", ".initrd", ".osrel"} \subseteq Names(im)
  BY <1>1 DEF IsUki
<1>4. \A n \in Names(im) : held(n) = data(n)
  <2> SUFFICES ASSUME NEW n \in Names(im) PROVE held(n) = data(n)
    OBVIOUS
  <2>1. im.sections[Data(im, n)] = CHOOSE s \in ToSet(im.sections) : s.name = n
    BY <1>0, SectionData
  <2> QED
    BY <2>1
<1>5. line = <<"utf16">> \o TrimEnd(held(".cmdline"))
  <2> DEFINE s == im.sections[Data(im, ".cmdline")]
  <2>1. s \in ToSet(im.sections) /\ s.name = ".cmdline"
    BY <1>0, <1>3, SectionData
  <2>2. s.data \in Seq(ToSet(s.data))
    BY <2>1 DEF IsUki
  <2>3. TrimEnd(s.data) = Line(s.data, Blank)
    BY <2>2, TrimmedLine
  <2> HIDE DEF s
  <2>4. s.data = data(".cmdline")
    BY <1>3, <1>4 DEF s
  <2> QED
    BY <2>3, <2>4 DEF s
<1>6. rest = held(".initrd") \o <<"cpio">> \o held(".osrel")
  BY <1>3, <1>4
<1>7. ImageEvents(im) = ((A \o F) \o T) \o C
  <2> DEFINE shown == Where(SectionOrder, LAMBDA n : \E s \in ToSet(im.sections) : s.name = n)
             f0 == [i \in DOMAIN shown |-> <<named(shown[i]), filled(shown[i])>>]
             gpt0 == Event(2, "GPT", <<"gpt">> \o im.disk.header
                                      \o Where(im.disk.slots, LAMBDA s : s # None))
             A0 == <<call, sep, gpt0, boot, uki>>
             F0 == FlattenSeq(f0)
  <2>1. ImageEvents(im) = ((A0 \o F0) \o T) \o C
    BY <1>0 DEF ImageEvents
  <2>2. shown = present
    BY <1>2 DEF Where
  <2>3. gpt0 = gpt
    BY DEF GptEvent
  <2>4. F0 = F
    <3> HIDE DEF shown, present, named, filled
    <3> QED
      BY <2>2
  <2> HIDE DEF F0, F, gpt, gpt0, call, sep, boot, uki, T, C
  <2> QED
    BY <2>1, <2>3, <2>4
<1>8. /\ \A d, t : Event(2, t, d).mr = 2 /\ Event(2, t, d).digest = d
      /\ \A d, t : Event(3, t, d).mr = 3 /\ Event(3, t, d).digest = d
  BY DEF Event, Record
<1>9. /\ call.mr = 2 /\ sep.mr = 2 /\ gpt.mr = 2 /\ boot.mr = 2 /\ uki.mr = 2 /\ ex1.mr = 2 /\ ex2.mr = 2
      /\ call.digest = <<"Calling">> /\ sep.digest = Separator /\ gpt.digest = disk
      /\ boot.digest = loader /\ uki.digest = Authenticode(im)
      /\ ex1.digest = <<"Exit Invocation">> /\ ex2.digest = <<"Exit Success">>
  BY <1>8, Zenon
<1>10. t1.mr = 3 /\ t2.mr = 3 /\ t1.digest = line /\ t2.digest = rest
  BY <1>8, Zenon
<1>11. \A n : named(n).mr = 3 /\ filled(n).mr = 3 /\ named(n).digest = <<"name", n>> /\ filled(n).digest = data(n)
  BY <1>8, Zenon
<1> HIDE DEF call, sep, gpt, boot, uki, ex1, ex2, t1, t2, named, filled, data, held, line, rest, disk, loader
<1>12. \A r \in P : r.mr = 2
  BY <1>9
<1>13. \A r \in Q : r.mr = 3
  BY <1>10, <1>11
<1>14. A \in Seq(P) /\ C \in Seq(P) /\ T \in Seq(Q)
  <2>1. T \in Seq(Q)
    <3>1. t1 \in Q /\ t2 \in Q
      OBVIOUS
    <3> HIDE DEF Q
    <3> QED
      BY <3>1
  <2>2. A \in Seq(P) /\ C \in Seq(P)
    OBVIOUS
  <2> QED
    BY <2>1, <2>2
<1>15. present \in Seq(X \cap W)
  <2>1. SectionOrder \in Seq(X)
    BY DEF SectionOrder
  <2> HIDE DEF X, W
  <2> QED
    BY <2>1, KeepType
<1>16. ASSUME NEW n \in X \cap W
       PROVE  pair(n) \in Seq(Q) /\ Digests(pair(n)) = hashes(n)
  <2>1. named(n) \in Q /\ filled(n) \in Q
    OBVIOUS
  <2>2. held(n) = data(n)
    BY <1>4
  <2> HIDE DEF Q
  <2>3. pair(n) \in Seq(Q)
    BY <2>1
  <2>4. Digests(pair(n)) = <<named(n).digest, filled(n).digest>>
    BY DEF Digests
  <2> QED
    BY <1>11, <2>2, <2>3, <2>4
<1> DEFINE l == Len(present)
           Z == X \cap W
           U == Seq(Q)
<1> HIDE DEF present, Z, U, pair, hashes
<1>17. l \in Nat /\ DOMAIN present = 1 .. l /\ \A i \in 1 .. l : present[i] \in Z
  BY <1>15 DEF Z
<1> HIDE DEF l
<1>18. \A n \in Z : pair(n) \in U /\ Digests(pair(n)) = hashes(n)
  BY <1>16 DEF Z, U
<1>19. f \in [1 .. l -> U] /\ \A i \in 1 .. l : f[i] = pair(present[i])
  BY <1>17, <1>18
<1> HIDE DEF f
<1>20. f \in Seq(U) /\ Len(f) = l
  BY <1>17, <1>19, FunIsSeq
<1>21. EachDigests(f) = g
  <2>1. EachDigests(f) = [i \in 1 .. l |-> Digests(f[i])]
    BY <1>20 DEF EachDigests
  <2>2. g = [i \in 1 .. l |-> hashes(present[i])]
    BY <1>17
  <2>3. \A i \in 1 .. l : Digests(f[i]) = hashes(present[i])
    BY <1>17, <1>18, <1>19
  <2> QED
    BY <2>1, <2>2, <2>3
<1>22. f \in Seq(Seq(Q))
  BY <1>20 DEF U
<1> HIDE DEF Q, P, T, A, C, g
<1>23. F \in Seq(Q)
  BY <1>22, FlatType
<1>24. Digests(F) = FlattenSeq(g)
  BY <1>21, <1>22, DigestsFlat
<1> HIDE DEF F
<1>25. B \in Seq(Q) /\ Digests(B) = Cat(FlattenSeq(g), Digests(T))
  BY <1>14, <1>23, <1>24, CatType, DigestsCat
<1>26. ImageEvents(im) = Cat(Cat(A, B), C)
  <2> DEFINE R == P \cup Q
  <2>1. P \subseteq R /\ Q \subseteq R
    OBVIOUS
  <2> HIDE DEF R
  <2>2. A \in Seq(R) /\ F \in Seq(R) /\ T \in Seq(R)
    BY <1>14, <1>23, <2>1, SeqMonotonic
  <2>3. Cat(Cat(A, F), T) = Cat(A, Cat(F, T))
    BY <2>2, CatAssociates
  <2>4. ImageEvents(im) = Cat(Cat(Cat(A, F), T), C)
    BY <1>7 DEF Cat
  <2> QED
    BY <2>3, <2>4
<1> HIDE DEF B
<1> DEFINE Y == Cat(Cat(A, B), C)
<1>27. /\ Of(0, Y) = <<>> /\ Of(1, Y) = Cat(Digests(A), Digests(C)) /\ Of(2, Y) = Digests(B)
       /\ Y \in Seq(P \cup Q)
  BY <1>12, <1>13, <1>14, <1>25, ThreeOf
<1>28. /\ Digests(A) = <<call.digest, sep.digest, gpt.digest, boot.digest, uki.digest>>
       /\ Digests(C) = <<ex1.digest, ex2.digest>> /\ Digests(T) = <<t1.digest, t2.digest>>
  BY DEF Digests, A, C, T
<1>29. Rtmr1(im, TRUE) = Cat(<<<<"Calling">>, Separator, disk, loader, Authenticode(im)>>,
                             <<<<"Exit Invocation">>, <<"Exit Success">>>>)
  <2>1. Rtmr1(im, TRUE) = ((<<<<"Calling">>, Separator>> \o <<disk, loader>>) \o <<Authenticode(im)>>)
                            \o <<<<"Exit Invocation">>, <<"Exit Success">>>>
    BY <1>0 DEF Rtmr1, disk, loader
  <2> DEFINE v == <<"Calling">>
             w == Authenticode(im)
             S == {v, Separator, disk, loader, w}
  <2> HIDE DEF v, w
  <2>2. v \in S /\ Separator \in S /\ disk \in S /\ loader \in S /\ w \in S
    OBVIOUS
  <2> HIDE DEF S
  <2>3. Cat(Cat(<<v, Separator>>, <<disk, loader>>), <<w>>) = <<v, Separator, disk, loader, w>>
    BY <2>2, FiveCat
  <2>4. Rtmr1(im, TRUE) = Cat(Cat(Cat(<<v, Separator>>, <<disk, loader>>), <<w>>),
                              <<<<"Exit Invocation">>, <<"Exit Success">>>>)
    BY <2>1 DEF Cat, v, w
  <2> QED
    BY <2>3, <2>4 DEF v, w
<1>30. Cat(Digests(A), Digests(C)) = Rtmr1(im, TRUE)
  BY <1>9, <1>28, <1>29
<1>31. Rtmr2(im) = Cat(FlattenSeq(g), <<line, rest>>)
  <2> DEFINE e1 == <<"utf16">> \o TrimEnd(held(".cmdline"))
             e2 == held(".initrd") \o <<"cpio">> \o held(".osrel")
  <2>1. Where(SectionOrder, LAMBDA n : n \in Names(im)) = present
    BY SMTT(40) DEF Where, present
  <2>2. Rtmr2(im) = (FlattenSeq(g) \o <<e1>>) \o <<e2>>
    BY <1>0, <1>3, <2>1 DEF Rtmr2, g, hashes, held
  <2>3. e1 = line /\ e2 = rest
    BY <1>5, <1>6
  <2> HIDE DEF e1, e2
  <2> DEFINE S == {r.digest : r \in Q} \cup {line, rest}
  <2>4. FlattenSeq(g) \in Seq(S)
    <3> DEFINE D == {r.digest : r \in Q}
    <3>1. Digests(F) \in Seq(D)
      BY <1>23, DigestsOf
    <3>2. D \subseteq S
      OBVIOUS
    <3> HIDE DEF D, S
    <3> QED
      BY <1>24, <3>1, <3>2, SeqMonotonic
  <2>5. line \in S /\ rest \in S
    OBVIOUS
  <2> HIDE DEF S
  <2>6. <<line>> \in Seq(S) /\ <<rest>> \in Seq(S)
    BY <2>5, ShortSeqs
  <2> DEFINE a == <<line>>
             b == <<rest>>
             h == FlattenSeq(g)
  <2>7. Cat(Cat(h, a), b) = Cat(h, Cat(a, b))
    <3>1. h \in Seq(S) /\ a \in Seq(S) /\ b \in Seq(S)
      BY <2>4, <2>6
    <3> HIDE DEF h, a, b
    <3> QED
      BY <3>1, CatAssociates
  <2>8. Cat(a, b) = <<line, rest>>
    BY <2>5, PairCat
  <2>9. Rtmr2(im) = Cat(Cat(h, a), b)
    BY <2>2, <2>3 DEF Cat
  <2> QED
    BY <2>7, <2>8, <2>9
<1>32. Digests(B) = Rtmr2(im)
  BY <1>10, <1>25, <1>28, <1>31
<1> QED
  BY <1>26, <1>27, <1>30, <1>32 DEF Predicts

(* RTMR[1] and RTMR[2] of a boot are what is computed of its image. *)
LEMMA ImageRegisters ==
    ASSUME NEW b \in Boots
    PROVE  /\ BootRegisters[b][1] = Rtmr1(Images[b.image], TRUE)
           /\ BootRegisters[b][2] = Rtmr2(Images[b.image])
           /\ Images[b.image].mode # "uki" => Rtmr1(Images[b.image], FALSE) = Rtmr1(Images[b.image], TRUE)
<1> DEFINE p == Platforms[b.platform]
           im == Images[b.image]
           Y == ImageEvents(im)
           O == DOMAIN p.options
           sig == <<Signature>>
<1>1. p.order \in Seq(O)
  BY PlatformAssumption
<1>2. PICK RX, X : /\ FirmwareEvents(p) = <<Signature>> \o X
                   /\ X \in Seq(RX) /\ PlainIn(RX, 1)
  <2> HIDE DEF p
  <2> QED
    BY <1>1, FirmwareShape
<1>3. Predicts(im) /\ (im.mode # "uki" => Rtmr1(im, FALSE) = Rtmr1(im, TRUE))
  <2>1. CASE IsDirect(im)
    BY <2>1, DirectPredicts
  <2>2. CASE IsUki(im)
    <3>1. im.mode = "uki"
      BY <2>2 DEF IsUki
    <3> QED
      BY <2>2, <3>1, UkiPredicts
  <2> QED
    BY <2>1, <2>2, ImageKinds
<1>4. PICK S : Y \in Seq(S)
  BY <1>3 DEF Predicts
<1>5. Of(1, Y) = Rtmr1(im, TRUE) /\ Of(2, Y) = Rtmr2(im)
  BY <1>3 DEF Predicts
<1> DEFINE R == {Signature} \cup RX
           F == Cat(sig, X)
           T == R \cup S
<1>6. BootLog[b] = Cat(F, Y)
  BY <1>2 DEF BootLog, Cat
<1> HIDE DEF im, p, Y
<1>7. Signature.mr = 0
  BY DEF Signature, Event, Record
<1>8. \A r \in R : \A i \in {1, 2} : r.mr # i + 1
  BY <1>2, <1>7 DEF PlainIn
<1>9. Signature \in R /\ RX \subseteq R /\ R \subseteq T /\ S \subseteq T
  OBVIOUS
<1> HIDE DEF R, T
<1>10. sig \in Seq(R)
  BY <1>9, ShortSeqs
<1>11. X \in Seq(R)
  BY <1>2, <1>9, SeqMonotonic
<1> HIDE DEF sig
<1>12. F \in Seq(R)
  BY <1>10, <1>11, CatType
<1> HIDE DEF F
<1>13. F \in Seq(T) /\ Y \in Seq(T)
  BY <1>4, <1>9, <1>12, SeqMonotonic
<1>14. ASSUME NEW i \in {1, 2} PROVE Of(i, BootLog[b]) = Of(i, Y)
  <2>1. Of(i, Cat(F, Y)) = Cat(Of(i, F), Of(i, Y))
    BY <1>13, OfBlocks
  <2>2. Of(i, F) = <<>>
    <3>1. \A r \in R : r.mr # i + 1
      BY <1>8
    <3> QED
      BY <1>12, <3>1, OfBlocks
  <2> DEFINE K == Keep(Y, Mr(S, i))
             D == Digests(K)
  <2>3. Of(i, Y) = D
    BY <1>4, OfIsKept
  <2>4. K \in Seq(S)
    BY <1>4, KeepType
  <2> HIDE DEF K
  <2>5. D \in Seq({r.digest : r \in S})
    BY <2>4, DigestsOf
  <2> HIDE DEF D
  <2>6. Cat(<<>>, D) = D
    BY <2>5, CatEmpty
  <2> QED
    BY <1>6, <2>1, <2>2, <2>3, <2>6
<1>15. BootRegisters[b][1] = Of(1, BootLog[b]) /\ BootRegisters[b][2] = Of(2, BootLog[b])
  BY DEF BootRegisters
<1> QED
  BY <1>3, <1>5, <1>14, <1>15 DEF im

(* K is X, or X cut short, without one element, or with two neighbours exchanged. *)
IsPrefix_(X, K) == Len(K) <= Len(X) /\ \A i \in 1 .. Len(K) : K[i] = X[i]
IsShort(X, K, j) ==
    /\ j \in 1 .. Len(X) /\ Len(K) = Len(X) - 1
    /\ \A i \in 1 .. Len(X) - 1 : K[i] = IF i < j THEN X[i] ELSE X[i + 1]
IsSwap(X, K, j) ==
    /\ j \in 1 .. Len(X) - 1 /\ Len(K) = Len(X) /\ K[j] = X[j + 1] /\ K[j + 1] = X[j]
    /\ \A i \in 1 .. Len(X) : i # j /\ i # j + 1 => K[i] = X[i]
Variant(R, X, K) ==
    /\ X \in Seq(R) /\ K \in Seq(R)
    /\ IsPrefix_(X, K) \/ (\E j : IsShort(X, K, j)) \/ (\E j : IsSwap(X, K, j))

(* A sequence around two neighbours. *)
Around(S, s, a, x, y, c) ==
    /\ s \in Seq(S) /\ Len(s) = Len(a) + 2 + Len(c)
    /\ \A i \in 1 .. Len(a) : s[i] = a[i]
    /\ s[Len(a) + 1] = x /\ s[Len(a) + 2] = y
    /\ \A i \in 1 .. Len(c) : s[Len(a) + 2 + i] = c[i]

LEMMA AroundTwo ==
    ASSUME NEW S, NEW a \in Seq(S), NEW x \in S, NEW y \in S, NEW c \in Seq(S)
    PROVE  Around(S, Cat(Cat(a, <<x, y>>), c), a, x, y, c)
<1> DEFINE p == <<x, y>>
           q == Cat(a, p)
           s == Cat(q, c)
<1>1. p \in Seq(S) /\ Len(p) = 2 /\ p[1] = x /\ p[2] = y
  OBVIOUS
<1> HIDE DEF p
<1>2. q \in Seq(S) /\ Len(q) = Len(a) + Len(p)
  BY <1>1, CatType
<1>3. (\A i \in 1 .. Len(a) : q[i] = a[i]) /\ (\A i \in 1 .. Len(p) : q[Len(a) + i] = p[i])
  <2>1. p \in Seq(S)
    BY <1>1
  <2> QED
    BY <2>1, CatFacts
<1> HIDE DEF q
<1>4. s \in Seq(S) /\ Len(s) = Len(q) + Len(c)
  BY <1>2, CatType
<1>5. (\A i \in 1 .. Len(q) : s[i] = q[i]) /\ (\A i \in 1 .. Len(c) : s[Len(q) + i] = c[i])
  <2>1. q \in Seq(S)
    BY <1>2
  <2> QED
    BY <2>1, CatFacts
<1> HIDE DEF s
<1>6. Len(q) = Len(a) + 2 /\ Len(a) \in Nat /\ Len(c) \in Nat
  BY <1>1, <1>2
<1>7. \A i \in 1 .. Len(a) : s[i] = a[i]
  <2>1. \A i \in 1 .. Len(a) : i \in 1 .. Len(q)
    BY <1>6
  <2> QED
    BY <1>3, <1>5, <2>1
<1>8. s[Len(a) + 1] = x /\ s[Len(a) + 2] = y
  <2>1. Len(a) + 1 \in 1 .. Len(q) /\ Len(a) + 2 \in 1 .. Len(q) /\ 1 \in 1 .. Len(p) /\ 2 \in 1 .. Len(p)
    BY <1>1, <1>6
  <2> QED
    BY <1>1, <1>3, <1>5, <2>1
<1>9. \A i \in 1 .. Len(c) : s[Len(a) + 2 + i] = c[i]
  BY <1>5, <1>6
<1>10. Len(s) = Len(a) + 2 + Len(c) /\ s \in Seq(S)
  BY <1>4, <1>6
<1> QED
  BY <1>7, <1>8, <1>9, <1>10 DEF Around, s, q, p

LEMMA KeepPair ==
    ASSUME NEW S, NEW x \in S, NEW y \in S, NEW V
    PROVE  Keep(<<x, y>>, V) = IF x \in V THEN IF y \in V THEN <<x, y>> ELSE <<x>>
                               ELSE IF y \in V THEN <<y>> ELSE <<>>
<1>1. <<x>> \in Seq(S) /\ <<y>> \in Seq(S)
  BY ShortSeqs
<1>2. Cat(<<x>>, <<y>>) = <<x, y>>
  BY PairCat
<1> DEFINE a == <<x>>
           b == <<y>>
<1>3. Keep(Cat(a, b), V) = Cat(Keep(a, V), Keep(b, V))
  <2> HIDE DEF a, b
  <2>1. a \in Seq(S) /\ b \in Seq(S)
    BY <1>1 DEF a, b
  <2> QED
    BY <2>1, KeepCat
<1>4. ASSUME NEW z \in S PROVE Keep(<<z>>, V) = IF z \in V THEN <<z>> ELSE <<>>
  <2> DEFINE c == <<z>>
  <2>1. c \in Seq(S) /\ Len(c) = 1 /\ c[1] = z
    BY ShortSeqs
  <2>2. CASE z \in V
    <3>1. \A i \in 1 .. Len(c) : c[i] \in V
      BY <2>1, <2>2
    <3> HIDE DEF c
    <3>2. Keep(c, V) = c
      BY <2>1, <3>1, KeepAll
    <3> QED
      BY <2>2, <3>2 DEF c
  <2>3. CASE z \notin V
    <3>1. \A i \in 1 .. Len(c) : c[i] \notin V
      BY <2>1, <2>3
    <3> HIDE DEF c
    <3>2. Keep(c, V) = <<>>
      BY <2>1, <3>1, KeepNone
    <3> QED
      BY <2>3, <3>2 DEF c
  <2> QED
    BY <2>2, <2>3
<1>5. Cat(a, <<>>) = a /\ Cat(<<>>, b) = b /\ Cat(<<>>, <<>>) = <<>>
  <2>1. <<>> \in Seq(S)
    BY ShortSeqs
  <2> HIDE DEF a, b
  <2>2. a \in Seq(S) /\ b \in Seq(S)
    BY <1>1 DEF a, b
  <2> QED
    BY <2>1, <2>2, CatEmpty
<1>6. Keep(a, V) = (IF x \in V THEN a ELSE <<>>) /\ Keep(b, V) = (IF y \in V THEN b ELSE <<>>)
  BY <1>4
<1> HIDE DEF a, b
<1>7. Keep(Cat(a, b), V) = IF x \in V THEN IF y \in V THEN Cat(a, b) ELSE a
                           ELSE IF y \in V THEN b ELSE <<>>
  BY <1>3, <1>5, <1>6
<1> QED
  BY <1>2, <1>7 DEF a, b

(* What is kept of a variant is a variant of what is kept. *)
LEMMA PrefixKept ==
    ASSUME NEW R, NEW X \in Seq(R), NEW K \in Seq(R), NEW V, IsPrefix_(X, K)
    PROVE  IsPrefix_(Keep(X, V), Keep(K, V))
<1> DEFINE m == Len(K)
           a == SubSeq(X, 1, m)
           c == SubSeq(X, m + 1, Len(X))
           A == Keep(a, V)
           C == Keep(c, V)
<1>1. m \in 0 .. Len(X) /\ m \in Nat
  BY DEF IsPrefix_
<1>2. a \in Seq(R) /\ Len(a) = m /\ c \in Seq(R) /\ X = Cat(a, c) /\ \A i \in 1 .. m : a[i] = X[i]
  <2> HIDE DEF m
  <2> QED
    BY <1>1, CutAt
<1> HIDE DEF a, c
<1>3. a = K
  <2>1. Len(a) = Len(K) /\ \A i \in 1 .. Len(a) : a[i] = K[i]
    BY <1>2 DEF IsPrefix_
  <2>2. a \in Seq(R) /\ K \in Seq(R)
    BY <1>2
  <2> QED
    BY <2>1, <2>2, SeqEqual
<1>4. Keep(X, V) = Cat(A, C)
  <2>1. a \in Seq(R) /\ c \in Seq(R)
    BY <1>2
  <2>2. Keep(Cat(a, c), V) = Cat(A, C)
    BY <2>1, KeepCat
  <2> QED
    BY <1>2, <2>2
<1>5. A \in Seq(R) /\ C \in Seq(R)
  BY <1>2, KeepType
<1>6. A = Keep(K, V)
  BY <1>3
<1> HIDE DEF A, C
<1>7. Len(Cat(A, C)) = Len(A) + Len(C)
  BY <1>5, CatType
<1>8. \A i \in 1 .. Len(A) : Cat(A, C)[i] = A[i]
  BY <1>5, CatFacts
<1>9. Len(A) \in Nat /\ Len(C) \in Nat
  BY <1>5
<1>10. Len(A) <= Len(Cat(A, C))
  BY <1>7, <1>9
<1> QED
  BY <1>4, <1>6, <1>8, <1>10 DEF IsPrefix_

LEMMA SamePrefix ==
    ASSUME NEW R, NEW X \in Seq(R)
    PROVE  IsPrefix_(X, X)
BY DEF IsPrefix_

LEMMA ShortKept ==
    ASSUME NEW R, NEW X \in Seq(R), NEW K \in Seq(R), NEW V, NEW j, IsShort(X, K, j)
    PROVE  IsPrefix_(Keep(X, V), Keep(K, V)) \/ \E i : IsShort(Keep(X, V), Keep(K, V), i)
<1> DEFINE r == RemoveAt(X, j)
           A == Keep(X, V)
           C == Keep(K, V)
<1>1. j \in 1 .. Len(X) /\ Len(K) = Len(X) - 1
      /\ \A i \in 1 .. Len(X) - 1 : K[i] = IF i < j THEN X[i] ELSE X[i + 1]
  BY DEF IsShort
<1>2. r \in Seq(R) /\ Len(r) = Len(X) - 1
      /\ \A i \in 1 .. Len(X) - 1 : r[i] = IF i < j THEN X[i] ELSE X[i + 1]
  BY <1>1, RemoveFacts
<1> HIDE DEF r
<1>3. r = K
  <2>1. Len(r) = Len(K) /\ \A i \in 1 .. Len(r) : r[i] = K[i]
    BY <1>1, <1>2
  <2>2. r \in Seq(R) /\ K \in Seq(R)
    BY <1>2
  <2> QED
    BY <2>1, <2>2, SeqEqual
<1>4. A \in Seq(R) /\ C \in Seq(R)
  BY KeepType
<1>5. CASE X[j] \notin V
  <2>1. Keep(RemoveAt(X, j), V) = A
    BY <1>1, <1>5, KeepRemoved
  <2>2. C = A
    BY <1>3, <2>1 DEF r
  <2> HIDE DEF A, C
  <2>3. IsPrefix_(A, A)
    BY <1>4, SamePrefix
  <2>4. IsPrefix_(A, C)
    BY <2>2, <2>3
  <2> QED
    BY <2>4 DEF A, C
<1>6. CASE X[j] \in V
  <2>1. PICK i \in 1 .. Len(A) : Keep(RemoveAt(X, j), V) = RemoveAt(A, i)
    BY <1>1, <1>6, KeepWithout
  <2>2. C = RemoveAt(A, i)
    BY <1>3, <2>1 DEF r
  <2> HIDE DEF A, C
  <2>3. Len(RemoveAt(A, i)) = Len(A) - 1
        /\ \A h \in 1 .. Len(A) - 1 : RemoveAt(A, i)[h] = IF h < i THEN A[h] ELSE A[h + 1]
    BY <1>4, RemoveFacts
  <2>4. IsShort(A, C, i)
    BY <2>2, <2>3 DEF IsShort
  <2> QED
    BY <2>4 DEF A, C
<1> QED
  BY <1>5, <1>6

Splits(X, j, a, c) ==
    /\ X = Cat(Cat(a, <<X[j], X[j + 1]>>), c)
    /\ Len(a) = j - 1 /\ Len(c) = Len(X) - j - 1
    /\ \A i \in 1 .. j - 1 : a[i] = X[i]
    /\ \A i \in 1 .. Len(X) - j - 1 : c[i] = X[j + 1 + i]

LEMMA SplitTwo ==
    ASSUME NEW R, NEW X \in Seq(R), NEW j \in 1 .. Len(X) - 1
    PROVE  \E a, c \in Seq(R) : Splits(X, j, a, c)
<1> DEFINE m == j - 1
           n == j + 1
           a == SubSeq(X, 1, m)
           c == SubSeq(X, n + 1, Len(X))
           s == Cat(Cat(a, <<X[j], X[j + 1]>>), c)
<1>0. Len(X) \in Nat /\ j \in Nat /\ 1 <= j /\ j + 1 <= Len(X)
  OBVIOUS
<1>1. m \in 0 .. Len(X) /\ n \in 0 .. Len(X) /\ X[j] \in R /\ X[j + 1] \in R
  BY <1>0
<1> HIDE DEF m, n
<1>2. a \in Seq(R) /\ Len(a) = m /\ \A i \in 1 .. m : a[i] = X[i]
  BY <1>1, CutAt
<1>3. c \in Seq(R) /\ Len(c) = Len(X) - n /\ \A i \in 1 .. Len(X) - n : c[i] = X[n + i]
  BY <1>1, CutAt
<1> HIDE DEF a, c
<1>4. /\ s \in Seq(R) /\ Len(s) = Len(a) + 2 + Len(c)
      /\ \A i \in 1 .. Len(a) : s[i] = a[i]
      /\ s[Len(a) + 1] = X[j] /\ s[Len(a) + 2] = X[j + 1]
      /\ \A i \in 1 .. Len(c) : s[Len(a) + 2 + i] = c[i]
  <2> DEFINE x == X[j]  y == X[j + 1]
  <2>1. a \in Seq(R) /\ c \in Seq(R) /\ x \in R /\ y \in R
    BY <1>1, <1>2, <1>3
  <2> HIDE DEF x, y
  <2>2. Around(R, Cat(Cat(a, <<x, y>>), c), a, x, y, c)
    BY <2>1, AroundTwo
  <2> QED
    BY <2>2 DEF x, y, Around
<1> HIDE DEF s
<1>5. Len(a) = j - 1 /\ Len(c) = Len(X) - j - 1 /\ Len(s) = Len(X)
  BY <1>0, <1>2, <1>3, <1>4 DEF m, n
<1>6. ASSUME NEW i \in 1 .. Len(s) PROVE s[i] = X[i]
  <2>1. CASE i < j
    <3>1. i \in 1 .. Len(a) /\ i \in 1 .. m
      BY <1>0, <1>5, <2>1 DEF m
    <3> QED
      BY <1>2, <1>4, <3>1
  <2>2. CASE i = j
    <3>1. Len(a) + 1 = i
      BY <1>0, <1>5, <2>2
    <3> QED
      BY <1>4, <2>2, <3>1
  <2>3. CASE i = j + 1
    <3>1. Len(a) + 2 = i
      BY <1>0, <1>5, <2>3
    <3> QED
      BY <1>4, <2>3, <3>1
  <2>4. CASE i > j + 1
    <3> DEFINE h == i - (j + 1)
    <3>1. h \in 1 .. Len(c) /\ h \in 1 .. Len(X) - n /\ Len(a) + 2 + h = i /\ n + h = i
      BY <1>0, <1>5, <2>4 DEF n
    <3> HIDE DEF h
    <3>2. s[Len(a) + 2 + h] = c[h] /\ c[h] = X[n + h]
      BY <1>3, <1>4, <3>1
    <3> QED
      BY <3>1, <3>2
  <2> QED
    BY <1>0, <2>1, <2>2, <2>3, <2>4
<1>7. s = X
  <2>1. s \in Seq(R) /\ Len(s) = Len(X)
    BY <1>4, <1>5
  <2> QED
    BY <1>6, <2>1, SeqEqual
<1>8. (\A i \in 1 .. j - 1 : a[i] = X[i]) /\ (\A i \in 1 .. Len(X) - j - 1 : c[i] = X[j + 1 + i])
  <2>1. Len(X) - n = Len(X) - j - 1
    BY <1>0 DEF n
  <2> QED
    BY <1>2, <1>3, <2>1 DEF m, n
<1> QED
  BY <1>2, <1>3, <1>5, <1>7, <1>8 DEF s, Splits

LEMMA SwapKept ==
    ASSUME NEW R, NEW X \in Seq(R), NEW K \in Seq(R), NEW V, NEW j, IsSwap(X, K, j)
    PROVE  IsPrefix_(Keep(X, V), Keep(K, V)) \/ \E i : IsSwap(Keep(X, V), Keep(K, V), i)
<1> DEFINE x == X[j]
           y == X[j + 1]
<1>1. /\ j \in 1 .. Len(X) - 1 /\ Len(K) = Len(X) /\ K[j] = y /\ K[j + 1] = x
      /\ \A i \in 1 .. Len(X) : i # j /\ i # j + 1 => K[i] = X[i]
  BY DEF IsSwap
<1>2. x \in R /\ y \in R
  BY <1>1
<1>31. PICK a \in Seq(R), c \in Seq(R) : Splits(X, j, a, c)
  BY <1>1, SplitTwo
<1>3. /\ X = Cat(Cat(a, <<X[j], X[j + 1]>>), c)
      /\ Len(a) = j - 1 /\ Len(c) = Len(X) - j - 1
      /\ \A i \in 1 .. j - 1 : a[i] = X[i]
      /\ \A i \in 1 .. Len(X) - j - 1 : c[i] = X[j + 1 + i]
  BY <1>31 DEF Splits
<1>41. PICK b \in Seq(R), d \in Seq(R) : Splits(K, j, b, d)
  <2>1. j \in 1 .. Len(K) - 1
    BY <1>1
  <2> QED
    BY <2>1, SplitTwo
<1>4. /\ K = Cat(Cat(b, <<K[j], K[j + 1]>>), d)
      /\ Len(b) = j - 1 /\ Len(d) = Len(K) - j - 1
      /\ \A i \in 1 .. j - 1 : b[i] = K[i]
      /\ \A i \in 1 .. Len(K) - j - 1 : d[i] = K[j + 1 + i]
  BY <1>41 DEF Splits
<1>5. Len(X) \in Nat /\ j \in Nat
  BY <1>1
<1>6. b = a
  <2>1. ASSUME NEW i \in 1 .. Len(b) PROVE b[i] = a[i]
    <3>1. i \in 1 .. j - 1 /\ i \in 1 .. Len(X) /\ i # j /\ i # j + 1
      BY <1>1, <1>4, <1>5
    <3> QED
      BY <1>1, <1>3, <1>4, <3>1
  <2>2. Len(b) = Len(a)
    BY <1>3, <1>4
  <2> QED
    BY <2>1, <2>2, SeqEqual
<1>7. d = c
  <2>1. ASSUME NEW i \in 1 .. Len(d) PROVE d[i] = c[i]
    <3>1. /\ i \in 1 .. Len(X) - j - 1 /\ i \in 1 .. Len(K) - j - 1
          /\ j + 1 + i \in 1 .. Len(X) /\ j + 1 + i # j /\ j + 1 + i # j + 1
      BY <1>1, <1>4, <1>5
    <3>2. d[i] = K[j + 1 + i] /\ c[i] = X[j + 1 + i]
      BY <1>3, <1>4, <3>1
    <3> QED
      BY <1>1, <3>1, <3>2
  <2>2. Len(d) = Len(c)
    BY <1>1, <1>3, <1>4
  <2> QED
    BY <2>1, <2>2, SeqEqual
<1>8. X = Cat(Cat(a, <<x, y>>), c) /\ K = Cat(Cat(a, <<y, x>>), c)
  BY <1>1, <1>3, <1>4, <1>6, <1>7
<1> HIDE DEF x, y
<1> DEFINE A == Keep(a, V)
           C == Keep(c, V)
<1>9. ASSUME NEW u \in R, NEW v \in R
      PROVE  Keep(Cat(Cat(a, <<u, v>>), c), V) = Cat(Cat(A, Keep(<<u, v>>, V)), C)
  <2> DEFINE p == <<u, v>>
             q == Cat(a, p)
  <2>1. p \in Seq(R)
    OBVIOUS
  <2> HIDE DEF p
  <2>2. q \in Seq(R)
    BY <2>1, CatType
  <2>3. Keep(q, V) = Cat(A, Keep(p, V))
    BY <2>1, KeepCat
  <2> HIDE DEF q
  <2>4. Keep(Cat(q, c), V) = Cat(Keep(q, V), C)
    BY <2>2, KeepCat
  <2> QED
    BY <2>3, <2>4 DEF q, p
<1>10. Keep(X, V) = Cat(Cat(A, Keep(<<x, y>>, V)), C) /\ Keep(K, V) = Cat(Cat(A, Keep(<<y, x>>, V)), C)
  BY <1>2, <1>8, <1>9
<1>11. A \in Seq(R) /\ C \in Seq(R) /\ Keep(X, V) \in Seq(R) /\ Keep(K, V) \in Seq(R)
  BY KeepType
<1> HIDE DEF A, C
<1> DEFINE G == Keep(X, V)
           H == Keep(K, V)
<1>12. CASE x \in V /\ y \in V
  <2>1. Keep(<<x, y>>, V) = <<x, y>> /\ Keep(<<y, x>>, V) = <<y, x>>
    BY <1>2, <1>12, KeepPair
  <2>2. G = Cat(Cat(A, <<x, y>>), C) /\ H = Cat(Cat(A, <<y, x>>), C)
    BY <1>10, <2>1
  <2>3. Around(R, G, A, x, y, C) /\ Around(R, H, A, y, x, C)
    <3>1. Around(R, Cat(Cat(A, <<x, y>>), C), A, x, y, C)
      BY <1>2, <1>11, AroundTwo
    <3>2. Around(R, Cat(Cat(A, <<y, x>>), C), A, y, x, C)
      BY <1>2, <1>11, AroundTwo
    <3> QED
      BY <2>2, <3>1, <3>2
  <2> HIDE DEF G, H
  <2>4. /\ Len(G) = Len(A) + 2 + Len(C) /\ Len(H) = Len(A) + 2 + Len(C)
        /\ \A i \in 1 .. Len(A) : G[i] = A[i] /\ H[i] = A[i]
        /\ G[Len(A) + 1] = x /\ G[Len(A) + 2] = y /\ H[Len(A) + 1] = y /\ H[Len(A) + 2] = x
        /\ \A i \in 1 .. Len(C) : G[Len(A) + 2 + i] = C[i] /\ H[Len(A) + 2 + i] = C[i]
    BY <2>3 DEF Around
  <2> DEFINE k == Len(A) + 1
  <2>5. Len(A) \in Nat /\ Len(C) \in Nat
    BY <1>11
  <2>6. k \in 1 .. Len(G) - 1 /\ Len(H) = Len(G) /\ k + 1 = Len(A) + 2 /\ k \in Nat
    BY <2>4, <2>5
  <2>7. H[k] = G[k + 1] /\ H[k + 1] = G[k]
    BY <2>4, <2>6
  <2>8. ASSUME NEW i \in 1 .. Len(G), i # k, i # k + 1 PROVE H[i] = G[i]
    <3>1. CASE i < k
      <4>1. i \in 1 .. Len(A)
        BY <2>5, <2>8, <3>1
      <4> QED
        BY <2>4, <4>1
    <3>2. CASE i > k + 1
      <4> DEFINE h == i - (Len(A) + 2)
      <4>1. h \in 1 .. Len(C) /\ Len(A) + 2 + h = i
        BY <2>4, <2>5, <2>8, <3>2
      <4> HIDE DEF h
      <4> QED
        BY <2>4, <4>1
    <3> QED
      BY <2>5, <2>8, <3>1, <3>2
  <2> HIDE DEF k
  <2>9. IsSwap(G, H, k)
    BY <2>6, <2>7, <2>8 DEF IsSwap
  <2> QED
    BY <2>9 DEF G, H
<1>13. CASE ~(x \in V /\ y \in V)
  <2>1. Keep(<<x, y>>, V) = Keep(<<y, x>>, V)
    <3>1. Keep(<<x, y>>, V) = IF x \in V THEN IF y \in V THEN <<x, y>> ELSE <<x>>
                              ELSE IF y \in V THEN <<y>> ELSE <<>>
      BY <1>2, KeepPair
    <3>2. Keep(<<y, x>>, V) = IF y \in V THEN IF x \in V THEN <<y, x>> ELSE <<y>>
                              ELSE IF x \in V THEN <<x>> ELSE <<>>
      BY <1>2, KeepPair
    <3> QED
      <4>1. CASE x \in V
        BY <1>13, <3>1, <3>2, <4>1, Zenon
      <4>2. CASE x \notin V
        <5>1. CASE y \in V
          BY <3>1, <3>2, <4>2, <5>1, Zenon
        <5>2. CASE y \notin V
          BY <3>1, <3>2, <4>2, <5>2, Zenon
        <5> QED
          BY <5>1, <5>2
      <4> QED
        BY <4>1, <4>2
  <2>2. G = H
    BY <1>10, <2>1
  <2> HIDE DEF G, H
  <2>3. IsPrefix_(G, G)
    <3>1. G \in Seq(R)
      BY <1>11 DEF G
    <3> QED
      BY <3>1, SamePrefix
  <2>4. IsPrefix_(G, H)
    BY <2>2, <2>3
  <2> QED
    BY <2>4 DEF G, H
<1> QED
  BY <1>12, <1>13

LEMMA VariantKept ==
    ASSUME NEW R, NEW X, NEW K, NEW V, Variant(R, X, K)
    PROVE  Variant(R, Keep(X, V), Keep(K, V))
<1>1. X \in Seq(R) /\ K \in Seq(R)
  BY DEF Variant
<1>2. Keep(X, V) \in Seq(R) /\ Keep(K, V) \in Seq(R)
  BY <1>1, KeepType
<1>3. CASE IsPrefix_(X, K)
  BY <1>1, <1>2, <1>3, PrefixKept DEF Variant
<1>4. ASSUME NEW j, IsShort(X, K, j) PROVE Variant(R, Keep(X, V), Keep(K, V))
  <2>1. IsPrefix_(Keep(X, V), Keep(K, V)) \/ \E i : IsShort(Keep(X, V), Keep(K, V), i)
    BY <1>1, <1>4, ShortKept
  <2> QED
    BY <1>2, <2>1 DEF Variant
<1>5. ASSUME NEW j, IsSwap(X, K, j) PROVE Variant(R, Keep(X, V), Keep(K, V))
  <2>1. IsPrefix_(Keep(X, V), Keep(K, V)) \/ \E i : IsSwap(Keep(X, V), Keep(K, V), i)
    BY <1>1, <1>5, SwapKept
  <2> QED
    BY <1>2, <2>1 DEF Variant
<1> QED
  BY <1>3, <1>4, <1>5 DEF Variant

-----------------------------------------------------------------------------
(* What is read of a file, if it can be read, is a variant of the log, or    *)
(* the same events with the data of one of them damaged.                     *)

LEMMA VariantType ==
    ASSUME NEW R, NEW X \in Seq(R), NEW U, NEW K \in Seq(U),
           IsPrefix_(X, K) \/ (\E j : IsShort(X, K, j)) \/ (\E j : IsSwap(X, K, j))
    PROVE  Variant(R, X, K)
<1>1. Len(X) \in Nat /\ Len(K) \in Nat /\ \A i \in 1 .. Len(X) : X[i] \in R
  OBVIOUS
<1>2. ASSUME NEW i \in 1 .. Len(K) PROVE K[i] \in R
  <2>1. CASE IsPrefix_(X, K)
    <3>1. K[i] = X[i] /\ i \in 1 .. Len(X)
      BY <1>1, <2>1 DEF IsPrefix_
    <3> QED
      BY <1>1, <3>1
  <2>2. ASSUME NEW j, IsShort(X, K, j) PROVE K[i] \in R
    <3>1. i \in 1 .. Len(X) - 1 /\ i \in 1 .. Len(X) /\ i + 1 \in 1 .. Len(X)
      BY <1>1, <2>2 DEF IsShort
    <3>2. K[i] = X[i] \/ K[i] = X[i + 1]
      BY <2>2, <3>1 DEF IsShort
    <3> QED
      BY <1>1, <3>1, <3>2
  <2>3. ASSUME NEW j, IsSwap(X, K, j) PROVE K[i] \in R
    <3>1. i \in 1 .. Len(X) /\ j \in 1 .. Len(X) /\ j + 1 \in 1 .. Len(X)
      BY <1>1, <2>3 DEF IsSwap
    <3>2. K[i] = X[i] \/ K[i] = X[j] \/ K[i] = X[j + 1]
      BY <2>3, <3>1 DEF IsSwap
    <3> QED
      BY <1>1, <3>1, <3>2
  <2> QED
    BY <2>1, <2>2, <2>3
<1>3. K \in [1 .. Len(K) -> R]
  <2>1. K \in [1 .. Len(K) -> U]
    OBVIOUS
  <2> QED
    BY <1>2, <2>1
<1>4. K \in Seq(R)
  BY <1>1, <1>3, FunIsSeq
<1> QED
  BY <1>4 DEF Variant

LEMMA ReadsPlain ==
    ASSUME NEW T, NEW rec \in Seq(T), NEW n, Reads(rec, n), \A j \in 1 .. n : rec[j].alg = "SHA-384"
    PROVE  /\ ReadRecords(rec).events \in Seq(T) /\ Len(ReadRecords(rec).events) = n
           /\ \A j \in 1 .. n : ReadRecords(rec).events[j] = rec[j]
<1> DEFINE s == SubSeq(rec, 1, n)
           V == Sha384(T)
<1>1. n \in Nat /\ Len(rec) \in Nat /\ n <= Len(rec)
  BY DEF Reads
<1>2. s \in Seq(T) /\ Len(s) = n /\ \A j \in 1 .. n : s[j] = rec[j]
  BY <1>1
<1>3. ReadRecords(rec).events = Keep(s, V)
  BY ReadsPart
<1> HIDE DEF s
<1>4. \A j \in 1 .. Len(s) : s[j] \in V
  <2>1. \A j \in 1 .. Len(s) : s[j] \in T /\ s[j].alg = "SHA-384"
    BY <1>2
  <2> QED
    BY <2>1 DEF Sha384
<1> HIDE DEF V
<1>5. Keep(s, V) = s
  BY <1>2, <1>4, KeepAll
<1> QED
  BY <1>2, <1>3, <1>5

(* The same events, to a replay. *)
Like(X, K) == Len(X) = Len(K) /\ \A i \in 1 .. Len(X) : Alike(K[i], X[i])

Told(rec, b) ==
    ReadRecords(rec).ok =>
        \/ \A R : BootLog[b] \in Seq(R) => Variant(R, BootLog[b], ReadRecords(rec).events)
        \/ (\E U : ReadRecords(rec).events \in Seq(U)) /\ Like(BootLog[b], ReadRecords(rec).events)

LEMMA ToldPlain ==
    ASSUME NEW b, NEW T, NEW rec \in Seq(T), NEW n, Reads(rec, n),
           \A j \in 1 .. n : rec[j].alg = "SHA-384",
           \/ n <= Len(BootLog[b]) /\ \A j \in 1 .. n : rec[j] = BootLog[b][j]
           \/ \E k \in 1 .. Len(BootLog[b]) :
                /\ n = Len(BootLog[b]) - 1
                /\ \A j \in 1 .. n : rec[j] = IF j < k THEN BootLog[b][j] ELSE BootLog[b][j + 1]
           \/ \E k \in 1 .. Len(BootLog[b]) - 1 :
                /\ n = Len(BootLog[b]) /\ rec[k] = BootLog[b][k + 1] /\ rec[k + 1] = BootLog[b][k]
                /\ \A j \in 1 .. n : j # k /\ j # k + 1 => rec[j] = BootLog[b][j]
    PROVE  Told(rec, b)
<1> DEFINE X == BootLog[b]
           K == ReadRecords(rec).events
<1>1. K \in Seq(T) /\ Len(K) = n /\ \A j \in 1 .. n : K[j] = rec[j]
  BY ReadsPlain
<1> HIDE DEF X, K
<1>2. ASSUME NEW R, X \in Seq(R) PROVE Variant(R, X, K)
  <2>0. Len(X) \in Nat
    BY <1>2
  <2>1. CASE n <= Len(X) /\ \A j \in 1 .. n : rec[j] = X[j]
    <3>1. IsPrefix_(X, K)
      BY <1>1, <2>1 DEF IsPrefix_
    <3> QED
      BY <1>1, <1>2, <3>1, VariantType
  <2>2. ASSUME NEW k \in 1 .. Len(X), n = Len(X) - 1,
               \A j \in 1 .. n : rec[j] = IF j < k THEN X[j] ELSE X[j + 1]
        PROVE  Variant(R, X, K)
    <3>1. IsShort(X, K, k)
      BY <1>1, <2>2 DEF IsShort
    <3> QED
      BY <1>1, <1>2, <3>1, VariantType
  <2>3. ASSUME NEW k \in 1 .. Len(X) - 1, n = Len(X), rec[k] = X[k + 1], rec[k + 1] = X[k],
               \A j \in 1 .. n : j # k /\ j # k + 1 => rec[j] = X[j]
        PROVE  Variant(R, X, K)
    <3>0. k \in 1 .. n /\ k + 1 \in 1 .. n
      BY <2>0, <2>3
    <3>1. IsSwap(X, K, k)
      BY <1>1, <2>3, <3>0 DEF IsSwap
    <3> QED
      BY <1>1, <1>2, <3>1, VariantType
  <2> QED
    BY <2>1, <2>2, <2>3 DEF X
<1> QED
  BY <1>2 DEF Told, X, K

LEMMA UndamagedTold ==
    ASSUME NEW b \in Boots
    PROVE  Told(WholeLog(b), b)
<1> DEFINE w == WholeLog(b)
           n == Len(BootLog[b])
<1>1. PICK T : IsWhole(b, T, w, n)
  BY WholeShape
<1>2. /\ w \in Seq(T) /\ n \in Nat /\ Len(w) \in {n, n + 1}
      /\ \A i \in 1 .. n : w[i] = BootLog[b][i] /\ Plain(w[i])
      /\ Len(w) = n + 1 => Ends(w[n + 1])
  BY <1>1 DEF IsWhole
<1> HIDE DEF w
<1>3. n \in 0 .. Len(w) /\ (n < Len(w) => Len(w) = n + 1)
  BY <1>2
<1>4. Reads(w, n)
  BY <1>2, <1>3, PlainReads DEF Reads
<1>5. \A j \in 1 .. n : w[j].alg = "SHA-384"
  BY <1>2, PlainReads
<1>6. n <= Len(BootLog[b]) /\ \A j \in 1 .. n : w[j] = BootLog[b][j]
  BY <1>2
<1> HIDE DEF n
<1>7. Told(w, b)
  BY <1>2, <1>4, <1>5, <1>6, ToldPlain
<1> QED
  BY <1>7 DEF w

LEMMA CutTold ==
    ASSUME NEW b \in Boots, NEW k \in 1 .. Len(WholeLog(b))
    PROVE  /\ Told(SubSeq(WholeLog(b), 1, k - 1), b)
           /\ ~ReadRecords(SubSeq([WholeLog(b) EXCEPT ![k].whole = FALSE], 1, k)).ok
<1> DEFINE w == WholeLog(b)
           n == Len(BootLog[b])
           m == k - 1
           cut == SubSeq(w, 1, m)
           x == [w[k] EXCEPT !.whole = FALSE]
           all == [w EXCEPT ![k] = x]
           torn == SubSeq(all, 1, k)
<1>1. PICK T : IsWhole(b, T, w, n)
  BY WholeShape
<1>2. /\ w \in Seq(T) /\ n \in Nat /\ Len(w) \in {n, n + 1}
      /\ \A i \in 1 .. n : w[i] = BootLog[b][i] /\ Plain(w[i])
      /\ Len(w) = n + 1 => Ends(w[n + 1])
  BY <1>1 DEF IsWhole
<1>3. k \in 1 .. Len(w) /\ [WholeLog(b) EXCEPT ![k].whole = FALSE] = all
  OBVIOUS
<1> HIDE DEF w, n
<1>4. /\ k \in Nat /\ m \in Nat /\ m + 1 = k /\ Len(w) \in Nat /\ m <= n /\ k <= Len(w) /\ 1 <= k
      /\ m <= Len(w) /\ m # k
  BY <1>2, <1>3
<1> HIDE DEF m
<1>5. cut \in Seq(T) /\ Len(cut) = m /\ \A i \in 1 .. m : cut[i] = w[i]
  BY <1>2, <1>4
<1>6. \A i \in 1 .. m : w[i] = BootLog[b][i] /\ Plain(w[i])
  <2>1. \A i \in 1 .. m : i \in 1 .. n
    BY <1>2, <1>4
  <2> QED
    BY <1>2, <2>1
<1> HIDE DEF cut
<1>7. Told(cut, b)
  <2>1. Reads(cut, m)
    <3>1. \A i \in 1 .. m : ~Stops(cut[i])
      BY <1>5, <1>6, PlainReads
    <3>2. m \in 0 .. Len(cut) /\ ~(m < Len(cut))
      BY <1>4, <1>5
    <3> QED
      BY <3>1, <3>2 DEF Reads
  <2>2. \A j \in 1 .. m : cut[j].alg = "SHA-384"
    BY <1>5, <1>6, PlainReads
  <2>3. m <= Len(BootLog[b]) /\ \A j \in 1 .. m : cut[j] = BootLog[b][j]
    BY <1>4, <1>5, <1>6 DEF n
  <2>4. cut \in Seq(T)
    BY <1>5
  <2> QED
    BY <2>1, <2>2, <2>3, <2>4, ToldPlain
<1>8. x.whole = FALSE
  <2>1. Plain(w[k]) \/ Ends(w[k])
    <3>1. k \in 1 .. n \/ (k = n + 1 /\ Len(w) = n + 1)
      BY <1>2, <1>4
    <3> QED
      BY <1>2, <3>1
  <2> QED
    BY <2>1, PlainReads
<1> DEFINE U == T \cup {x}
<1>9. all \in Seq(U) /\ Len(all) = Len(w) /\ all[k] = x /\ \A i \in 1 .. Len(w) : i # k => all[i] = w[i]
  <2>1. w \in [1 .. Len(w) -> T] /\ Len(w) \in Nat
    BY <1>2
  <2> HIDE DEF x
  <2>2. all \in [1 .. Len(w) -> U] /\ all[k] = x /\ \A i \in 1 .. Len(w) : i # k => all[i] = w[i]
    BY <1>3, <2>1
  <2> HIDE DEF U, all
  <2>3. all \in Seq(U) /\ Len(all) = Len(w)
    BY <2>1, <2>2, FunIsSeq
  <2> QED
    BY <2>2, <2>3
<1> HIDE DEF U, all, x
<1>10. torn \in Seq(U) /\ Len(torn) = k /\ \A i \in 1 .. k : torn[i] = all[i]
  <2>1. all \in Seq(U) /\ Len(all) = Len(w)
    BY <1>9
  <2> QED
    BY <1>4, <2>1
<1> HIDE DEF torn
<1>11. torn[m + 1].whole = FALSE
  BY <1>4, <1>8, <1>9, <1>10
<1>12. \A i \in 1 .. m : torn[i] = w[i]
  <2>1. \A i \in 1 .. m : i \in 1 .. k /\ i \in 1 .. Len(w) /\ i # k
    BY <1>4
  <2> QED
    BY <1>9, <1>10, <2>1
<1>13. Reads(torn, m)
  <2>1. Stops(torn[m + 1])
    BY <1>11 DEF Stops
  <2>2. m \in 0 .. Len(torn)
    BY <1>4, <1>10
  <2>3. \A i \in 1 .. m : ~Stops(torn[i])
    BY <1>6, <1>12, PlainReads
  <2> QED
    BY <2>1, <2>2, <2>3 DEF Reads
<1>14. ~ReadRecords(torn).ok
  <2>1. ReadRecords(torn).ok = (m = Len(torn) \/ torn[m + 1].whole)
    BY <1>10, <1>13, ReadsPart
  <2> QED
    BY <1>4, <1>10, <1>11, <2>1
<1> QED
  BY <1>3, <1>7, <1>14 DEF w, torn, cut, m

LEMMA LostTold ==
    ASSUME NEW b \in Boots, NEW k \in 1 .. Len(WholeLog(b))
    PROVE  Told(RemoveAt(WholeLog(b), k), b)
<1> DEFINE w == WholeLog(b)
           n == Len(BootLog[b])
           rec == RemoveAt(w, k)
           m == IF k <= n THEN n - 1 ELSE n
<1>1. PICK T : IsWhole(b, T, w, n)
  BY WholeShape
<1>2. /\ w \in Seq(T) /\ n \in Nat /\ Len(w) \in {n, n + 1}
      /\ \A i \in 1 .. n : w[i] = BootLog[b][i] /\ Plain(w[i])
      /\ Len(w) = n + 1 => Ends(w[n + 1])
  BY <1>1 DEF IsWhole
<1>3. k \in 1 .. Len(w)
  OBVIOUS
<1> HIDE DEF w, n
<1>4. /\ rec \in Seq(T) /\ Len(rec) = Len(w) - 1
      /\ \A i \in 1 .. Len(w) - 1 : rec[i] = IF i < k THEN w[i] ELSE w[i + 1]
  <2>1. w \in Seq(T) /\ k \in 1 .. Len(w)
    BY <1>2, <1>3
  <2> QED
    BY <2>1, RemoveFacts
<1> HIDE DEF rec
<1>5. k \in Nat /\ 1 <= k /\ k <= Len(w) /\ Len(w) \in Nat
  BY <1>2, <1>3
<1>6. m \in 0 .. Len(rec)
  BY <1>2, <1>4, <1>5
<1>7. ASSUME NEW j \in 1 .. m
      PROVE  Plain(rec[j]) /\ rec[j] = IF j < k THEN BootLog[b][j] ELSE BootLog[b][j + 1]
  <2>1. j \in 1 .. Len(w) - 1
    BY <1>4, <1>6
  <2>2. CASE j < k
    <3>1. j \in 1 .. n
      BY <1>2, <1>5, <2>2
    <3> QED
      BY <1>2, <1>4, <2>1, <2>2, <3>1
  <2>3. CASE ~(j < k)
    <3>1. j + 1 \in 1 .. n
      BY <1>2, <1>5, <2>1, <2>3
    <3> QED
      BY <1>2, <1>4, <2>1, <2>3, <3>1
  <2> QED
    BY <2>2, <2>3
<1>8. ASSUME NEW j \in m + 1 .. Len(rec) PROVE Ends(rec[j]) /\ j = m + 1
  <2>1. /\ j \in 1 .. Len(w) - 1 /\ ~(j < k) /\ j + 1 = n + 1 /\ Len(w) = n + 1 /\ j = m + 1
    BY <1>2, <1>4, <1>5, <1>6
  <2>2. rec[j] = w[j + 1]
    BY <1>4, <2>1
  <2> QED
    BY <1>2, <2>1, <2>2
<1>9. Reads(rec, m)
  <2>1. \A i \in 1 .. m : ~Stops(rec[i])
    BY <1>7, PlainReads
  <2>2. m < Len(rec) => m + 1 \in m + 1 .. Len(rec)
    BY <1>6
  <2>3. m < Len(rec) => Stops(rec[m + 1])
    BY <1>8, <2>2, PlainReads
  <2> QED
    BY <1>6, <2>1, <2>3 DEF Reads
<1>10. \A j \in 1 .. m : rec[j].alg = "SHA-384"
  BY <1>7, PlainReads
<1>11. rec \in Seq(T)
  BY <1>4
<1>12. CASE k <= n
  <2>1. k \in 1 .. Len(BootLog[b]) /\ m = Len(BootLog[b]) - 1
    BY <1>5, <1>2, <1>12 DEF n
  <2>2. \A j \in 1 .. m : rec[j] = IF j < k THEN BootLog[b][j] ELSE BootLog[b][j + 1]
    BY <1>7
  <2> HIDE DEF m
  <2>3. Told(rec, b)
    BY <1>9, <1>10, <1>11, <2>1, <2>2, ToldPlain
  <2> QED
    BY <2>3 DEF w, rec
<1>13. CASE ~(k <= n)
  <2>1. m <= Len(BootLog[b]) /\ \A j \in 1 .. m : j < k
    BY <1>5, <1>2, <1>13 DEF n
  <2>2. \A j \in 1 .. m : rec[j] = BootLog[b][j]
    BY <1>7, <2>1
  <2> HIDE DEF m
  <2>3. Told(rec, b)
    BY <1>9, <1>10, <1>11, <2>1, <2>2, ToldPlain
  <2> QED
    BY <2>3 DEF w, rec
<1> QED
  BY <1>12, <1>13

LEMMA SwapTold ==
    ASSUME NEW b \in Boots, NEW k \in 1 .. Len(WholeLog(b)) - 1
    PROVE  Told([WholeLog(b) EXCEPT ![k] = WholeLog(b)[k + 1], ![k + 1] = WholeLog(b)[k]], b)
<1> DEFINE w == WholeLog(b)
           log == BootLog[b]
           n == Len(log)
           rec == [w EXCEPT ![k] = w[k + 1], ![k + 1] = w[k]]
<1>1. PICK T : IsWhole(b, T, w, n)
  BY WholeShape
<1>2. /\ w \in Seq(T) /\ n \in Nat /\ Len(w) \in {n, n + 1}
      /\ \A i \in 1 .. n : w[i] = log[i] /\ Plain(w[i])
      /\ Len(w) = n + 1 => Ends(w[n + 1])
  BY <1>1 DEF IsWhole
<1>3. k \in 1 .. Len(w) - 1
  OBVIOUS
<1> HIDE DEF w, log
<1>4. /\ k \in Nat /\ 1 <= k /\ k + 1 <= Len(w) /\ Len(w) \in Nat /\ k <= n
      /\ k \in 1 .. Len(w) /\ k + 1 \in 1 .. Len(w)
  BY <1>2, <1>3
<1>5. /\ rec \in Seq(T) /\ Len(rec) = Len(w) /\ rec[k] = w[k + 1] /\ rec[k + 1] = w[k]
      /\ \A i \in 1 .. Len(w) : i # k /\ i # k + 1 => rec[i] = w[i]
  <2>1. w \in [1 .. Len(w) -> T]
    BY <1>2
  <2>2. /\ rec \in [1 .. Len(w) -> T] /\ rec[k] = w[k + 1] /\ rec[k + 1] = w[k]
        /\ \A i \in 1 .. Len(w) : i # k /\ i # k + 1 => rec[i] = w[i]
    BY <1>4, <2>1
  <2> HIDE DEF rec
  <2>3. rec \in Seq(T) /\ Len(rec) = Len(w)
    BY <1>4, <2>2, FunIsSeq
  <2> QED
    BY <2>2, <2>3
<1> HIDE DEF rec
<1>6. rec \in Seq(T) /\ Len(rec) = Len(w)
  BY <1>5
<1>7. CASE k < n
  <2>0. k \in 1 .. n /\ k + 1 \in 1 .. n
    BY <1>2, <1>4, <1>7
  <2>1. ASSUME NEW i \in 1 .. n PROVE Plain(rec[i])
    <3>1. i \in 1 .. Len(w)
      BY <1>2, <1>4
    <3> QED
      BY <1>2, <1>5, <2>0, <3>1
  <2>2. ASSUME NEW j \in n + 1 .. Len(rec) PROVE Ends(rec[j]) /\ j = n + 1
    <3>1. j \in 1 .. Len(w) /\ j # k /\ j # k + 1 /\ j = n + 1 /\ Len(w) = n + 1
      BY <1>2, <1>4, <1>6, <1>7
    <3> QED
      BY <1>2, <1>5, <3>1
  <2>3. n \in 0 .. Len(rec) /\ (n < Len(rec) => n + 1 \in n + 1 .. Len(rec))
    BY <1>2, <1>6
  <2>4. Reads(rec, n)
    <3>1. \A i \in 1 .. n : ~Stops(rec[i])
      BY <2>1, PlainReads
    <3>2. n < Len(rec) => Stops(rec[n + 1])
      BY <2>2, <2>3, PlainReads
    <3> QED
      BY <2>3, <3>1, <3>2 DEF Reads
  <2>5. \A j \in 1 .. n : rec[j].alg = "SHA-384"
    BY <2>1, PlainReads
  <2>6. /\ k \in 1 .. Len(BootLog[b]) - 1
        /\ n = Len(BootLog[b]) /\ rec[k] = BootLog[b][k + 1] /\ rec[k + 1] = BootLog[b][k]
        /\ \A j \in 1 .. n : j # k /\ j # k + 1 => rec[j] = BootLog[b][j]
    <3>1. k \in 1 .. n - 1 /\ \A j \in 1 .. n : j \in 1 .. Len(w)
      BY <1>2, <1>4, <1>7
    <3>2. rec[k] = log[k + 1] /\ rec[k + 1] = log[k]
      BY <1>2, <1>5, <2>0
    <3>3. \A j \in 1 .. n : j # k /\ j # k + 1 => rec[j] = log[j]
      BY <1>2, <1>5, <3>1
    <3> QED
      BY <3>1, <3>2, <3>3 DEF log
  <2> HIDE DEF n
  <2>7. Told(rec, b)
    BY <1>6, <2>4, <2>5, <2>6, ToldPlain
  <2> QED
    BY <2>7 DEF rec, w
<1>8. CASE k >= n
  <2> DEFINE m == n - 1
  <2>1. k = n /\ Len(w) = n + 1 /\ m \in Nat /\ m + 1 = k /\ m < Len(rec) /\ m <= n
    BY <1>2, <1>4, <1>6, <1>8
  <2>2. \A i \in 1 .. m : rec[i] = log[i] /\ Plain(rec[i])
    <3>1. \A i \in 1 .. m : i \in 1 .. n /\ i \in 1 .. Len(w) /\ i # k /\ i # k + 1
      BY <1>2, <2>1
    <3> QED
      BY <1>2, <1>5, <3>1
  <2>3. Ends(rec[m + 1])
    <3>1. rec[m + 1] = w[n + 1]
      BY <1>5, <2>1
    <3> QED
      BY <1>2, <2>1, <3>1
  <2>4. Reads(rec, m)
    <3>1. \A i \in 1 .. m : ~Stops(rec[i])
      BY <2>2, PlainReads
    <3>2. Stops(rec[m + 1])
      BY <2>3, PlainReads
    <3>3. m \in 0 .. Len(rec)
      BY <2>1, <1>4, <1>6
    <3> QED
      BY <3>1, <3>2, <3>3 DEF Reads
  <2>5. \A j \in 1 .. m : rec[j].alg = "SHA-384"
    BY <2>2, PlainReads
  <2>6. m <= Len(BootLog[b]) /\ \A j \in 1 .. m : rec[j] = BootLog[b][j]
    BY <2>1, <2>2 DEF log
  <2> HIDE DEF m
  <2>7. Told(rec, b)
    BY <1>6, <2>4, <2>5, <2>6, ToldPlain
  <2> QED
    BY <2>7 DEF rec, w
<1> QED
  BY <1>2, <1>4, <1>7, <1>8

LEMMA AlgTold ==
    ASSUME NEW b \in Boots, NEW k \in 1 .. Len(WholeLog(b))
    PROVE  Told([WholeLog(b) EXCEPT ![k].alg = "SHA-256"], b)
<1> DEFINE w == WholeLog(b)
           log == BootLog[b]
           n == Len(log)
           x == [w[k] EXCEPT !.alg = "SHA-256"]
           rec == [w EXCEPT ![k] = x]
<1>1. PICK T : IsWhole(b, T, w, n)
  BY WholeShape
<1>2. /\ w \in Seq(T) /\ n \in Nat /\ Len(w) \in {n, n + 1}
      /\ \A i \in 1 .. n : w[i] = log[i] /\ Plain(w[i])
      /\ Len(w) = n + 1 => Ends(w[n + 1])
  BY <1>1 DEF IsWhole
<1>3. k \in 1 .. Len(w) /\ [WholeLog(b) EXCEPT ![k].alg = "SHA-256"] = rec
  OBVIOUS
<1> HIDE DEF w
<1>4. k \in Nat /\ 1 <= k /\ k <= Len(w) /\ Len(w) \in Nat
  BY <1>2, <1>3
<1>5. Plain(w[k]) \/ Ends(w[k])
  <2>1. k \in 1 .. n \/ (k = n + 1 /\ Len(w) = n + 1)
    BY <1>2, <1>4
  <2> QED
    BY <1>2, <2>1
<1>6. x.alg = "SHA-256" /\ (Stops(x) <=> Stops(w[k]))
  BY <1>5, PlainReads
<1> DEFINE U == T \cup {x}
<1>7. rec \in Seq(U) /\ Len(rec) = Len(w) /\ rec[k] = x /\ \A i \in 1 .. Len(w) : i # k => rec[i] = w[i]
  <2>1. w \in [1 .. Len(w) -> T] /\ Len(w) \in Nat
    BY <1>2
  <2> HIDE DEF x
  <2>2. rec \in [1 .. Len(w) -> U] /\ rec[k] = x /\ \A i \in 1 .. Len(w) : i # k => rec[i] = w[i]
    BY <1>3, <2>1
  <2> HIDE DEF U, rec
  <2>3. rec \in Seq(U) /\ Len(rec) = Len(w)
    BY <2>1, <2>2, FunIsSeq
  <2> QED
    BY <2>2, <2>3
<1> HIDE DEF U, rec, x, n
<1>8. rec \in Seq(U) /\ Len(rec) = Len(w)
  BY <1>7
<1>9. ASSUME NEW i \in 1 .. Len(w) PROVE Stops(rec[i]) <=> Stops(w[i])
  <2>1. CASE i = k
    BY <1>6, <1>7, <2>1
  <2>2. CASE i # k
    <3>1. rec[i] = w[i]
      BY <1>7, <2>2
    <3> QED
      BY <3>1
  <2> QED
    BY <2>1, <2>2
<1>10. (\A i \in 1 .. n : i \in 1 .. Len(w)) /\ n \in 0 .. Len(rec)
       /\ (n < Len(rec) => n + 1 \in 1 .. Len(w) /\ Len(w) = n + 1)
  BY <1>2, <1>8
<1>11. Reads(rec, n)
  <2>1. \A i \in 1 .. n : ~Stops(w[i])
    BY <1>2, PlainReads
  <2>2. \A i \in 1 .. n : ~Stops(rec[i])
    BY <1>9, <1>10, <2>1
  <2>3. n < Len(rec) => Stops(w[n + 1])
    BY <1>2, <1>10, PlainReads
  <2>4. n < Len(rec) => Stops(rec[n + 1])
    BY <1>9, <1>10, <2>3
  <2> QED
    BY <1>10, <2>2, <2>4 DEF Reads
<1>12. \A i \in 1 .. n : w[i].alg = "SHA-384"
  BY <1>2, PlainReads
<1>13. \A i \in 1 .. n : i # k => rec[i] = log[i] /\ rec[i].alg = "SHA-384"
  BY <1>2, <1>7, <1>10, <1>12
<1>14. CASE k \in 1 .. n
  <2> DEFINE s == SubSeq(rec, 1, n)
             r == RemoveAt(s, k)
             V == Sha384(U)
  <2>1. s \in Seq(U) /\ Len(s) = n /\ \A i \in 1 .. n : s[i] = rec[i]
    BY <1>2, <1>8, <1>10
  <2>2. ReadRecords(rec).events = Keep(s, V)
    BY <1>8, <1>11, ReadsPart
  <2> HIDE DEF s
  <2>3. /\ r \in Seq(U) /\ Len(r) = n - 1
        /\ \A i \in 1 .. n - 1 : r[i] = IF i < k THEN s[i] ELSE s[i + 1]
    <3>1. s \in Seq(U) /\ k \in 1 .. Len(s)
      BY <1>14, <2>1
    <3>2. /\ r \in Seq(U) /\ Len(r) = Len(s) - 1
          /\ \A i \in 1 .. Len(s) - 1 : r[i] = IF i < k THEN s[i] ELSE s[i + 1]
      BY <3>1, RemoveFacts
    <3> QED
      BY <2>1, <3>2
  <2> HIDE DEF r
  <2>4. \A i \in 1 .. n : i # k => s[i] = log[i] /\ s[i].alg = "SHA-384"
    BY <1>13, <2>1
  <2>5. ASSUME NEW i \in 1 .. n - 1
        PROVE  r[i] = (IF i < k THEN log[i] ELSE log[i + 1]) /\ r[i].alg = "SHA-384"
    <3>1. CASE i < k
      <4>1. i \in 1 .. n /\ i # k
        BY <1>2, <3>1
      <4> QED
        BY <2>3, <2>4, <3>1, <4>1
    <3>2. CASE ~(i < k)
      <4>1. i + 1 \in 1 .. n /\ i + 1 # k
        BY <1>2, <1>4, <3>2
      <4> QED
        BY <2>3, <2>4, <3>2, <4>1
    <3> QED
      BY <3>1, <3>2
  <2>6. Keep(r, V) = r
    <3>1. r \in Seq(U)
      BY <2>3
    <3>2. \A i \in 1 .. Len(r) : r[i] \in U
      BY <3>1
    <3>3. \A i \in 1 .. Len(r) : r[i] \in V
      BY <2>3, <2>5, <3>2 DEF Sha384
    <3> HIDE DEF V
    <3> QED
      BY <3>1, <3>3, KeepAll
  <2>7. Keep(r, V) = Keep(s, V)
    <3>1. s[k] = x
      BY <1>7, <1>14, <2>1
    <3>2. s[k] \notin V
      BY <1>6, <3>1 DEF Sha384
    <3>3. s \in Seq(U) /\ k \in 1 .. Len(s)
      BY <1>14, <2>1
    <3> HIDE DEF V
    <3> QED
      BY <3>2, <3>3, KeepRemoved DEF r
  <2>8. ReadRecords(rec).events = r
    BY <2>2, <2>6, <2>7
  <2>9. IsShort(log, r, k)
    BY <1>14, <2>3, <2>5 DEF IsShort, n
  <2>10. ASSUME NEW R, log \in Seq(R) PROVE Variant(R, log, r)
    BY <2>3, <2>9, <2>10, VariantType
  <2>11. Told(rec, b)
    BY <2>8, <2>10 DEF Told
  <2> QED
    BY <1>3, <2>11
<1>15. CASE k \notin 1 .. n
  <2>1. \A j \in 1 .. n : rec[j].alg = "SHA-384" /\ rec[j] = BootLog[b][j]
    BY <1>13, <1>15
  <2>2. n <= Len(BootLog[b])
    BY <1>2 DEF n
  <2>3. Told(rec, b)
    BY <1>8, <1>11, <2>1, <2>2, ToldPlain
  <2> QED
    BY <1>3, <2>3
<1> QED
  BY <1>14, <1>15

LEMMA DentTold ==
    ASSUME NEW b \in Boots, NEW k \in 1 .. Len(WholeLog(b)), NEW y \in Dents(WholeLog(b)[k])
    PROVE  Told([WholeLog(b) EXCEPT ![k] = y], b)
<1> DEFINE rec == [WholeLog(b) EXCEPT ![k] = y]
           n == Len(BootLog[b])
           K == ReadRecords(rec).events
<1>1. /\ (\E U : rec \in Seq(U)) /\ Reads(rec, n)
      /\ \A j \in 1 .. n : rec[j].alg = "SHA-384" /\ Alike(rec[j], BootLog[b][j])
  BY DentReads
<1> HIDE DEF rec, n
<1>2. PICK U : rec \in Seq(U)
  BY <1>1
<1>3. K \in Seq(U) /\ Len(K) = n /\ \A j \in 1 .. n : K[j] = rec[j]
  BY <1>1, <1>2, ReadsPlain
<1> HIDE DEF K
<1>4. Like(BootLog[b], K)
  BY <1>1, <1>3 DEF Like, n
<1>5. Told(rec, b)
  BY <1>3, <1>4 DEF Told, K
<1> QED
  BY <1>5 DEF rec

(* Every copy of a log. *)
LEMMA FileTold ==
    ASSUME NEW file \in CcelFiles
    PROVE  file.boot \in Boots /\ Told(Records(file), file.boot)
<1> DEFINE b == file.boot
           kind == file.fault.kind
           k == file.fault.at
           w == WholeLog(b)
<1>1. b \in Boots /\ file.fault \in Faults \cup {Undamaged}
  BY DEF CcelFiles
<1>2. Records(file) = Damaged(w, kind, k)
  BY DEF Records
<1>3. /\ kind \in {"cut", "torn", "lost", "no SHA-384", "data", "unreadable"} => k \in 1 .. Len(w)
      /\ kind = "swapped" => k \in 1 .. Len(w) - 1
  <2>1. CASE file.fault = Undamaged
    <3>1. kind = "none"
      BY <2>1 DEF Undamaged
    <3> QED
      BY <3>1
  <2>2. CASE file.fault \in Faults
    <3> HIDE DEF b
    <3> QED
      BY <1>1, <2>2, LogAssumption, Zenon
  <2> QED
    BY <1>1, <2>1, <2>2
<1>4. kind = "swapped" => k \in 1 .. Len(w) - 1
  BY <1>3
<1> HIDE DEF b, kind, k
<1>5. CASE kind = "cut"
  <2>1. Damaged(w, kind, k) = SubSeq(w, 1, k - 1)
    BY <1>5 DEF Damaged
  <2>2. Told(SubSeq(w, 1, k - 1), b)
    BY <1>1, <1>3, <1>5, CutTold
  <2> QED
    BY <1>1, <1>2, <2>1, <2>2 DEF b
<1>6. CASE kind = "torn"
  <2> DEFINE rec == SubSeq([w EXCEPT ![k].whole = FALSE], 1, k)
  <2>1. Damaged(w, kind, k) = rec
    BY <1>6 DEF Damaged
  <2>2. ~ReadRecords(rec).ok
    BY <1>1, <1>3, <1>6, CutTold
  <2> HIDE DEF rec
  <2>3. Told(rec, b)
    BY <2>2 DEF Told
  <2> QED
    BY <1>1, <1>2, <2>1, <2>3 DEF b
<1>7. CASE kind = "lost"
  <2>1. Damaged(w, kind, k) = RemoveAt(w, k)
    BY <1>7 DEF Damaged
  <2>2. Told(RemoveAt(w, k), b)
    BY <1>1, <1>3, <1>7, LostTold
  <2> QED
    BY <1>1, <1>2, <2>1, <2>2 DEF b
<1>8. CASE kind = "swapped"
  <2> DEFINE rec == [w EXCEPT ![k] = w[k + 1], ![k + 1] = w[k]]
  <2>1. Damaged(w, kind, k) = rec
    BY <1>8 DEF Damaged
  <2>2. Told(rec, b)
    BY <1>1, <1>4, <1>8, SwapTold
  <2> QED
    BY <1>1, <1>2, <2>1, <2>2 DEF b
<1>9. CASE kind = "no SHA-384"
  <2> DEFINE rec == [w EXCEPT ![k].alg = "SHA-256"]
  <2>1. Damaged(w, kind, k) = rec
    BY <1>9 DEF Damaged
  <2>2. Told(rec, b)
    BY <1>1, <1>3, <1>9, AlgTold
  <2> QED
    BY <1>1, <1>2, <2>1, <2>2 DEF b
<1>10. CASE kind \notin {"cut", "torn", "lost", "swapped", "no SHA-384", "data", "unreadable"}
  <2>1. Damaged(w, kind, k) = w
    BY <1>10 DEF Damaged
  <2>2. Told(w, b)
    BY <1>1, UndamagedTold
  <2> QED
    BY <1>1, <1>2, <2>1, <2>2 DEF b
<1>11. CASE kind \in {"data", "unreadable"}
  <2> DEFINE y == IF kind = "data" THEN [w[k] EXCEPT !.data = <<"garbled">>]
                                 ELSE [w[k] EXCEPT !.readable = FALSE]
             rec == [w EXCEPT ![k] = y]
  <2>1. Damaged(w, kind, k) = rec
    BY <1>11 DEF Damaged
  <2>2. y \in Dents(w[k])
    BY DEF Dents
  <2> HIDE DEF y
  <2>3. Told(rec, b)
    BY <1>1, <1>3, <1>11, <2>2, DentTold
  <2> QED
    BY <1>1, <1>2, <2>1, <2>3 DEF b
<1> QED
  BY <1>5, <1>6, <1>7, <1>8, <1>9, <1>10, <1>11

(* What is kept of the same events are the same events. *)
LEMMA KeepLike ==
    ASSUME NEW S, NEW s \in Seq(S), NEW t \in Seq(S), Like(s, t), NEW V,
           \A x, y \in S : Alike(y, x) => (x \in V <=> y \in V)
    PROVE  Like(Keep(s, V), Keep(t, V))
<1> DEFINE N == Len(s)
           f(m) == SubSeq(s, 1, m)
           g(m) == SubSeq(t, 1, m)
           T == {m \in Nat : m <= N => Like(Keep(f(m), V), Keep(g(m), V))}
<1>1. N \in Nat /\ Len(t) = N /\ \A i \in 1 .. N : Alike(t[i], s[i])
  BY DEF Like
<1>2. 0 \in T
  <2>1. f(0) = <<>> /\ g(0) = <<>>
    OBVIOUS
  <2>2. Like(Keep(<<>>, V), Keep(<<>>, V))
    <3>1. Keep(<<>>, V) = <<>>
      BY KeepEmpty
    <3> QED
      BY <3>1 DEF Like
  <2> HIDE DEF f, g
  <2> QED
    BY <2>1, <2>2
<1>3. ASSUME NEW m \in Nat, m \in T PROVE m + 1 \in T
  <2> SUFFICES ASSUME m + 1 <= N PROVE Like(Keep(f(m + 1), V), Keep(g(m + 1), V))
    OBVIOUS
  <2>1. m + 1 \in 1 .. N /\ m <= N
    BY <1>1
  <2> DEFINE x == s[m + 1]
             y == t[m + 1]
             a == f(m)
             c == g(m)
  <2>2. x \in S /\ y \in S /\ Alike(y, x)
    BY <1>1, <2>1
  <2>3. a \in Seq(S) /\ c \in Seq(S) /\ f(m + 1) = Append(a, x) /\ g(m + 1) = Append(c, y)
    BY <1>1, <2>1
  <2>4. Like(Keep(a, V), Keep(c, V))
    BY <1>3, <2>1
  <2>5. x \in V <=> y \in V
    BY <2>2
  <2> HIDE DEF f, g, x, y, a, c
  <2> DEFINE A == Keep(a, V)
             C == Keep(c, V)
  <2>6. /\ Keep(Append(a, x), V) = IF x \in V THEN Append(A, x) ELSE A
        /\ Keep(Append(c, y), V) = IF y \in V THEN Append(C, y) ELSE C
    BY <2>2, <2>3, KeepAppend
  <2>7. A \in Seq(S) /\ C \in Seq(S)
    BY <2>3, KeepType
  <2>8. Like(A, C)
    BY <2>4
  <2> HIDE DEF A, C
  <2>9. Like(Append(A, x), Append(C, y))
    <3>1. Len(Append(A, x)) = Len(A) + 1 /\ Len(Append(C, y)) = Len(A) + 1 /\ Len(A) \in Nat
      BY <2>2, <2>7, <2>8 DEF Like
    <3>2. ASSUME NEW i \in 1 .. Len(A) + 1 PROVE Alike(Append(C, y)[i], Append(A, x)[i])
      <4>1. CASE i \in 1 .. Len(A)
        <5>1. Append(C, y)[i] = C[i] /\ Append(A, x)[i] = A[i]
          BY <2>2, <2>7, <2>8, <4>1 DEF Like
        <5> QED
          BY <2>8, <4>1, <5>1 DEF Like
      <4>2. CASE i = Len(A) + 1
        <5>1. i = Len(C) + 1 /\ Len(C) \in Nat
          BY <2>7, <2>8, <4>2 DEF Like
        <5>2. Append(C, y)[i] = y
          BY <2>2, <2>7, <5>1
        <5>3. Append(A, x)[i] = x
          BY <2>2, <2>7, <4>2
        <5> QED
          BY <2>2, <5>2, <5>3
      <4> QED
        BY <3>1, <4>1, <4>2
    <3> QED
      BY <3>1, <3>2 DEF Like
  <2> QED
    BY <2>3, <2>5, <2>6, <2>8, <2>9
<1>4. Nat \subseteq T
  <2> HIDE DEF T
  <2> QED
    BY <1>2, <1>3, SetInduction
<1>5. Like(Keep(f(N), V), Keep(g(N), V))
  <2> HIDE DEF f, g, N
  <2> QED
    BY <1>1, <1>4
<1>6. f(N) = s /\ g(N) = t
  BY <1>1, SubSeqFull
<1> QED
  BY <1>5, <1>6

-----------------------------------------------------------------------------
(* A log that shows RTMR[0] of a boot and from which platform data can be    *)
(* read has the data of that boot, whatever happened to the log.             *)

(* The separator is at s, the ACPI events follow it, then the boot variables. *)
TypesOf(K, s) ==
    /\ \A i \in 1 .. s - 1 : K[i].type # "SEPARATOR" /\ K[i].type # "VARIABLE_BOOT"
    /\ K[s].type = "SEPARATOR"
    /\ \A i \in s + 1 .. 11 : K[i].type = "PLATFORM_CONFIG_FLAGS"
    /\ \A i \in 12 .. Len(K) : K[i].type = "VARIABLE_BOOT"

DigestsFrom(p, X) ==
    /\ X[7].digest = <<"dbx">> /\ X[8].digest = Separator
    /\ X[9].digest = p.acpi.loader /\ X[10].digest = p.acpi.rsdp /\ X[11].digest = p.acpi.tables
    /\ X[12].digest = p.order
    /\ \A i \in 1 .. Len(p.order) : X[12 + i].digest = p.options[p.order[i]]

NamesFrom(p, X) ==
    /\ X[12].name = "BootOrder"
    /\ \A i \in 1 .. Len(p.order) : X[12 + i].name = p.order[i]

LEMMA FirmFacts ==
    ASSUME NEW p, NEW X, Len(p.order) \in Nat, Len(X) = 12 + Len(p.order), Firm(p, X)
    PROVE  TypesOf(X, 8) /\ DigestsFrom(p, X) /\ NamesFrom(p, X)
<1> DEFINE hob == <<"hob", Section(p, "TD_HOB").base, MemoryMap(p)>>
           cfv == Raw(p.fw, Section(p, "TD_CFV"))
<1>0. /\ X[1] = Event(1, "PLATFORM_CONFIG_FLAGS", hob)
      /\ X[2] = Event(1, "FIRMWARE_BLOB2", cfv)
      /\ \A i \in 1 .. 5 : X[2 + i] = Event(1, "VARIABLE_DRIVER_CONFIG", SecureBootVars[i])
      /\ X[8] = Event(1, "SEPARATOR", Separator)
      /\ X[9] = Event(1, "PLATFORM_CONFIG_FLAGS", p.acpi.loader)
      /\ X[10] = Event(1, "PLATFORM_CONFIG_FLAGS", p.acpi.rsdp)
      /\ X[11] = Event(1, "PLATFORM_CONFIG_FLAGS", p.acpi.tables)
      /\ X[12] = Variable("BootOrder", p.order)
      /\ \A i \in 1 .. Len(p.order) : X[12 + i] = Variable(p.order[i], p.options[p.order[i]])
  BY Zenon DEF Firm
<1> HIDE DEF hob, cfv
<1>1. /\ X[1].type = "PLATFORM_CONFIG_FLAGS" /\ X[2].type = "FIRMWARE_BLOB2"
      /\ X[8].type = "SEPARATOR" /\ X[8].digest = Separator
      /\ X[9].type = "PLATFORM_CONFIG_FLAGS" /\ X[9].digest = p.acpi.loader
      /\ X[10].type = "PLATFORM_CONFIG_FLAGS" /\ X[10].digest = p.acpi.rsdp
      /\ X[11].type = "PLATFORM_CONFIG_FLAGS" /\ X[11].digest = p.acpi.tables
      /\ X[12].type = "VARIABLE_BOOT" /\ X[12].digest = p.order /\ X[12].name = "BootOrder"
  BY <1>0 DEF Event, Variable, Record
<1>2. \A i \in 1 .. 5 : /\ X[2 + i].type = "VARIABLE_DRIVER_CONFIG"
                        /\ X[2 + i].digest = SecureBootVars[i]
  <2> TAKE i \in 1 .. 5
  <2>1. X[2 + i] = Event(1, "VARIABLE_DRIVER_CONFIG", SecureBootVars[i])
    BY <1>0, Zenon
  <2> QED
    BY <2>1 DEF Event, Variable, Record
<1>3. \A i \in 1 .. Len(p.order) : /\ X[12 + i].type = "VARIABLE_BOOT" /\ X[12 + i].name = p.order[i]
                                   /\ X[12 + i].digest = p.options[p.order[i]]
  <2> TAKE i \in 1 .. Len(p.order)
  <2>1. X[12 + i] = Variable(p.order[i], p.options[p.order[i]])
    BY <1>0, Zenon
  <2> QED
    BY <2>1 DEF Event, Variable, Record
<1>4. X[7].digest = <<"dbx">>
  <2>1. 5 \in 1 .. 5 /\ 2 + 5 = 7
    OBVIOUS
  <2>2. SecureBootVars[5] = <<"dbx">>
    BY DEF SecureBootVars
  <2> QED
    BY <1>2, <2>1, <2>2
<1>5. ASSUME NEW i \in 1 .. 7 PROVE X[i].type # "SEPARATOR" /\ X[i].type # "VARIABLE_BOOT"
  <2>1. CASE i > 2
    <3>1. i - 2 \in 1 .. 5 /\ 2 + (i - 2) = i
      BY <2>1
    <3> QED
      BY <1>2, <3>1
  <2>2. CASE i = 1 \/ i = 2
    BY <1>1, <2>2
  <2> QED
    BY <2>1, <2>2
<1>6. \A i \in 9 .. 11 : X[i].type = "PLATFORM_CONFIG_FLAGS"
  <2>1. \A i \in 9 .. 11 : i = 9 \/ i = 10 \/ i = 11
    OBVIOUS
  <2> QED
    BY <1>1, <2>1
<1>7. ASSUME NEW i \in 12 .. Len(X) PROVE X[i].type = "VARIABLE_BOOT"
  <2>1. CASE i = 12
    BY <1>1, <2>1
  <2>2. CASE i # 12
    <3>1. i - 12 \in 1 .. Len(p.order) /\ 12 + (i - 12) = i
      BY <2>2
    <3> QED
      BY <1>3, <3>1
  <2> QED
    BY <2>1, <2>2
<1>8. TypesOf(X, 8)
  <2>1. 8 - 1 = 7 /\ 8 + 1 = 9
    OBVIOUS
  <2> QED
    BY <1>1, <1>5, <1>6, <1>7, <2>1 DEF TypesOf
<1>9. DigestsFrom(p, X)
  BY <1>1, <1>3, <1>4 DEF DigestsFrom
<1>10. NamesFrom(p, X)
  BY <1>1, <1>3 DEF NamesFrom
<1> QED
  BY <1>8, <1>9, <1>10

Named(p, K) ==
    /\ K[12].name = "BootOrder"
    /\ \A i \in 1 .. Len(p.order) : /\ K[12 + i].name \in DOMAIN p.options
                                    /\ K[12 + i].digest = p.options[K[12 + i].name]
    /\ \A i \in 1 .. Len(p.order) : \E j \in 1 .. Len(p.order) : K[12 + j].name = p.order[i]

(* Not the same options, but for two neighbours. *)
Unexchanged(p, q) ==
    \A i \in 1 .. Len(p.order) - 1 :
        /\ p.options[p.order[i]] = q.options[p.order[i + 1]]
        /\ p.options[p.order[i + 1]] = q.options[p.order[i]]
        => p.options[p.order[i]] = p.options[p.order[i + 1]]

LEMMA OrderFacts ==
    ASSUME NEW b \in Boots, NEW c \in Boots, NEW p, p = Platforms[b.platform], NEW q, q = Platforms[c.platform]
    PROVE  /\ p.order \in Seq(DOMAIN p.options) /\ DOMAIN p.order = 1 .. Len(p.order) /\ Len(p.order) \in Nat
           /\ \A i \in 1 .. Len(q.order) : q.options[q.order[i]] # p.order
           /\ q.acpi.tables # p.order
           /\ p.order = q.order => Unexchanged(p, q)
<1>1. p.order \in Seq(DOMAIN p.options) /\ q.order \in Seq(DOMAIN q.options)
  BY PlatformAssumption, Zenon
<1>2. (\A i \in DOMAIN q.order : q.options[q.order[i]] # p.order) /\ q.acpi.tables # p.order
  BY PlatformAssumption, Zenon
<1>3. p.order = q.order => Unexchanged(p, q)
  BY PlatformAssumption, Zenon DEF Unexchanged
<1>4. /\ DOMAIN p.order = 1 .. Len(p.order) /\ Len(p.order) \in Nat
      /\ DOMAIN q.order = 1 .. Len(q.order) /\ Len(q.order) \in Nat
  BY <1>1
<1> QED
  BY <1>1, <1>2, <1>3, <1>4, Zenon

(* The boot variables in their places, and the same boot order. *)
LEMMA NamedSame ==
    ASSUME NEW p, NEW q, NEW X, NEW K, p.order \in Seq(DOMAIN p.options), q.order = p.order,
           NamesFrom(q, X), DigestsFrom(p, K), \A i \in 0 .. Len(p.order) : K[12 + i] = X[12 + i]
    PROVE  Named(p, K)
<1> DEFINE n == Len(p.order)
<1>0. n \in Nat /\ \A i \in 1 .. n : p.order[i] \in DOMAIN p.options
  OBVIOUS
<1>1. K[12].name = "BootOrder"
  <2>1. 0 \in 0 .. n /\ 12 + 0 = 12
    BY <1>0
  <2>2. K[12] = X[12]
    BY <2>1
  <2> QED
    BY <2>2 DEF NamesFrom
<1>2. \A i \in 1 .. n : K[12 + i].name = p.order[i]
  <2>1. \A i \in 1 .. n : i \in 0 .. n
    BY <1>0
  <2>2. \A i \in 1 .. n : X[12 + i].name = p.order[i]
    BY DEF NamesFrom
  <2> QED
    BY <2>1, <2>2
<1>3. \A i \in 1 .. n : K[12 + i].digest = p.options[p.order[i]]
  BY DEF DigestsFrom
<1> QED
  BY <1>0, <1>1, <1>2, <1>3 DEF Named

(* Two of them exchanged. *)
LEMMA NamedSwapped ==
    ASSUME NEW p, NEW q, NEW X, NEW K, p.order \in Seq(DOMAIN p.options), q.order = p.order,
           NamesFrom(q, X), DigestsFrom(q, X), DigestsFrom(p, K),
           NEW h \in 1 .. Len(p.order) - 1, K[12 + h] = X[12 + (h + 1)], K[12 + (h + 1)] = X[12 + h],
           \A i \in 0 .. Len(p.order) : i # h /\ i # h + 1 => K[12 + i] = X[12 + i],
           Unexchanged(p, q)
    PROVE  Named(p, K)
<1> DEFINE n == Len(p.order)
           m == p.order[h]
           o == p.order[h + 1]
<1>0. n \in Nat /\ (\A i \in 1 .. n : p.order[i] \in DOMAIN p.options) /\ h \in 1 .. n /\ h + 1 \in 1 .. n
  OBVIOUS
<1>1. K[12].name = "BootOrder"
  <2>1. 0 \in 0 .. n /\ 12 + 0 = 12 /\ 0 # h /\ 0 # h + 1
    BY <1>0
  <2>2. K[12] = X[12]
    BY <2>1
  <2> QED
    BY <2>2 DEF NamesFrom
<1>2. \A i \in 1 .. n : X[12 + i].name = p.order[i] /\ X[12 + i].digest = q.options[p.order[i]]
  BY DEF NamesFrom, DigestsFrom
<1>3. \A i \in 1 .. n : K[12 + i].digest = p.options[p.order[i]]
  BY DEF DigestsFrom
<1>4. K[12 + h].name = o /\ K[12 + (h + 1)].name = m
  BY <1>0, <1>2
<1>5. q.options[o] = p.options[m] /\ q.options[m] = p.options[o]
  <2>1. X[12 + (h + 1)].digest = q.options[o] /\ X[12 + h].digest = q.options[m]
    BY <1>0, <1>2
  <2>2. K[12 + h].digest = p.options[m] /\ K[12 + (h + 1)].digest = p.options[o]
    BY <1>0, <1>3
  <2> QED
    BY <2>1, <2>2
<1>6. p.options[m] = p.options[o]
  BY <1>5 DEF Unexchanged
<1>7. \A i \in 1 .. n : i # h /\ i # h + 1 => K[12 + i].name = p.order[i]
  <2>1. \A i \in 1 .. n : i \in 0 .. n
    BY <1>0
  <2> QED
    BY <1>2, <2>1
<1>8. ASSUME NEW i \in 1 .. n
      PROVE  K[12 + i].name \in DOMAIN p.options /\ K[12 + i].digest = p.options[K[12 + i].name]
  <2>1. CASE i = h
    BY <1>0, <1>3, <1>4, <1>6, <2>1
  <2>2. CASE i = h + 1
    BY <1>0, <1>3, <1>4, <1>6, <2>2
  <2>3. CASE i # h /\ i # h + 1
    BY <1>0, <1>3, <1>7, <2>3
  <2> QED
    BY <2>1, <2>2, <2>3
<1>9. ASSUME NEW i \in 1 .. n PROVE \E j \in 1 .. n : K[12 + j].name = p.order[i]
  <2>1. CASE i = h
    BY <1>0, <1>4, <2>1
  <2>2. CASE i = h + 1
    BY <1>0, <1>4, <2>2
  <2>3. CASE i # h /\ i # h + 1
    BY <1>7, <2>3
  <2> QED
    BY <2>1, <2>2, <2>3
<1> QED
  BY <1>1, <1>8, <1>9 DEF Named

(* Types of a variant with two neighbours exchanged before the boot order. *)
LEMMA SwappedTypes ==
    ASSUME NEW X, NEW K, NEW n \in Nat, Len(X) = 12 + n, Len(K) = 12 + n, TypesOf(X, 8),
           NEW j \in 1 .. 10, j # 7, IsSwap(X, K, j)
    PROVE  TypesOf(K, IF j = 8 THEN 9 ELSE 8)
<1> K[j] = X[j + 1] /\ K[j + 1] = X[j] /\ \A i \in 1 .. Len(X) : i # j /\ i # j + 1 => K[i] = X[i]
  BY DEF IsSwap
<1>1. /\ \A i \in 1 .. 7 : X[i].type # "SEPARATOR" /\ X[i].type # "VARIABLE_BOOT"
      /\ X[8].type = "SEPARATOR"
      /\ \A i \in 9 .. 11 : X[i].type = "PLATFORM_CONFIG_FLAGS"
      /\ \A i \in 12 .. Len(X) : X[i].type = "VARIABLE_BOOT"
  <2>1. 8 - 1 = 7 /\ 8 + 1 = 9
    OBVIOUS
  <2> QED
    BY <2>1 DEF TypesOf
<1>2. \A i \in 12 .. Len(K) : K[i].type = "VARIABLE_BOOT"
  <2>1. \A i \in 12 .. Len(K) : i \in 1 .. Len(X) /\ i # j /\ i # j + 1 /\ i \in 12 .. Len(X)
    OBVIOUS
  <2> QED
    BY <1>1, <2>1
<1>3. CASE j = 8
  <2>1. K[9].type = "SEPARATOR" /\ K[8].type = "PLATFORM_CONFIG_FLAGS"
    BY <1>1, <1>3
  <2>2. \A i \in 1 .. 7 : K[i].type # "SEPARATOR" /\ K[i].type # "VARIABLE_BOOT"
    <3>1. \A i \in 1 .. 7 : i \in 1 .. Len(X) /\ i # j /\ i # j + 1
      BY <1>3
    <3> QED
      BY <1>1, <3>1
  <2>3. \A i \in 1 .. 9 - 1 : i \in 1 .. 7 \/ i = 8
    OBVIOUS
  <2>4. \A i \in 1 .. 9 - 1 : K[i].type # "SEPARATOR" /\ K[i].type # "VARIABLE_BOOT"
    BY <2>1, <2>2, <2>3
  <2>5. \A i \in 9 + 1 .. 11 : K[i].type = "PLATFORM_CONFIG_FLAGS"
    <3>1. \A i \in 9 + 1 .. 11 : i \in 1 .. Len(X) /\ i # j /\ i # j + 1 /\ i \in 9 .. 11
      BY <1>3
    <3> QED
      BY <1>1, <3>1
  <2>6. TypesOf(K, 9)
    BY <1>2, <2>1, <2>4, <2>5 DEF TypesOf
  <2> QED
    BY <1>3, <2>6
<1>4. CASE j < 7
  <2>1. ASSUME NEW i \in 8 .. 11 PROVE K[i] = X[i]
    <3>1. i \in 1 .. Len(X) /\ i # j /\ i # j + 1
      BY <1>4
    <3> QED
      BY <3>1
  <2>2. ASSUME NEW i \in 1 .. 7 PROVE K[i].type # "SEPARATOR" /\ K[i].type # "VARIABLE_BOOT"
    <3>1. j \in 1 .. 7 /\ j + 1 \in 1 .. 7 /\ i \in 1 .. Len(X)
      BY <1>4
    <3>2. K[i] = X[i] \/ K[i] = X[j] \/ K[i] = X[j + 1]
      BY <3>1
    <3> QED
      BY <1>1, <3>1, <3>2
  <2>3. TypesOf(K, 8)
    <3>1. 8 - 1 = 7 /\ 8 + 1 = 9 /\ 8 \in 8 .. 11 /\ \A i \in 9 .. 11 : i \in 8 .. 11
      OBVIOUS
    <3> QED
      BY <1>1, <1>2, <2>1, <2>2, <3>1 DEF TypesOf
  <2> QED
    BY <1>4, <2>3
<1>5. CASE j > 8
  <2>1. ASSUME NEW i \in 1 .. 8 PROVE K[i] = X[i]
    <3>1. i \in 1 .. Len(X) /\ i # j /\ i # j + 1
      BY <1>5
    <3> QED
      BY <3>1
  <2>2. ASSUME NEW i \in 9 .. 11 PROVE K[i].type = "PLATFORM_CONFIG_FLAGS"
    <3>1. j \in 9 .. 11 /\ j + 1 \in 9 .. 11 /\ i \in 1 .. Len(X)
      BY <1>5
    <3>2. K[i] = X[i] \/ K[i] = X[j] \/ K[i] = X[j + 1]
      BY <3>1
    <3> QED
      BY <1>1, <3>1, <3>2
  <2>3. TypesOf(K, 8)
    <3>1. 8 - 1 = 7 /\ 8 + 1 = 9 /\ 8 \in 1 .. 8 /\ \A i \in 1 .. 7 : i \in 1 .. 8
      OBVIOUS
    <3> QED
      BY <1>1, <1>2, <2>1, <2>2, <3>1 DEF TypesOf
  <2> QED
    BY <1>5, <2>3
<1> QED
  BY <1>3, <1>4, <1>5

(* K is read from a log of boot c, and has the digests of boot b. *)
LEMMA Fitting ==
    ASSUME NEW b \in Boots, NEW c \in Boots, NEW p, p = Platforms[b.platform],
           NEW q, q = Platforms[c.platform], NEW R, NEW X, NEW K, Variant(R, X, K),
           Len(X) = 12 + Len(q.order), Firm(q, X), Len(K) = 12 + Len(p.order), DigestsFrom(p, K)
    PROVE  TypesOf(K, 9) \/ (TypesOf(K, 8) /\ Named(p, K))
<1> DEFINE n == Len(p.order)
<1>1. /\ p.order \in Seq(DOMAIN p.options) /\ n \in Nat
      /\ \A i \in 1 .. Len(q.order) : q.options[q.order[i]] # p.order
      /\ q.acpi.tables # p.order
  BY OrderFacts
<1>2. p.order = q.order => Unexchanged(p, q)
  BY OrderFacts
<1>3. Len(q.order) \in Nat
  BY OrderFacts
<1>4. TypesOf(X, 8) /\ DigestsFrom(q, X) /\ NamesFrom(q, X)
  BY <1>3, FirmFacts
<1>5. K[12].digest = p.order /\ K[7].digest = <<"dbx">>
  BY DEF DigestsFrom
<1>6. /\ X[12].digest = q.order /\ X[8].digest = Separator /\ X[11].digest = q.acpi.tables
      /\ \A i \in 1 .. Len(q.order) : X[12 + i].digest = q.options[q.order[i]]
  BY <1>4 DEF DigestsFrom
<1>7. X[13].digest # p.order \/ Len(q.order) = 0
  <2>1. Len(q.order) # 0 => 1 \in 1 .. Len(q.order) /\ 12 + 1 = 13
    BY <1>3
  <2> QED
    BY <1>1, <1>6, <2>1
<1>8. ASSUME Len(K) = Len(X), K[12] = X[12], \A i \in 0 .. n : K[12 + i] = X[12 + i]
      PROVE  Named(p, K)
  <2>1. q.order = p.order
    BY <1>5, <1>6, <1>8
  <2> QED
    BY <1>1, <1>4, <1>8, <2>1, NamedSame
<1>9. CASE IsPrefix_(X, K)
  <2>1. Len(K) <= Len(X) /\ \A i \in 1 .. Len(K) : K[i] = X[i]
    BY <1>9 DEF IsPrefix_
  <2>2. 12 \in 1 .. Len(K)
    BY <1>1
  <2>3. K[12] = X[12]
    BY <2>1, <2>2
  <2>4. q.order = p.order
    BY <1>5, <1>6, <2>3
  <2>5. Len(K) = Len(X)
    BY <2>4
  <2>6. \A i \in 0 .. n : 12 + i \in 1 .. Len(K)
    BY <1>1
  <2>7. Named(p, K)
    BY <1>8, <2>1, <2>3, <2>5, <2>6
  <2>8. TypesOf(K, 8)
    <3>1. \A i \in 1 .. Len(X) : K[i] = X[i]
      BY <2>1, <2>5
    <3>2. /\ \A i \in 1 .. 8 - 1 : i \in 1 .. Len(X)
          /\ 8 \in 1 .. Len(X)
          /\ \A i \in 8 + 1 .. 11 : i \in 1 .. Len(X)
          /\ \A i \in 12 .. Len(X) : i \in 1 .. Len(X)
      <4> DEFINE x == Len(X)  y == Len(q.order)
      <4>1. x = 12 + y /\ y \in Nat
        BY <1>3
      <4> HIDE DEF x, y
      <4>2. /\ \A i \in 1 .. 8 - 1 : i \in 1 .. x
            /\ 8 \in 1 .. x
            /\ \A i \in 8 + 1 .. 11 : i \in 1 .. x
            /\ \A i \in 12 .. x : i \in 1 .. x
        BY <4>1
      <4> QED
        BY <4>2 DEF x
    <3> QED
      BY <1>4, <2>5, <3>1, <3>2 DEF TypesOf
  <2> QED
    BY <2>7, <2>8
<1>10. ASSUME NEW j, IsShort(X, K, j) PROVE FALSE
  <2>1. /\ j \in 1 .. Len(X) /\ Len(K) = Len(X) - 1
        /\ \A i \in 1 .. Len(X) - 1 : K[i] = IF i < j THEN X[i] ELSE X[i + 1]
    BY <1>10 DEF IsShort
  <2>2. Len(q.order) = n + 1
    <3> DEFINE x == Len(X)  y == Len(q.order)  z == Len(K)
    <3>1. x = 12 + y /\ y \in Nat /\ z = 12 + n /\ z = x - 1 /\ n \in Nat
      BY <1>1, <1>3, <2>1
    <3> HIDE DEF x, y, z, n
    <3>2. y = n + 1
      BY <3>1
    <3> QED
      BY <3>2 DEF y
  <2>3. 12 \in 1 .. Len(X) - 1 /\ 12 + 1 = 13
    BY <1>1, <2>2
  <2>4. K[12] = X[12] \/ K[12] = X[13]
    BY <2>1, <2>3
  <2>5. CASE K[12] = X[12]
    <3>1. q.order = p.order
      BY <1>5, <1>6, <2>5
    <3> QED
      BY <1>1, <2>2, <3>1
  <2>6. CASE K[12] = X[13]
    BY <1>1, <1>5, <1>7, <2>2, <2>6
  <2> QED
    BY <2>4, <2>5, <2>6
<1>11. ASSUME NEW j, IsSwap(X, K, j) PROVE TypesOf(K, 9) \/ (TypesOf(K, 8) /\ Named(p, K))
  <2>1. /\ j \in 1 .. Len(X) - 1 /\ Len(K) = Len(X) /\ K[j] = X[j + 1] /\ K[j + 1] = X[j]
        /\ \A i \in 1 .. Len(X) : i # j /\ i # j + 1 => K[i] = X[i]
    BY <1>11 DEF IsSwap
  <2>2. Len(q.order) = n /\ Len(X) = 12 + n
    <3> DEFINE x == Len(X)  y == Len(q.order)  z == Len(K)
    <3>1. x = 12 + y /\ y \in Nat /\ z = 12 + n /\ z = x /\ n \in Nat
      BY <1>1, <1>3, <2>1
    <3> HIDE DEF x, y, z, n
    <3>2. y = n /\ x = 12 + n
      BY <3>1
    <3> QED
      BY <3>2 DEF x, y
  <2>3. j # 12
    <3> SUFFICES ASSUME j = 12 PROVE FALSE
      OBVIOUS
    <3>1. K[12] = X[13] /\ n # 0
      BY <1>1, <2>1, <2>2
    <3> QED
      BY <1>5, <1>7, <2>2, <3>1
  <2>4. j # 11
    <3> SUFFICES ASSUME j = 11 PROVE FALSE
      OBVIOUS
    <3>1. K[12] = X[11]
      BY <2>1
    <3> QED
      BY <1>1, <1>5, <1>6, <3>1
  <2>5. j # 7
    <3> SUFFICES ASSUME j = 7 PROVE FALSE
      OBVIOUS
    <3>1. K[7] = X[8]
      BY <2>1
    <3>2. <<"dbx">> # Separator
      BY DEF Separator
    <3> QED
      BY <1>5, <1>6, <3>1, <3>2
  <2>6. 12 \in 1 .. Len(X) /\ 12 # j /\ 12 # j + 1
    BY <1>1, <2>1, <2>2, <2>3, <2>4
  <2>7. K[12] = X[12]
    BY <2>1, <2>6
  <2>8. q.order = p.order
    BY <1>5, <1>6, <2>7
  <2>9. CASE j < 11
    <3>1. j \in 1 .. 10
      BY <2>1, <2>9, <1>1, <2>2
    <3>2. TypesOf(K, IF j = 8 THEN 9 ELSE 8)
      <4>1. Len(K) = 12 + n /\ Len(X) = 12 + n /\ n \in Nat
        BY <1>1, <2>2
      <4>2. TypesOf(X, 8)
        BY <1>4
      <4> HIDE DEF n
      <4> QED
        BY <1>11, <2>5, <3>1, <4>1, <4>2, SwappedTypes
    <3>3. \A i \in 0 .. n : 12 + i \in 1 .. Len(X) /\ 12 + i # j /\ 12 + i # j + 1
      BY <1>1, <2>2, <3>1
    <3>4. \A i \in 0 .. n : K[12 + i] = X[12 + i]
      BY <2>1, <3>3
    <3>5. Named(p, K)
      BY <1>8, <2>1, <2>7, <3>4
    <3> QED
      BY <3>2, <3>5
  <2>10. CASE j > 12
    <3> DEFINE h == j - 12
    <3>1. h \in 1 .. n - 1 /\ 12 + h = j /\ 12 + (h + 1) = j + 1 /\ j \in Nat
      BY <1>1, <2>1, <2>2, <2>10
    <3> HIDE DEF h
    <3>2. K[12 + h] = X[12 + (h + 1)] /\ K[12 + (h + 1)] = X[12 + h]
      BY <2>1, <3>1
    <3>3. ASSUME NEW i \in 0 .. n, i # h, i # h + 1 PROVE K[12 + i] = X[12 + i]
      <4>1. 12 + i \in 1 .. Len(X) /\ 12 + i # j /\ 12 + i # j + 1
        BY <1>1, <2>2, <3>1, <3>3
      <4> QED
        BY <2>1, <4>1
    <3>4. Unexchanged(p, q)
      BY <1>2, <2>8
    <3>5. Named(p, K)
      BY <1>1, <1>4, <2>8, <3>1, <3>2, <3>3, <3>4, NamedSwapped, SMTT(40)
    <3>6. TypesOf(K, 8)
      <4>1. \A i \in 1 .. 12 : i \in 1 .. Len(X) /\ i # j /\ i # j + 1
        BY <1>1, <2>1, <2>2, <2>10
      <4>2. \A i \in 1 .. 12 : K[i] = X[i]
        BY <2>1, <4>1
      <4>3. (\A i \in 1 .. 8 - 1 : i \in 1 .. 12) /\ 8 \in 1 .. 12 /\ (\A i \in 8 + 1 .. 11 : i \in 1 .. 12)
        OBVIOUS
      <4>4. ASSUME NEW i \in 12 .. Len(K) PROVE K[i].type = "VARIABLE_BOOT"
        <5>1. i \in 1 .. Len(X) /\ i \in 12 .. Len(X) /\ j \in 12 .. Len(X) /\ j + 1 \in 12 .. Len(X)
          BY <1>1, <2>1, <2>2, <2>10
        <5>2. K[i] = X[i] \/ K[i] = X[j] \/ K[i] = X[j + 1]
          BY <2>1, <5>1
        <5>3. \A m \in 12 .. Len(X) : X[m].type = "VARIABLE_BOOT"
          BY <1>4 DEF TypesOf
        <5> QED
          BY <5>1, <5>2, <5>3
      <4> QED
        BY <1>4, <4>2, <4>3, <4>4, ZenonT(60) DEF TypesOf
    <3> QED
      BY <3>5, <3>6
  <2> QED
    BY <2>1, <2>2, <1>1, <2>3, <2>4, <2>9, <2>10
<1> QED
  BY <1>9, <1>10, <1>11 DEF Variant

LEMMA FittingLike ==
    ASSUME NEW b \in Boots, NEW c \in Boots, NEW p, p = Platforms[b.platform],
           NEW q, q = Platforms[c.platform], NEW X, NEW K, Like(X, K),
           Len(X) = 12 + Len(q.order), Firm(q, X), Len(K) = 12 + Len(p.order), DigestsFrom(p, K)
    PROVE  TypesOf(K, 8) /\ Named(p, K)
<1> DEFINE n == Len(p.order)
           m == Len(q.order)
<1>1. p.order \in Seq(DOMAIN p.options) /\ n \in Nat /\ m \in Nat
  BY OrderFacts
<1>2. TypesOf(X, 8) /\ DigestsFrom(q, X) /\ NamesFrom(q, X)
  BY <1>1, FirmFacts
<1>3. /\ Len(X) = 12 + m /\ Len(K) = 12 + m
      /\ \A i \in 1 .. 12 + m : /\ K[i].type = X[i].type /\ K[i].name = X[i].name
                                /\ K[i].digest = X[i].digest
  BY DEF Like, Alike
<1>4. q.order = p.order
  <2>1. 12 \in 1 .. 12 + m
    BY <1>1
  <2>2. K[12].digest = X[12].digest
    BY <1>3, <2>1
  <2> QED
    BY <1>2, <2>2 DEF DigestsFrom
<1>5. TypesOf(K, 8)
  <2> HIDE DEF m
  <2>1. /\ \A i \in 1 .. 8 - 1 : i \in 1 .. 12 + m
        /\ 8 \in 1 .. 12 + m
        /\ \A i \in 8 + 1 .. 11 : i \in 1 .. 12 + m
        /\ \A i \in 12 .. 12 + m : i \in 1 .. 12 + m
    BY <1>1
  <2>2. \A i \in 1 .. 12 + m : K[i].type = X[i].type
    BY <1>3
  <2>3. \A i \in 1 .. 8 - 1 : K[i].type # "SEPARATOR" /\ K[i].type # "VARIABLE_BOOT"
    BY <1>2, <2>1, <2>2 DEF TypesOf
  <2>4. K[8].type = "SEPARATOR"
    BY <1>2, <2>1, <2>2 DEF TypesOf
  <2>5. \A i \in 8 + 1 .. 11 : K[i].type = "PLATFORM_CONFIG_FLAGS"
    BY <1>2, <2>1, <2>2 DEF TypesOf
  <2>6. \A i \in 12 .. Len(K) : K[i].type = "VARIABLE_BOOT"
    BY <1>2, <1>3, <2>1, <2>2 DEF TypesOf
  <2> QED
    BY <2>3, <2>4, <2>5, <2>6 DEF TypesOf
<1>6. NamesFrom(q, K)
  <2>1. 12 \in 1 .. 12 + m /\ \A i \in 1 .. m : 12 + i \in 1 .. 12 + m
    BY <1>1
  <2> QED
    BY <1>2, <1>3, <2>1 DEF NamesFrom
<1>7. Named(p, K)
  BY <1>1, <1>4, <1>6, NamedSame
<1> QED
  BY <1>5, <1>7

LEMMA MineIsKept ==
    ASSUME NEW R, NEW E \in Seq(R)
    PROVE  Where(E, LAMBDA e : e.mr = 1) = Keep(E, Mr(R, 0))
<1> DEFINE V == {x \in ToSet(E) : x.mr = 1}
<1>1. \A j \in 1 .. Len(E) : E[j] \in R /\ E[j] \in ToSet(E)
  BY DEF ToSet
<1>2. \A j \in 1 .. Len(E) : E[j] \in V <=> E[j] \in Mr(R, 0)
  BY <1>1 DEF Mr
<1>3. Keep(E, V) = Keep(E, Mr(R, 0))
  <2> HIDE DEF V
  <2> QED
    BY <1>2, KeepSame
<1>4. Where(E, LAMBDA e : e.mr = 1) = Keep(E, V)
  BY DEF Where
<1> QED
  BY <1>3, <1>4

LEMMA SeparatorAt ==
    ASSUME NEW R, NEW K \in Seq(R), NEW s \in {8, 9}, Len(K) >= 12, TypesOf(K, s)
    PROVE  SelectInSeq(K, LAMBDA e : e.type = "SEPARATOR") = s
<1> DEFINE I == {i \in 1 .. Len(K) : K[i].type = "SEPARATOR"}
<1>1. SelectInSeq(K, LAMBDA e : e.type = "SEPARATOR") = IF I # {} THEN Min(I) ELSE 0
  BY DEF SelectInSeq
<1>2. Len(K) \in Nat
  OBVIOUS
<1>3. s \in I
  BY <1>2 DEF TypesOf
<1>4. \A i \in I : s <= i
  <2>1. \A i \in 1 .. s - 1 : K[i].type # "SEPARATOR"
    BY DEF TypesOf
  <2> QED
    BY <1>2, <2>1
<1>5. \A x \in I : (\A y \in I : x <= y) => x = s
  <2>1. \A x \in I : x \in Nat
    BY <1>2
  <2> HIDE DEF I
  <2> QED
    BY <1>3, <1>4, <2>1
<1>6. Min(I) = s
  <2> HIDE DEF I
  <2> QED
    BY <1>3, <1>4, <1>5 DEF Min
<1> QED
  BY <1>1, <1>3, <1>6

LEMMA AcpiOf ==
    ASSUME NEW R, NEW E \in Seq(R), NEW K, K = Keep(E, Mr(R, 0)), NEW s \in {8, 9}, Len(K) >= 12,
           TypesOf(K, s)
    PROVE  /\ DOMAIN AcpiDigests(E) = 1 .. 11 - s /\ Len(AcpiDigests(E)) = 11 - s
           /\ \A i \in 1 .. 11 - s : AcpiDigests(E)[i] = K[s + i].digest
<1> DEFINE late == SubSeq(K, s, Len(K))
           W == {x \in ToSet(late) : x.type = "PLATFORM_CONFIG_FLAGS"}
           A == Keep(late, W)
<1>1. K \in Seq(R)
  BY KeepType
<1>2. Where(E, LAMBDA e : e.mr = 1) = K
  BY MineIsKept
<1>3. SelectInSeq(K, LAMBDA e : e.type = "SEPARATOR") = s
  BY <1>1, SeparatorAt
<1>4. s # 0 /\ s \in Nat /\ 1 <= s /\ s <= 9 /\ Len(K) \in Nat
  BY <1>1
<1>5. AcpiDigests(E) = Digests(A)
  <2>1. Where(late, LAMBDA e : e.type = "PLATFORM_CONFIG_FLAGS") = A
    BY DEF Where
  <2> HIDE DEF A
  <2> QED
    BY <1>2, <1>3, <1>4, <2>1 DEF AcpiDigests
<1>6. late \in Seq(R) /\ Len(late) = Len(K) - s + 1 /\ \A i \in 1 .. Len(K) - s + 1 : late[i] = K[s - 1 + i]
  BY <1>1, <1>4
<1> HIDE DEF late
<1>7. \A i \in 1 .. Len(late) : late[i] \in ToSet(late)
  BY <1>6 DEF ToSet
<1>8. ASSUME NEW i \in 1 .. Len(late) PROVE late[i] \in W <=> 1 < i /\ i <= 12 - s
  <2>1. late[i] \in W <=> late[i].type = "PLATFORM_CONFIG_FLAGS"
    BY <1>7
  <2>2. late[i] = K[s - 1 + i]
    BY <1>6
  <2>3. CASE i = 1
    <3>1. s - 1 + i = s
      BY <1>4, <2>3
    <3>2. K[s].type = "SEPARATOR"
      BY DEF TypesOf
    <3>3. late[i].type # "PLATFORM_CONFIG_FLAGS"
      BY <2>2, <3>1, <3>2
    <3> QED
      BY <2>1, <2>3, <3>3
  <2>4. CASE 1 < i /\ i <= 12 - s
    <3>1. s - 1 + i \in s + 1 .. 11
      BY <1>4, <2>4
    <3>2. K[s - 1 + i].type = "PLATFORM_CONFIG_FLAGS"
      BY <3>1 DEF TypesOf
    <3> QED
      BY <2>1, <2>2, <2>4, <3>2
  <2>5. CASE i > 12 - s
    <3>1. s - 1 + i \in 12 .. Len(K) /\ ~(i <= 12 - s)
      BY <1>4, <1>6, <2>5
    <3>2. K[s - 1 + i].type = "VARIABLE_BOOT"
      BY <3>1 DEF TypesOf
    <3>3. late[i].type # "PLATFORM_CONFIG_FLAGS"
      BY <2>2, <3>2
    <3> QED
      BY <2>1, <3>1, <3>3
  <2> QED
    BY <1>4, <1>6, <2>3, <2>4, <2>5
<1> DEFINE h == 12 - s
<1>9. h \in 1 .. Len(late) /\ h - 1 = 11 - s /\ 1 \in Nat
  BY <1>4, <1>6
<1>10. \A i \in 1 .. Len(late) : late[i] \in W <=> 1 < i /\ i <= h
  BY <1>8
<1> HIDE DEF h, W
<1>11. A \in Seq(R) /\ Len(A) = h - 1 /\ \A i \in 1 .. h - 1 : A[i] = late[1 + i]
  <2>1. \E l : l = 1
    OBVIOUS
  <2>2. PICK l : l = 1
    BY <2>1
  <2>3. l \in Nat /\ h \in l .. Len(late) /\ late \in Seq(R)
    BY <1>6, <1>9, <2>2
  <2>4. Stretch(late, W, l, h)
    BY <1>10, <2>2 DEF Stretch
  <2>5. A \in Seq(R) /\ IsStretch(late, A, l, h)
    BY <2>3, <2>4, KeepStretch
  <2> QED
    BY <2>2, <2>5 DEF IsStretch
<1> HIDE DEF A
<1>12. DOMAIN Digests(A) = 1 .. Len(A) /\ Len(Digests(A)) = Len(A) /\ \A i \in 1 .. Len(A) : Digests(A)[i] = A[i].digest
  BY <1>11, DigestsOf
<1>13. ASSUME NEW i \in 1 .. 11 - s PROVE A[i] = K[s + i]
  <2>1. 1 + i \in 1 .. Len(K) - s + 1 /\ s - 1 + (1 + i) = s + i
    BY <1>4
  <2>2. A[i] = late[1 + i]
    BY <1>9, <1>11
  <2>3. late[1 + i] = K[s - 1 + (1 + i)]
    BY <1>6, <2>1
  <2> QED
    BY <2>1, <2>2, <2>3
<1> QED
  BY <1>5, <1>9, <1>11, <1>12, <1>13

LEMMA VarsOf ==
    ASSUME NEW R, NEW E \in Seq(R), NEW K, K = Keep(E, Mr(R, 0)), Len(K) >= 12, TypesOf(K, 8),
           \A i \in 1 .. Len(E) : IsBootVar(E[i]) => E[i].readable /\ E[i].data = E[i].digest
    PROVE  /\ BootVarEvents(E) \in Seq(R) /\ Len(BootVarEvents(E)) = Len(K) - 11
           /\ \A i \in 1 .. Len(K) - 11 : /\ BootVarEvents(E)[i] = K[11 + i]
                                          /\ K[11 + i].data = K[11 + i].digest
<1> DEFINE V == {x \in ToSet(E) : IsBootVar(x) /\ x.readable}
           W == {r \in R : r.type = "VARIABLE_BOOT"}
<1>1. K \in Seq(R)
  BY KeepType
<1>2. BootVarEvents(E) = Keep(E, V)
  BY DEF BootVarEvents, Where
<1>3. Keep(E, V) = Keep(E, Mr(R, 0) \cap W)
  <2>1. \A j \in 1 .. Len(E) : E[j] \in R /\ E[j] \in ToSet(E)
    BY DEF ToSet
  <2>2. \A j \in 1 .. Len(E) : E[j] \in V <=> IsBootVar(E[j])
    BY <2>1
  <2>3. \A j \in 1 .. Len(E) : E[j] \in Mr(R, 0) \cap W <=> IsBootVar(E[j])
    BY <2>1 DEF Mr, IsBootVar
  <2> HIDE DEF V, W
  <2> QED
    BY <2>2, <2>3, KeepSame
<1>4. Keep(E, Mr(R, 0) \cap W) = Keep(K, W)
  <2> HIDE DEF W
  <2> QED
    BY KeepKeep
<1>5. ASSUME NEW i \in 1 .. Len(K) PROVE K[i] \in W <=> 11 < i /\ i <= Len(K)
  <2>0. K[i] \in W <=> K[i].type = "VARIABLE_BOOT"
    BY <1>1
  <2>1. CASE i < 8
    <3>1. i \in 1 .. 8 - 1
      BY <2>1
    <3>2. K[i].type # "VARIABLE_BOOT"
      BY <3>1 DEF TypesOf
    <3> QED
      BY <2>0, <2>1, <3>2
  <2>2. CASE i = 8
    <3>2. K[i].type # "VARIABLE_BOOT"
      BY <2>2 DEF TypesOf
    <3> QED
      BY <2>0, <2>2, <3>2
  <2>3. CASE i > 8 /\ i <= 11
    <3>1. i \in 8 + 1 .. 11
      BY <2>3
    <3>2. K[i].type # "VARIABLE_BOOT"
      BY <3>1 DEF TypesOf
    <3> QED
      BY <2>0, <2>3, <3>2
  <2>4. CASE i > 11
    <3>1. i \in 12 .. Len(K)
      BY <2>4
    <3>2. K[i].type = "VARIABLE_BOOT"
      BY <3>1 DEF TypesOf
    <3> QED
      BY <2>0, <2>4, <3>2
  <2> QED
    BY <2>1, <2>2, <2>3, <2>4
<1> DEFINE l == 11
           h == Len(K)
<1>6. l \in Nat /\ h \in l .. Len(K)
  BY <1>1
<1> HIDE DEF W
<1>7. Keep(K, W) \in Seq(R) /\ Len(Keep(K, W)) = h - l /\ \A i \in 1 .. h - l : Keep(K, W)[i] = K[l + i]
  <2>1. Stretch(K, W, l, h)
    BY <1>5 DEF Stretch
  <2> HIDE DEF l, h
  <2>2. Keep(K, W) \in Seq(R) /\ IsStretch(K, Keep(K, W), l, h)
    BY <1>1, <1>6, <2>1, KeepStretch
  <2> QED
    BY <2>2 DEF IsStretch
<1>8. ASSUME NEW i \in 1 .. Len(K) - 11 PROVE K[11 + i].data = K[11 + i].digest
  <2>1. 11 + i \in 12 .. Len(K) /\ 11 + i \in 1 .. Len(K)
    BY <1>6
  <2>2. K[11 + i].type = "VARIABLE_BOOT"
    BY <2>1 DEF TypesOf
  <2>3. K \in Seq(ToSet(E) \cap Mr(R, 0))
    <3>1. E \in Seq(ToSet(E))
      BY ElementsOf
    <3> QED
      BY <3>1, KeepType
  <2>4. K[11 + i] \in ToSet(E) \cap Mr(R, 0)
    BY <2>1, <2>3
  <2>5. PICK j \in 1 .. Len(E) : K[11 + i] = E[j]
    <3>1. ToSet(E) = {E[j] : j \in 1 .. Len(E)}
      BY ElementsOf
    <3> QED
      BY <2>4, <3>1
  <2>6. IsBootVar(E[j])
    BY <2>2, <2>4, <2>5 DEF IsBootVar, Mr
  <2> QED
    BY <2>5, <2>6
<1> QED
  BY <1>2, <1>3, <1>4, <1>7, <1>8

(* What a log must tell about the platform of a boot. *)
TellsOf(p, d) ==
    LET v == d.vars  n == Len(p.order)
    IN  /\ d.acpi = <<p.acpi.loader, p.acpi.rsdp, p.acpi.tables>>
        /\ Len(v) = n + 1 /\ (\E R : v \in Seq(R))
        /\ v[1].name = "BootOrder" /\ v[1].data = p.order
        /\ \A i \in 1 .. n : /\ v[i + 1].name \in DOMAIN p.options
                             /\ v[i + 1].data = p.options[v[i + 1].name]
                             /\ v[i + 1].data = p.options[p.order[i]]
        /\ \A i \in 1 .. n : \E j \in 1 .. n : v[j + 1].name = p.order[i]

(* RTMR[0] of a boot, in its parts. *)
LEMMA Register0 ==
    ASSUME NEW b \in Boots
    PROVE  \E R, Z : /\ Z \in Seq(R) /\ BootRegisters[b][0] = Digests(Z)
                     /\ Firm(Platforms[b.platform], Z)
                     /\ Len(Z) = 12 + Len(Platforms[b.platform].order)
<1>1. PICK R : LogParts(b, R)
  BY LogShape
<1> DEFINE Z == Keep(BootLog[b], Mr(R, 0))
<1>2. /\ BootLog[b] \in Seq(R) /\ Firm(Platforms[b.platform], Z)
      /\ Len(Z) = 12 + Len(Platforms[b.platform].order)
  BY <1>1, Zenon DEF LogParts
<1>3. Z \in Seq(R)
  BY <1>2, KeepType
<1>4. Of(0, BootLog[b]) = Digests(Z)
  BY <1>2, OfIsKept
<1>5. BootRegisters[b][0] = Of(0, BootLog[b])
  BY DEF BootRegisters
<1> HIDE DEF Z
<1> QED
  BY <1>2, <1>3, <1>4, <1>5

LEMMA ShownKept ==
    ASSUME NEW b \in Boots, NEW R, NEW E \in Seq(R), Of(0, E) = BootRegisters[b][0],
           NEW K, K = Keep(E, Mr(R, 0)), NEW p, p = Platforms[b.platform]
    PROVE  Len(K) = 12 + Len(p.order) /\ DigestsFrom(p, K)
<1>1. PICK S, Z : /\ Z \in Seq(S) /\ BootRegisters[b][0] = Digests(Z)
                  /\ Firm(p, Z) /\ Len(Z) = 12 + Len(p.order)
  BY Register0
<1>2. K \in Seq(R)
  BY KeepType
<1>3. Of(0, E) = Digests(K)
  BY OfIsKept
<1>4. Len(Digests(K)) = Len(K) /\ \A i \in 1 .. Len(K) : Digests(K)[i] = K[i].digest
  BY <1>2, DigestsOf
<1>5. Len(Digests(Z)) = Len(Z) /\ \A i \in 1 .. Len(Z) : Digests(Z)[i] = Z[i].digest
  BY <1>1, DigestsOf
<1>6. Digests(K) = Digests(Z)
  BY <1>1, <1>3
<1>7. Len(K) = Len(Z) /\ \A i \in 1 .. Len(Z) : K[i].digest = Z[i].digest
  BY <1>4, <1>5, <1>6
<1> DEFINE n == Len(p.order)
<1>8. n \in Nat
  BY OrderFacts
<1>9. DigestsFrom(p, Z)
  BY <1>1, <1>8, FirmFacts
<1>10. DigestsFrom(p, K)
  <2>1. \A i \in 1 .. 12 + n : K[i].digest = Z[i].digest
    BY <1>1, <1>7
  <2> HIDE DEF n
  <2>2. \A i \in 7 .. 12 : i \in 1 .. 12 + n
    BY <1>8
  <2>3. \A i \in 1 .. n : 12 + i \in 1 .. 12 + n
    BY <1>8
  <2>4. /\ K[7].digest = Z[7].digest /\ K[8].digest = Z[8].digest /\ K[9].digest = Z[9].digest
        /\ K[10].digest = Z[10].digest /\ K[11].digest = Z[11].digest /\ K[12].digest = Z[12].digest
    <3>1. 7 \in 7 .. 12 /\ 8 \in 7 .. 12 /\ 9 \in 7 .. 12 /\ 10 \in 7 .. 12 /\ 11 \in 7 .. 12 /\ 12 \in 7 .. 12
      OBVIOUS
    <3> QED
      BY <2>1, <2>2, <3>1
  <2>5. \A i \in 1 .. n : K[12 + i].digest = Z[12 + i].digest
    BY <2>1, <2>3
  <2> QED
    BY <1>9, <2>4, <2>5 DEF DigestsFrom, n
<1> QED
  BY <1>1, <1>7, <1>10

(* So a log that shows RTMR[0] of boot b, read from a file of a boot c, has    *)
(* what b extended into it in its place, or an ACPI event less after the       *)
(* separator.                                                                  *)
LEMMA ShownFits ==
    ASSUME NEW b \in Boots, NEW c \in Boots, NEW p, p = Platforms[b.platform], NEW E,
           \/ \A R : BootLog[c] \in Seq(R) => Variant(R, BootLog[c], E)
           \/ (\E U : E \in Seq(U)) /\ Like(BootLog[c], E),
           Of(0, E) = BootRegisters[b][0]
    PROVE  \E R, K : /\ E \in Seq(R) /\ K = Keep(E, Mr(R, 0))
                     /\ Len(K) = 12 + Len(p.order) /\ DigestsFrom(p, K)
                     /\ TypesOf(K, 9) \/ (TypesOf(K, 8) /\ Named(p, K))
<1> DEFINE q == Platforms[c.platform]
           log == BootLog[c]
<1>1. PICK R : LogParts(c, R)
  BY LogShape
<1> DEFINE X == Keep(log, Mr(R, 0))
<1>2. log \in Seq(R) /\ Firm(q, X) /\ Len(X) = 12 + Len(q.order)
  BY <1>1, Zenon DEF LogParts
<1>3. q = Platforms[c.platform]
  OBVIOUS
<1> HIDE DEF log, q
<1>4. CASE \A S : log \in Seq(S) => Variant(S, log, E)
  <2> DEFINE K == Keep(E, Mr(R, 0))
  <2>1. Variant(R, log, E)
    BY <1>2, <1>4
  <2>2. E \in Seq(R)
    BY <2>1 DEF Variant
  <2>3. Variant(R, X, K)
    BY <2>1, VariantKept
  <2>4. Len(K) = 12 + Len(p.order) /\ DigestsFrom(p, K)
    BY <2>2, ShownKept
  <2> HIDE DEF K, X
  <2>5. TypesOf(K, 9) \/ (TypesOf(K, 8) /\ Named(p, K))
    BY <1>2, <1>3, <2>3, <2>4, Fitting
  <2> QED
    BY <2>2, <2>4, <2>5 DEF K
<1>5. CASE (\E U : E \in Seq(U)) /\ Like(log, E)
  <2>1. PICK U : E \in Seq(U)
    BY <1>5
  <2> DEFINE S == R \cup U
             V == Mr(S, 0)
             K == Keep(E, V)
  <2>2. R \subseteq S /\ U \subseteq S
    OBVIOUS
  <2> HIDE DEF S
  <2>3. E \in Seq(S) /\ log \in Seq(S)
    BY <1>2, <2>1, <2>2, SeqMonotonic
  <2>4. Keep(log, V) = X
    <3>1. \A i \in 1 .. Len(log) : log[i] \in R /\ log[i] \in S
      BY <1>2, <2>2
    <3>2. \A i \in 1 .. Len(log) : log[i] \in V <=> log[i] \in Mr(R, 0)
      BY <3>1 DEF Mr
    <3> HIDE DEF V
    <3> QED
      BY <1>2, <3>2, KeepSame
  <2>5. \A x, y \in S : Alike(y, x) => (x \in V <=> y \in V)
    BY DEF Alike, Mr
  <2>6. Like(Keep(log, V), K)
    <3> HIDE DEF V
    <3> QED
      BY <1>5, <2>3, <2>5, KeepLike
  <2>7. Len(K) = 12 + Len(p.order) /\ DigestsFrom(p, K)
    BY <2>3, ShownKept
  <2> HIDE DEF K, X, V
  <2>8. Like(X, K)
    BY <2>4, <2>6
  <2>9. TypesOf(K, 8) /\ Named(p, K)
    BY <1>2, <1>3, <2>7, <2>8, FittingLike
  <2> QED
    BY <2>3, <2>7, <2>9 DEF K, V
<1> QED
  BY <1>4, <1>5 DEF log

LEMMA ShownData ==
    ASSUME NEW f \in CcelFiles, NEW b \in Boots, PlatformData[f].ok, Shows(f, b)
    PROVE  TellsOf(Platforms[b.platform], PlatformData[f])
<1> DEFINE rec == Records(f)
           read == ReadRecords(rec)
           parsed == ParseCcel[f]
           E == parsed.events
           A == AcpiDigests(E)
           d == PlatformData[f]
           c == f.boot
           p == Platforms[b.platform]
<1>1. parsed = Accepts(read, f)
  BY DEF ParseCcel
<1>2. read = [ok |-> read.ok, events |-> read.events]
  BY DEF ReadRecords, ReadUpTo
<1>3. d = DataOf(parsed, A)
  BY DEF PlatformData
<1> HIDE DEF parsed, read
<1>4. E = read.events /\ parsed.ok = (read.ok /\ f.fault.kind # "header" /\ Len(read.events) <= MaxEvents)
  BY <1>1, <1>2 DEF Accepts
<1>5. /\ d.ok = (parsed.ok /\ Len(A) >= 3) /\ d.vars = BootVarEvents(E)
      /\ d.acpi = [i \in (1 .. 3) \cap DOMAIN A |-> A[i]]
  <2> HIDE DEF A, E
  <2>1. d = [ok |-> parsed.ok /\ Len(A) >= 3, acpi |-> [i \in (1 .. 3) \cap DOMAIN A |-> A[i]],
             vars |-> BootVarEvents(parsed.events)]
    BY <1>3 DEF DataOf
  <2> HIDE DEF d
  <2> QED
    BY <2>1 DEF E
<1>6. read.ok /\ Len(A) >= 3
  BY <1>4, <1>5
<1>7. c \in Boots /\ Told(rec, c)
  BY FileTold
<1>8. \/ \A R : BootLog[c] \in Seq(R) => Variant(R, BootLog[c], E)
      \/ (\E U : E \in Seq(U)) /\ Like(BootLog[c], E)
  BY <1>4, <1>6, <1>7 DEF Told, read
<1>9. /\ Of(0, E) = BootRegisters[b][0]
      /\ \A i \in DOMAIN E : IsBootVar(E[i]) => E[i].readable /\ E[i].data = E[i].digest
  BY DEF Shows, parsed
<1> HIDE DEF E, c, A, d, p
<1>10. PICK R, K : /\ E \in Seq(R) /\ K = Keep(E, Mr(R, 0))
                   /\ Len(K) = 12 + Len(p.order) /\ DigestsFrom(p, K)
                   /\ TypesOf(K, 9) \/ (TypesOf(K, 8) /\ Named(p, K))
  <2>1. p = Platforms[b.platform]
    BY DEF p
  <2> QED
    BY <1>7, <1>8, <1>9, <2>1, ShownFits
<1>11. E \in Seq(R) /\ K = Keep(E, Mr(R, 0))
  BY <1>10
<1>12. \A i \in 1 .. Len(E) : IsBootVar(E[i]) => E[i].readable /\ E[i].data = E[i].digest
  BY <1>9, <1>11
<1>13. Len(K) = 12 + Len(p.order) /\ DigestsFrom(p, K)
  BY <1>10
<1>14. TypesOf(K, 9) \/ (TypesOf(K, 8) /\ Named(p, K))
  BY <1>10
<1> DEFINE n == Len(p.order)
<1>15. n \in Nat
  BY OrderFacts DEF p
<1>16. Len(K) >= 12
  BY <1>13, <1>15
<1>17. ~TypesOf(K, 9)
  <2> SUFFICES ASSUME TypesOf(K, 9) PROVE FALSE
    OBVIOUS
  <2>1. Len(A) = 11 - 9
    BY <1>11, <1>16, AcpiOf DEF A
  <2> QED
    BY <1>6, <2>1
<1>18. TypesOf(K, 8) /\ Named(p, K)
  BY <1>14, <1>17
<1>19. DOMAIN A = 1 .. 3 /\ A[1] = K[9].digest /\ A[2] = K[10].digest /\ A[3] = K[11].digest
  <2>1. DOMAIN A = 1 .. 11 - 8 /\ \A i \in 1 .. 11 - 8 : A[i] = K[8 + i].digest
    BY <1>11, <1>16, <1>18, AcpiOf DEF A
  <2> QED
    BY <2>1
<1>20. d.acpi = <<p.acpi.loader, p.acpi.rsdp, p.acpi.tables>>
  <2>1. A[1] = p.acpi.loader /\ A[2] = p.acpi.rsdp /\ A[3] = p.acpi.tables
    BY <1>13, <1>19 DEF DigestsFrom
  <2>2. d.acpi = [i \in 1 .. 3 |-> A[i]]
    BY <1>5, <1>19
  <2> QED
    BY <2>1, <2>2
<1>21. /\ BootVarEvents(E) \in Seq(R) /\ Len(BootVarEvents(E)) = Len(K) - 11
       /\ \A i \in 1 .. Len(K) - 11 : /\ BootVarEvents(E)[i] = K[11 + i]
                                      /\ K[11 + i].data = K[11 + i].digest
  BY <1>11, <1>12, <1>16, <1>18, VarsOf
<1> DEFINE v == BootVarEvents(E)
<1> HIDE DEF v, n
<1>22. v \in Seq(R) /\ Len(v) = n + 1 /\ \A i \in 1 .. n + 1 : v[i] = K[11 + i] /\ K[11 + i].data = K[11 + i].digest
  <2>1. Len(K) - 11 = n + 1
    BY <1>13, <1>15 DEF n
  <2> QED
    BY <1>21, <2>1 DEF v
<1>23. /\ v[1] = K[12] /\ K[12].data = K[12].digest
       /\ \A i \in 1 .. n : v[i + 1] = K[12 + i] /\ K[12 + i].data = K[12 + i].digest
  <2>1. 1 \in 1 .. n + 1 /\ 11 + 1 = 12 /\ \A i \in 1 .. n : i + 1 \in 1 .. n + 1 /\ 11 + (i + 1) = 12 + i
    BY <1>15
  <2> QED
    BY <1>22, <2>1
<1>24. /\ K[12].name = "BootOrder"
       /\ \A i \in 1 .. n : K[12 + i].name \in DOMAIN p.options /\ K[12 + i].digest = p.options[K[12 + i].name]
       /\ \A i \in 1 .. n : \E j \in 1 .. n : K[12 + j].name = p.order[i]
  BY <1>18 DEF Named, n
<1>25. K[12].digest = p.order /\ \A i \in 1 .. n : K[12 + i].digest = p.options[p.order[i]]
  BY <1>13 DEF DigestsFrom, n
<1>26. v = d.vars
  BY <1>5 DEF v
<1>27. /\ \A i \in 1 .. n : /\ v[i + 1].name \in DOMAIN p.options
                             /\ v[i + 1].data = p.options[v[i + 1].name]
                             /\ v[i + 1].data = p.options[p.order[i]]
       /\ \A i \in 1 .. n : \E j \in 1 .. n : v[j + 1].name = p.order[i]
       /\ v[1].name = "BootOrder" /\ v[1].data = p.order
  BY <1>23, <1>24, <1>25
<1>28. TellsOf(p, d)
  BY <1>20, <1>22, <1>26, <1>27, Zenon DEF TellsOf, n
<1> QED
  BY <1>28 DEF p, d

-----------------------------------------------------------------------------
(* RTMR[0] as measure computes it                                            *)

(* What measure must be given of the platform. *)
IsGiven(p, acpi, vs) ==
    /\ acpi = <<p.acpi.loader, p.acpi.rsdp, p.acpi.tables>>
    /\ (\E D : vs \in Seq(D)) /\ Len(vs) = Len(p.order) + 1
    /\ vs[1] = p.order /\ \A i \in 1 .. Len(p.order) : vs[i + 1] = p.options[p.order[i]]

LEMMA Rtmr0IsRight ==
    ASSUME NEW b \in Boots, HobFits(b.platform), NEW acpi, NEW vs,
           IsGiven(Platforms[b.platform], acpi, vs)
    PROVE  Rtmr0(b.platform, acpi, vs) = BootRegisters[b][0]
<1> DEFINE p == Platforms[b.platform]
           n == Len(p.order)
           hob == <<"hob", Section(p, "TD_HOB").base, MemoryMap(p)>>
           cfv == Raw(p.fw, Section(p, "TD_CFV"))
           a == <<hob, cfv>>
           s == SecureBootVars
           e == <<Separator>>
<1>1. TdHob(b.platform) = hob /\ Raw(p.fw, p.fw.sections[Cfv(p.fw)]) = cfv
  <2>1. Boots_(b.platform)
    BY DEF Boots_
  <2>2. p.fw.sections[Cfv(p.fw)] = Section(p, "TD_CFV")
    BY <2>1, OnlySection
  <2> QED
    BY <2>1, <2>2, HobIsMap
<1>2. PICK R, Z : /\ Z \in Seq(R) /\ BootRegisters[b][0] = Digests(Z)
                  /\ Firm(p, Z) /\ Len(Z) = 12 + n
  BY Register0
<1>3. n \in Nat
  BY OrderFacts
<1>4. PICK C : vs \in Seq(C)
  BY DEF IsGiven
<1>5. /\ acpi = <<p.acpi.loader, p.acpi.rsdp, p.acpi.tables>> /\ Len(vs) = n + 1
      /\ vs[1] = p.order /\ \A i \in 1 .. n : vs[i + 1] = p.options[p.order[i]]
  BY Zenon DEF IsGiven
<1>6. Rtmr0(b.platform, acpi, vs) = Cat(Cat(Cat(Cat(a, s), e), acpi), vs)
  BY <1>1 DEF Rtmr0, Cat
<1>7. DigestsFrom(p, Z)
  BY <1>2, <1>3, FirmFacts
<1>8. Z[1].digest = hob /\ Z[2].digest = cfv /\ \A i \in 1 .. 5 : Z[2 + i].digest = s[i]
  <2>1. /\ Z[1] = Event(1, "PLATFORM_CONFIG_FLAGS", hob) /\ Z[2] = Event(1, "FIRMWARE_BLOB2", cfv)
        /\ \A i \in 1 .. 5 : Z[2 + i] = Event(1, "VARIABLE_DRIVER_CONFIG", s[i])
    BY <1>2, Zenon DEF Firm
  <2> HIDE DEF hob, cfv, s
  <2>2. Z[1].digest = hob /\ Z[2].digest = cfv
    BY <2>1 DEF Event, Record
  <2>3. ASSUME NEW i \in 1 .. 5 PROVE Z[2 + i].digest = s[i]
    <3>1. Z[2 + i] = Event(1, "VARIABLE_DRIVER_CONFIG", s[i])
      BY <2>1, Zenon
    <3> QED
      BY <3>1 DEF Event, Record
  <2> QED
    BY <2>2, <2>3
<1>9. Len(s) = 5 /\ s \in Seq({s[i] : i \in 1 .. 5})
  BY DEF SecureBootVars
<1>10. hob = hob /\ cfv = cfv
  OBVIOUS
<1> DEFINE D == {hob, cfv} \cup {s[i] : i \in 1 .. 5}
                \cup {Separator, p.acpi.loader, p.acpi.rsdp, p.acpi.tables} \cup C
<1>11. /\ hob \in D /\ cfv \in D /\ Separator \in D /\ p.acpi.loader \in D /\ p.acpi.rsdp \in D
       /\ p.acpi.tables \in D /\ C \subseteq D /\ {s[i] : i \in 1 .. 5} \subseteq D
  OBVIOUS
<1> HIDE DEF D, hob, cfv, s, p, n
<1>12. a \in Seq(D) /\ Len(a) = 2 /\ a[1] = hob /\ a[2] = cfv
  BY <1>11
<1>13. s \in Seq(D)
  <2> DEFINE G == {s[i] : i \in 1 .. 5}
  <2>1. s \in Seq(G) /\ G \subseteq D
    BY <1>9, <1>11
  <2> HIDE DEF G
  <2> QED
    BY <2>1, SeqMonotonic
<1>14. e \in Seq(D) /\ Len(e) = 1 /\ e[1] = Separator
  BY <1>11, ShortSeqs
<1>15. /\ acpi \in Seq(D) /\ Len(acpi) = 3
       /\ acpi[1] = p.acpi.loader /\ acpi[2] = p.acpi.rsdp /\ acpi[3] = p.acpi.tables
  BY <1>5, <1>11
<1>16. vs \in Seq(D)
  BY <1>4, <1>11, SeqMonotonic
<1> HIDE DEF a, e
<1> DEFINE f == Cat(Cat(Cat(a, s), e), acpi)
           g == Cat(f, vs)
           d == Digests(Z)
<1>17. IsFour(D, f, a, s, e, acpi)
  BY <1>12, <1>13, <1>14, <1>15, FourParts
<1> HIDE DEF f
<1>18. /\ f \in Seq(D) /\ Len(f) = Len(a) + Len(s) + Len(e) + Len(acpi)
       /\ \A i \in 1 .. Len(a) : f[i] = a[i]
       /\ \A i \in 1 .. Len(s) : f[Len(a) + i] = s[i]
       /\ \A i \in 1 .. Len(e) : f[Len(a) + Len(s) + i] = e[i]
       /\ \A i \in 1 .. Len(acpi) : f[Len(a) + Len(s) + Len(e) + i] = acpi[i]
  BY <1>17 DEF IsFour
<1>19. /\ f \in Seq(D) /\ Len(f) = 11
       /\ f[1] = hob /\ f[2] = cfv /\ (\A i \in 1 .. 5 : f[2 + i] = s[i])
       /\ f[8] = Separator /\ f[9] = p.acpi.loader /\ f[10] = p.acpi.rsdp /\ f[11] = p.acpi.tables
  <2>1. Len(a) = 2 /\ Len(s) = 5 /\ Len(e) = 1 /\ Len(acpi) = 3
    BY <1>9, <1>12, <1>14, <1>15
  <2>2. Len(f) = 11 /\ Len(a) + Len(s) = 7 /\ Len(a) + Len(s) + Len(e) = 8
    BY <1>18, <2>1
  <2>3. f[1] = a[1] /\ f[2] = a[2]
    BY <1>18, <2>1
  <2>4. \A i \in 1 .. 5 : f[2 + i] = s[i]
    BY <1>18, <2>1
  <2>5. f[7 + 1] = e[1]
    BY <1>18, <2>1, <2>2
  <2>6. f[8 + 1] = acpi[1] /\ f[8 + 2] = acpi[2] /\ f[8 + 3] = acpi[3]
    BY <1>18, <2>1, <2>2
  <2> QED
    BY <1>12, <1>14, <1>15, <1>18, <2>2, <2>3, <2>4, <2>5, <2>6
<1>20. g \in Seq(D) /\ Len(g) = Len(f) + Len(vs)
  BY <1>16, <1>19, CatType
<1>21. (\A i \in 1 .. Len(f) : g[i] = f[i]) /\ (\A i \in 1 .. Len(vs) : g[Len(f) + i] = vs[i])
  <2>1. f \in Seq(D)
    BY <1>19
  <2> QED
    BY <1>16, <2>1, CatFacts
<1>22. d \in Seq({r.digest : r \in R}) /\ Len(d) = Len(Z) /\ \A i \in 1 .. Len(Z) : d[i] = Z[i].digest
  BY <1>2, DigestsOf
<1> HIDE DEF g, d
<1>23. Len(g) = 12 + n /\ Len(d) = 12 + n
  <2>1. Len(f) = 11 /\ Len(vs) = n + 1
    BY <1>5, <1>19
  <2>2. Len(g) = 11 + (n + 1)
    BY <1>20, <2>1
  <2> QED
    BY <1>2, <1>3, <1>22, <2>2
<1>24. \A i \in 1 .. 12 + n : d[i] = Z[i].digest
  BY <1>22, <1>23
<1>25. \A i \in 1 .. 11 : g[i] = f[i]
  BY <1>19, <1>21
<1>26. \A i \in 1 .. n + 1 : g[11 + i] = vs[i]
  BY <1>5, <1>19, <1>21
<1>27. /\ Z[8].digest = Separator /\ Z[9].digest = p.acpi.loader /\ Z[10].digest = p.acpi.rsdp
       /\ Z[11].digest = p.acpi.tables /\ Z[12].digest = p.order
       /\ \A i \in 1 .. n : Z[12 + i].digest = p.options[p.order[i]]
  BY <1>7 DEF DigestsFrom, n
<1>28. ASSUME NEW i \in 1 .. 12 + n PROVE g[i] = d[i]
  <2>1. d[i] = Z[i].digest
    BY <1>24
  <2>2. CASE i <= 2
    <3>1. (i = 1 \/ i = 2) /\ i \in 1 .. 11
      BY <1>3, <2>2
    <3> QED
      BY <1>8, <1>19, <1>25, <2>1, <3>1
  <2>3. CASE i > 2 /\ i <= 7
    <3>1. i - 2 \in 1 .. 5 /\ 2 + (i - 2) = i /\ i \in 1 .. 11
      BY <1>3, <2>3
    <3>2. f[2 + (i - 2)] = s[i - 2] /\ Z[2 + (i - 2)].digest = s[i - 2]
      BY <1>8, <1>19, <3>1
    <3> QED
      BY <1>25, <2>1, <3>1, <3>2
  <2>4. CASE i > 7 /\ i <= 11
    <3>1. (i = 8 \/ i = 9 \/ i = 10 \/ i = 11) /\ i \in 1 .. 11
      BY <1>3, <2>4
    <3> QED
      BY <1>19, <1>25, <1>27, <2>1, <3>1
  <2>5. CASE i = 12
    <3>1. 1 \in 1 .. n + 1 /\ 11 + 1 = i
      BY <1>3, <2>5
    <3>2. g[11 + 1] = vs[1]
      BY <1>26, <3>1
    <3> QED
      BY <1>5, <1>27, <2>1, <2>5, <3>1, <3>2
  <2>6. CASE i > 12
    <3> DEFINE h == i - 12
    <3>1. h \in 1 .. n /\ h + 1 \in 1 .. n + 1 /\ 11 + (h + 1) = i /\ 12 + h = i
      BY <1>3, <2>6
    <3> HIDE DEF h
    <3>2. g[11 + (h + 1)] = vs[h + 1]
      BY <1>26, <3>1
    <3>3. Z[12 + h].digest = p.options[p.order[h]]
      BY <1>27, <3>1
    <3> QED
      BY <1>5, <2>1, <3>1, <3>2, <3>3
  <2> QED
    BY <1>3, <2>2, <2>3, <2>4, <2>5, <2>6
<1>29. g = d
  <2>1. Len(g) = Len(d) /\ \A i \in 1 .. Len(g) : g[i] = d[i]
    BY <1>23, <1>28
  <2>2. g \in Seq(D) /\ d \in Seq({r.digest : r \in R})
    BY <1>20, <1>22
  <2> QED
    BY <2>1, <2>2, SeqEqual
<1> QED
  BY <1>2, <1>6, <1>29 DEF g, d, f

-----------------------------------------------------------------------------
(* The files of extract-platform                                             *)

(* The variables of a log are a sequence. *)
LEMMA VarsType ==
    ASSUME NEW f \in CcelFiles
    PROVE  \E R : PlatformData[f].vars \in Seq(R)
<1> DEFINE rec == Records(f)
           read == ReadRecords(rec)
           parsed == ParseCcel[f]
           A == AcpiDigests(parsed.events)
           d == PlatformData[f]
<1>1. parsed = Accepts(read, f)
  BY DEF ParseCcel
<1>2. read = [ok |-> read.ok, events |-> read.events]
  BY DEF ReadRecords, ReadUpTo
<1>3. d = DataOf(parsed, A)
  BY DEF PlatformData
<1>4. f.boot \in Boots
  BY DEF CcelFiles
<1>5. Right(rec, f.boot)
  BY <1>4, FileRight
<1> HIDE DEF parsed, rec, d, A
<1>6. PICK T : read.events \in Seq(T)
  BY <1>5 DEF Right, read
<1> HIDE DEF read
<1>7. parsed.events = read.events
  BY <1>1, <1>2 DEF Accepts
<1>8. d.vars = BootVarEvents(parsed.events)
  BY <1>3 DEF DataOf
<1> DEFINE E == parsed.events
           V == {x \in ToSet(E) : IsBootVar(x) /\ x.readable}
<1>9. BootVarEvents(E) = Keep(E, V)
  BY DEF BootVarEvents, Where
<1>10. E \in Seq(T)
  BY <1>6, <1>7
<1> HIDE DEF E, V
<1>11. Keep(E, V) \in Seq(T)
  BY <1>10, KeepType
<1>12. d.vars \in Seq(T)
  BY <1>8, <1>9, <1>11 DEF E
<1> QED
  BY <1>12 DEF d

(* A variable that a log gives one value; the files of the first k variables. *)
Agreed(v, i) == \A j \in 1 .. Len(v) : v[j].name = v[i].name => v[j].data = v[i].data
WrittenUpTo(d, v, k) ==
    \A i \in 1 .. k : Agreed(v, i) => v[i].name \in DOMAIN d /\ d[v[i].name] = v[i].data

LEMMA WriteNext ==
    ASSUME NEW d, NEW e, NEW v, NEW k \in Nat, k < Len(v), Len(v) \in Nat, WrittenUpTo(d, v, k),
           e = [n \in DOMAIN d \cup {v[k + 1].name} |-> IF n = v[k + 1].name THEN v[k + 1].data ELSE d[n]]
    PROVE  WrittenUpTo(e, v, k + 1)
<1> DEFINE x == v[k + 1].name
           y == v[k + 1].data
<1>1. SUFFICES ASSUME NEW i \in 1 .. k + 1, Agreed(v, i)
               PROVE  v[i].name \in DOMAIN e /\ e[v[i].name] = v[i].data
  BY DEF WrittenUpTo
<1>2. e = [n \in DOMAIN d \cup {x} |-> IF n = x THEN y ELSE d[n]]
  OBVIOUS
<1>3. k + 1 \in 1 .. Len(v)
  OBVIOUS
<1>4. CASE v[i].name = x
  <2>1. v[i].data = y
    BY <1>1, <1>3, <1>4 DEF Agreed
  <2> HIDE DEF x, y
  <2> QED
    BY <1>2, <1>4, <2>1
<1>5. CASE v[i].name # x
  <2>1. i \in 1 .. k
    BY <1>5
  <2>2. v[i].name \in DOMAIN d /\ d[v[i].name] = v[i].data
    BY <1>1, <2>1 DEF WrittenUpTo
  <2> HIDE DEF x, y
  <2> QED
    BY <1>2, <1>5, <2>2
<1> QED
  BY <1>4, <1>5

(* A log that tells a platform gives every variable one value. *)
LEMMA TellsAgree ==
    ASSUME NEW p, NEW d, TellsOf(p, d), Len(p.order) \in Nat, "BootOrder" \notin DOMAIN p.options
    PROVE  \A i \in 1 .. Len(d.vars) : Agreed(d.vars, i)
<1> DEFINE v == d.vars
           n == Len(p.order)
<1>1. /\ Len(v) = n + 1 /\ v[1].name = "BootOrder" /\ v[1].data = p.order
      /\ \A i \in 1 .. n : v[i + 1].name \in DOMAIN p.options /\ v[i + 1].data = p.options[v[i + 1].name]
  BY Zenon DEF TellsOf
<1>2. n \in Nat
  OBVIOUS
<1> HIDE DEF v, n
<1>3. ASSUME NEW i \in 1 .. n + 1, i # 1
      PROVE  v[i].name \in DOMAIN p.options /\ v[i].data = p.options[v[i].name]
  <2>1. PICK j \in 1 .. n : i = j + 1
    BY <1>2, <1>3
  <2> QED
    BY <1>1, <2>1
<1>4. ASSUME NEW i \in 1 .. n + 1, NEW j \in 1 .. n + 1, v[j].name = v[i].name
      PROVE  v[j].data = v[i].data
  <2>1. CASE i = 1 /\ j = 1
    BY <2>1
  <2>2. CASE i = 1 /\ j # 1
    <3>1. v[j].name \in DOMAIN p.options
      BY <1>3, <2>2
    <3> QED
      BY <1>1, <1>4, <2>2, <3>1
  <2>3. CASE i # 1 /\ j = 1
    <3>1. v[i].name \in DOMAIN p.options
      BY <1>3, <2>3
    <3> QED
      BY <1>1, <1>4, <2>3, <3>1
  <2>4. CASE i # 1 /\ j # 1
    <3>1. v[i].data = p.options[v[i].name] /\ v[j].data = p.options[v[j].name]
      BY <1>3, <2>4
    <3> QED
      BY <1>4, <3>1
  <2> QED
    BY <2>1, <2>2, <2>3, <2>4
<1>5. \A i \in 1 .. Len(v) : Agreed(v, i)
  BY <1>1, <1>4 DEF Agreed
<1> QED
  BY <1>5 DEF v

(* What a log that tells a platform gives measure: directly ... *)
Datas(v) == [i \in DOMAIN v |-> v[i].data]

LEMMA GivenByLog ==
    ASSUME NEW p, NEW d, TellsOf(p, d), Len(p.order) \in Nat
    PROVE  IsGiven(p, d.acpi, Datas(d.vars))
<1> DEFINE v == d.vars
           n == Len(p.order)
           w == Datas(v)
<1>1. /\ Len(v) = n + 1 /\ v[1].data = p.order
      /\ \A i \in 1 .. n : v[i + 1].data = p.options[p.order[i]]
  BY Zenon DEF TellsOf
<1>2. PICK R : v \in Seq(R)
  BY Zenon DEF TellsOf
<1>3. d.acpi = <<p.acpi.loader, p.acpi.rsdp, p.acpi.tables>>
  BY Zenon DEF TellsOf
<1>4. n \in Nat
  OBVIOUS
<1> HIDE DEF v, n
<1>5. w = [i \in 1 .. n + 1 |-> v[i].data]
  BY <1>1, <1>2 DEF Datas
<1> HIDE DEF w
<1> DEFINE D == {v[i].data : i \in 1 .. n + 1}
<1>6. w \in [1 .. n + 1 -> D]
  BY <1>5
<1>7. w \in Seq(D) /\ Len(w) = n + 1
  <2>1. n + 1 \in Nat
    BY <1>4
  <2> HIDE DEF D
  <2> QED
    BY <1>6, <2>1, FunIsSeq
<1>8. w[1] = p.order /\ \A i \in 1 .. n : w[i + 1] = p.options[p.order[i]]
  <2>1. 1 \in 1 .. n + 1 /\ \A i \in 1 .. n : i + 1 \in 1 .. n + 1
    BY <1>4
  <2> QED
    BY <1>1, <1>5, <2>1
<1>9. IsGiven(p, d.acpi, w)
  BY <1>3, <1>7, <1>8, Zenon DEF IsGiven, n
<1> QED
  BY <1>9 DEF w, v

(* ... and through the files of the directory. *)
LEMMA GivenByFiles ==
    ASSUME NEW p, NEW d, TellsOf(p, d), Len(p.order) \in Nat, DOMAIN p.order = 1 .. Len(p.order),
           "BootOrder" \notin DOMAIN p.options, NEW e, WrittenUpTo(e, d.vars, Len(d.vars))
    PROVE  IsGiven(p, d.acpi, LoadFromDir(e))
<1> DEFINE v == d.vars
           n == Len(p.order)
           w == LoadFromDir(e)
<1>1. /\ Len(v) = n + 1 /\ v[1].name = "BootOrder" /\ v[1].data = p.order
      /\ d.acpi = <<p.acpi.loader, p.acpi.rsdp, p.acpi.tables>>
  BY Zenon DEF TellsOf
<1>2. /\ \A i \in 1 .. n : v[i + 1].name \in DOMAIN p.options /\ v[i + 1].data = p.options[v[i + 1].name]
      /\ \A i \in 1 .. n : \E j \in 1 .. n : v[j + 1].name = p.order[i]
  BY Zenon DEF TellsOf
<1>3. \A i \in 1 .. Len(v) : Agreed(v, i)
  BY TellsAgree
<1>4. n \in Nat /\ DOMAIN p.order = 1 .. n
  OBVIOUS
<1>5. WrittenUpTo(e, v, Len(v))
  OBVIOUS
<1> HIDE DEF v, n
<1>6. \A i \in 1 .. n + 1 : v[i].name \in DOMAIN e /\ e[v[i].name] = v[i].data
  BY <1>1, <1>3, <1>5 DEF WrittenUpTo
<1>7. e["BootOrder"] = p.order
  <2>1. 1 \in 1 .. n + 1
    BY <1>4
  <2> QED
    BY <1>1, <1>6, <2>1
<1>8. ASSUME NEW i \in 1 .. n PROVE e[p.order[i]] = p.options[p.order[i]]
  <2>1. PICK j \in 1 .. n : v[j + 1].name = p.order[i]
    BY <1>2
  <2>2. j + 1 \in 1 .. n + 1
    BY <1>4
  <2>3. v[j + 1].data = p.options[v[j + 1].name]
    BY <1>2
  <2>4. e[v[j + 1].name] = v[j + 1].data
    BY <1>6, <2>2
  <2> QED
    BY <2>1, <2>3, <2>4, Zenon
<1> DEFINE a == <<p.order>>
           c == [i \in 1 .. n |-> e[p.order[i]]]
           D == {p.order} \cup {e[p.order[i]] : i \in 1 .. n}
<1>9. w = a \o c
  BY <1>4, <1>7 DEF LoadFromDir
<1>10. a \in Seq(D) /\ Len(a) = 1 /\ a[1] = p.order
  <2>1. p.order \in D
    OBVIOUS
  <2> HIDE DEF D
  <2> QED
    BY <2>1
<1>11. c \in [1 .. n -> D]
  OBVIOUS
<1>12. c \in Seq(D) /\ Len(c) = n
  <2> HIDE DEF c, D
  <2> QED
    BY <1>4, <1>11
<1>13. \A i \in 1 .. n : c[i] = p.options[p.order[i]]
  BY <1>8
<1> HIDE DEF a, c, D, w
<1>14. w \in Seq(D) /\ Len(w) = n + 1 /\ w[1] = a[1] /\ \A i \in 1 .. n : w[i + 1] = c[i]
  <2>0. a \in Seq(D) /\ c \in Seq(D) /\ Len(a) = 1 /\ Len(c) = n
    BY <1>10, <1>12
  <2>1. /\ a \o c \in Seq(D) /\ Len(a \o c) = Len(a) + Len(c)
        /\ \A i \in 1 .. Len(a) : (a \o c)[i] = a[i]
        /\ \A i \in 1 .. Len(c) : (a \o c)[Len(a) + i] = c[i]
    <3>1. PICK S, x, y : S = D /\ x = a /\ y = c
      OBVIOUS
    <3>2. x \in Seq(S) /\ y \in Seq(S)
      BY <2>0, <3>1
    <3>3. /\ x \o y \in Seq(S) /\ Len(x \o y) = Len(x) + Len(y)
          /\ \A i \in 1 .. Len(x) : (x \o y)[i] = x[i]
          /\ \A i \in 1 .. Len(y) : (x \o y)[Len(x) + i] = y[i]
      BY <3>2, ConcatFacts
    <3> QED
      BY <3>1, <3>3
  <2>2. /\ w \in Seq(D) /\ Len(w) = 1 + n /\ \A i \in 1 .. 1 : w[i] = a[i]
        /\ \A i \in 1 .. n : w[1 + i] = c[i]
    BY <1>9, <2>0, <2>1
  <2>3. 1 \in 1 .. 1 /\ 1 + n = n + 1 /\ \A i \in 1 .. n : 1 + i = i + 1
    BY <1>4
  <2> QED
    BY <2>2, <2>3
<1>15. w[1] = p.order /\ \A i \in 1 .. n : w[i + 1] = p.options[p.order[i]]
  BY <1>10, <1>13, <1>14
<1>16. IsGiven(p, d.acpi, w)
  BY <1>1, <1>14, <1>15, Zenon DEF IsGiven, n
<1> QED
  BY <1>16 DEF w

-----------------------------------------------------------------------------
(* measure                                                                   *)

(* A prediction that is right for a boot of the machine and image it is made  *)
(* for, and the directory extract-platform has written.                       *)
Predicted(x, b) ==
    LET uki == Images[b.image].mode = "uki"
    IN  /\ ~x.partial
        /\ uki => Shows(x.of, b)
        => /\ x.mrtd = Launch(Platforms[b.platform].fw)
           /\ x.rtmr1 = BootRegisters[b][1] /\ x.rtmr2 = BootRegisters[b][2]
           /\ uki => x.rtmr0 = BootRegisters[b][0]
Filled(acpi, e, f, k) ==
    /\ f \in CcelFiles /\ PlatformData[f].ok /\ acpi = PlatformData[f].acpi
    /\ WrittenUpTo(e, PlatformData[f].vars, k)

(* The log a completed extract-platform read tells what measure takes from its files. *)
LEMMA FilesTell ==
    ASSUME NEW b \in Boots, NEW acpi, NEW e, NEW f, Filled(acpi, e, f, Len(PlatformData[f].vars)),
           Shows(f, b)
    PROVE  LET p == Platforms[b.platform]
           IN  IsGiven(p, acpi, LoadFromDir(e)) /\ acpi = <<p.acpi.loader, p.acpi.rsdp, p.acpi.tables>>
<1> DEFINE p == Platforms[b.platform]
           d == PlatformData[f]
<1>1. f \in CcelFiles /\ d.ok /\ acpi = d.acpi /\ WrittenUpTo(e, d.vars, Len(d.vars))
  BY DEF Filled
<1>2. TellsOf(p, d)
  BY <1>1, ShownData
<1>3. Len(p.order) \in Nat /\ DOMAIN p.order = 1 .. Len(p.order)
  BY OrderFacts
<1>4. "BootOrder" \notin DOMAIN p.options
  BY PlatformAssumption, Zenon
<1> HIDE DEF p, d
<1>5. IsGiven(p, d.acpi, LoadFromDir(e))
  BY <1>1, <1>2, <1>3, <1>4, GivenByFiles
<1>6. IsGiven(p, acpi, LoadFromDir(e)) /\ acpi = <<p.acpi.loader, p.acpi.rsdp, p.acpi.tables>>
  BY <1>1, <1>5, Zenon DEF IsGiven
<1> QED
  BY <1>6 DEF p

LEMMA LogTells ==
    ASSUME NEW b \in Boots, NEW f \in CcelFiles, PlatformData[f].ok, Shows(f, b)
    PROVE  IsGiven(Platforms[b.platform], PlatformData[f].acpi, Datas(PlatformData[f].vars))
<1>1. TellsOf(Platforms[b.platform], PlatformData[f])
  BY ShownData
<1>2. Len(Platforms[b.platform].order) \in Nat
  BY OrderFacts
<1> QED
  BY <1>1, <1>2, GivenByLog

(* The directory, between two commands and while extract-platform writes it; *)
(* a command; what measure printed.                                          *)
DirInv ==
    /\ dir = [acpi |-> dir.acpi, vars |-> dir.vars, of |-> dir.of]
    /\ dir.of # None => Filled(dir.acpi, dir.vars, dir.of, Len(PlatformData[dir.of].vars))
Extracting(c) ==
    /\ dir.of = None /\ c.op = "extract" /\ c = [op |-> "extract", log |-> c.log, rest |-> c.rest]
    /\ LET v == PlatformData[c.log].vars
       IN  \E k \in 0 .. Len(v) : /\ c.rest = SubSeq(v, k + 1, Len(v))
                                  /\ Filled(dir.acpi, dir.vars, c.log, k)
Measuring(c) ==
    /\ c.op = "measure"
    /\ c = [op |-> "measure", boot |-> c.boot, source |-> c.source, disk |-> c.disk, at |-> c.at]
    /\ c.source \in {"platform-ccel", "files", "raw", "none"} /\ c.disk \in BOOLEAN
CmdInv == cmd = None \/ Extracting(cmd) \/ Measuring(cmd)
PredictedInv == predicted # None /\ predicted.boot \in Boots => Predicted(predicted, predicted.boot)
PredictInv == DirInv /\ CmdInv /\ PredictedInv

LEMMA PredictInit == Init => PredictInv
<1> SUFFICES ASSUME Init PROVE PredictInv
  OBVIOUS
<1>1. dir = [acpi |-> None, vars |-> <<>>, of |-> None] /\ cmd = None /\ predicted = None
  BY DEF Init
<1>2. dir = [acpi |-> dir.acpi, vars |-> dir.vars, of |-> dir.of] /\ dir.of = None
  BY <1>1
<1> QED
  BY <1>1, <1>2 DEF PredictInv, DirInv, CmdInv, PredictedInv

LEMMA DirKept == DirInv /\ dir' = dir => DirInv'
BY DEF DirInv

LEMMA ExtractStarts ==
    ASSUME DirInv, ccel \in {None} \cup CcelFiles, StartExtract
    PROVE  PredictInv'
<1> DEFINE f == ccel
           data == PlatformData[f]
           v == data.vars
<1>1. /\ f \in CcelFiles /\ data.ok /\ predicted' = None
      /\ cmd' = [op |-> "extract", log |-> f, rest |-> v]
      /\ dir' = [dir EXCEPT !.acpi = data.acpi, !.of = None]
  BY DEF StartExtract, Begin
<1>2. dir = [acpi |-> dir.acpi, vars |-> dir.vars, of |-> dir.of]
  BY DEF DirInv
<1>3. PICK R : v \in Seq(R)
  BY <1>1, VarsType
<1> HIDE DEF f, data
<1>4. dir' = [acpi |-> data.acpi, vars |-> dir.vars, of |-> None]
  BY <1>1, <1>2
<1>5. /\ dir' = [acpi |-> dir'.acpi, vars |-> dir'.vars, of |-> dir'.of]
      /\ dir'.of = None /\ dir'.acpi = data.acpi
  BY <1>4
<1>6. DirInv'
  BY <1>5 DEF DirInv
<1>7. /\ cmd'.op = "extract" /\ cmd'.log = f /\ cmd'.rest = v
      /\ cmd' = [op |-> "extract", log |-> cmd'.log, rest |-> cmd'.rest]
  <2> HIDE DEF v
  <2> QED
    BY <1>1
<1>8. WrittenUpTo(dir'.vars, v, 0)
  BY DEF WrittenUpTo
<1>9. Filled(dir'.acpi, dir'.vars, f, 0)
  BY <1>1, <1>5, <1>8 DEF Filled, data
<1>10. v = SubSeq(v, 0 + 1, Len(v)) /\ 0 \in 0 .. Len(v)
  <2> HIDE DEF v
  <2> QED
    BY <1>3
<1>11. \E k \in 0 .. Len(v) : cmd'.rest = SubSeq(v, k + 1, Len(v)) /\ Filled(dir'.acpi, dir'.vars, f, k)
  BY <1>7, <1>9, <1>10
<1>12. Extracting(cmd)'
  BY <1>5, <1>7, <1>11 DEF Extracting, data
<1> QED
  BY <1>1, <1>6, <1>12 DEF PredictInv, CmdInv, PredictedInv

(* What an extract command is about to write. *)
LEMMA RestOf ==
    ASSUME NEW R, NEW v \in Seq(R), NEW k \in 0 .. Len(v)
    PROVE  LET s == SubSeq(v, k + 1, Len(v))
           IN  /\ s = <<>> <=> k = Len(v)
               /\ s # <<>> => /\ Head(s) = v[k + 1]
                              /\ Tail(s) = SubSeq(v, (k + 1) + 1, Len(v))
<1> DEFINE s == SubSeq(v, k + 1, Len(v))
           t == SubSeq(v, (k + 1) + 1, Len(v))
<1>0. Len(v) \in Nat /\ k \in Nat
  OBVIOUS
<1>1. /\ s \in Seq(R) /\ Len(s) = Len(v) - k
      /\ \A i \in 1 .. Len(v) - k : s[i] = v[k + i]
  BY <1>0
<1> HIDE DEF s
<1>2. s = <<>> <=> Len(s) = 0
  BY <1>1, EmptySeq
<1>3. s = <<>> <=> k = Len(v)
  BY <1>0, <1>1, <1>2
<1>4. ASSUME s # <<>> PROVE Head(s) = v[k + 1] /\ Tail(s) = t
  <2>1. k < Len(v)
    BY <1>0, <1>3, <1>4
  <2>2. Head(s) = s[1] /\ 1 \in 1 .. Len(v) - k
    BY <1>0, <1>1, <1>4, <2>1
  <2>3. Head(s) = v[k + 1]
    BY <1>1, <2>2
  <2>4. /\ t \in Seq(R) /\ Len(t) = Len(v) - k - 1
        /\ \A i \in 1 .. Len(v) - k - 1 : t[i] = v[k + 1 + i]
    BY <1>0, <2>1
  <2>5. /\ Tail(s) \in Seq(R) /\ Len(Tail(s)) = Len(s) - 1
        /\ \A i \in 1 .. Len(s) - 1 : Tail(s)[i] = s[i + 1]
    BY <1>1, <1>4
  <2> DEFINE u == Tail(s)
  <2> HIDE DEF u, t
  <2>6. u \in Seq(R) /\ Len(u) = Len(v) - k - 1
    BY <1>1, <2>5 DEF u
  <2>7. ASSUME NEW i \in 1 .. Len(v) - k - 1 PROVE u[i] = t[i]
    <3>1. i \in 1 .. Len(s) - 1 /\ i + 1 \in 1 .. Len(v) - k /\ k + (i + 1) = k + 1 + i
      BY <1>0, <1>1, <2>1
    <3> QED
      BY <1>1, <2>4, <2>5, <3>1 DEF u
  <2>8. u = t
    BY <1>0, <2>1, <2>4, <2>6, <2>7, SeqEqual
  <2> QED
    BY <2>3, <2>8 DEF u
<1> QED
  BY <1>3, <1>4 DEF s

LEMMA ExtractRuns ==
    ASSUME CmdInv, InExtract
    PROVE  Extracting(cmd)
<1>1. cmd # None /\ cmd.op = "extract"
  BY DEF InExtract
<1>2. ~Measuring(cmd)
  BY <1>1 DEF Measuring
<1> QED
  BY <1>1, <1>2 DEF CmdInv

LEMMA ExtractGoesOn ==
    ASSUME DirInv, CmdInv, PredictedInv, ExtractVar
    PROVE  PredictInv'
<1> DEFINE f == cmd.log
           v == PlatformData[f].vars
           s == cmd.rest
           x == v
<1>1. /\ InExtract /\ s # <<>> /\ WriteFile(Head(s)) /\ predicted' = predicted
      /\ cmd' = [cmd EXCEPT !.rest = Tail(@)]
  BY DEF ExtractVar
<1>2. Extracting(cmd)
  BY <1>1, ExtractRuns
<1>3. /\ dir.of = None /\ cmd = [op |-> "extract", log |-> f, rest |-> s]
  BY <1>2 DEF Extracting
<1>4. PICK k \in 0 .. Len(v) : s = SubSeq(v, k + 1, Len(v)) /\ Filled(dir.acpi, dir.vars, f, k)
  BY <1>2 DEF Extracting
<1>5. f \in CcelFiles /\ PlatformData[f].ok /\ dir.acpi = PlatformData[f].acpi /\ WrittenUpTo(dir.vars, v, k)
  BY <1>4 DEF Filled
<1>6. PICK R : v \in Seq(R)
  BY <1>5, VarsType
<1>7. dir = [acpi |-> dir.acpi, vars |-> dir.vars, of |-> dir.of]
  BY DEF DirInv
<1> HIDE DEF v, s, f
<1>8. Head(s) = v[k + 1] /\ Tail(s) = SubSeq(v, (k + 1) + 1, Len(v)) /\ k # Len(v)
  BY <1>1, <1>4, <1>6, RestOf
<1>9. Len(v) \in Nat /\ k \in Nat /\ k < Len(v) /\ k + 1 \in 0 .. Len(v)
  BY <1>6, <1>8
<1> DEFINE d == dir.vars
           h == Head(s)
           e == [n \in DOMAIN d \cup {h.name} |-> IF n = h.name THEN h.data ELSE d[n]]
<1>10. dir' = [dir EXCEPT !.vars = e]
  BY <1>1 DEF WriteFile
<1> HIDE DEF e
<1>11. dir' = [acpi |-> dir.acpi, vars |-> e, of |-> dir.of]
  BY <1>7, <1>10
<1>12. /\ dir' = [acpi |-> dir'.acpi, vars |-> dir'.vars, of |-> dir'.of]
       /\ dir'.of = None /\ dir'.acpi = dir.acpi /\ dir'.vars = e
  BY <1>3, <1>11
<1>13. DirInv'
  BY <1>12 DEF DirInv
<1>14. e = [n \in DOMAIN d \cup {v[k + 1].name} |-> IF n = v[k + 1].name THEN v[k + 1].data ELSE d[n]]
  BY <1>8 DEF e
<1>15. WrittenUpTo(e, v, k + 1)
  <2>1. WrittenUpTo(d, v, k)
    BY <1>5
  <2> HIDE DEF d
  <2> QED
    BY <1>9, <1>14, <2>1, WriteNext
<1>16. Filled(dir'.acpi, dir'.vars, f, k + 1)
  BY <1>5, <1>12, <1>15 DEF Filled, v
<1>17. cmd' = [op |-> "extract", log |-> f, rest |-> Tail(s)]
  <2>1. [cmd EXCEPT !.rest = Tail(@)] = [cmd EXCEPT !.rest = Tail(s)]
    BY DEF s
  <2>2. cmd' = [cmd EXCEPT !.rest = Tail(s)]
    BY <1>1, <2>1
  <2> QED
    BY <1>3, <2>2
<1>18. /\ cmd'.op = "extract" /\ cmd'.log = f /\ cmd'.rest = Tail(s)
       /\ cmd' = [op |-> "extract", log |-> cmd'.log, rest |-> cmd'.rest]
  BY <1>17
<1>19. \E j \in 0 .. Len(v) : cmd'.rest = SubSeq(v, j + 1, Len(v)) /\ Filled(dir'.acpi, dir'.vars, f, j)
  BY <1>8, <1>9, <1>16, <1>18
<1>20. Extracting(cmd)'
  BY <1>12, <1>18, <1>19 DEF Extracting, v
<1>21. PredictedInv'
  BY <1>1 DEF PredictedInv
<1> QED
  BY <1>13, <1>20, <1>21 DEF PredictInv, CmdInv

LEMMA ExtractEnds ==
    ASSUME DirInv, CmdInv, PredictedInv, ExtractDone
    PROVE  PredictInv'
<1> DEFINE f == cmd.log
           v == PlatformData[f].vars
           s == cmd.rest
<1>1. /\ InExtract /\ s = <<>> /\ predicted' = predicted
      /\ cmd' = None /\ dir' = [dir EXCEPT !.of = f]
  BY DEF ExtractDone
<1>2. Extracting(cmd)
  BY <1>1, ExtractRuns
<1>4. PICK k \in 0 .. Len(v) : s = SubSeq(v, k + 1, Len(v)) /\ Filled(dir.acpi, dir.vars, f, k)
  BY <1>2 DEF Extracting
<1>5. f \in CcelFiles
  BY <1>4 DEF Filled
<1>6. PICK R : v \in Seq(R)
  BY <1>5, VarsType
<1>7. dir = [acpi |-> dir.acpi, vars |-> dir.vars, of |-> dir.of]
  BY DEF DirInv
<1> HIDE DEF v, s, f
<1>8. k = Len(v)
  BY <1>1, <1>4, <1>6, RestOf
<1>9. Filled(dir.acpi, dir.vars, f, Len(PlatformData[f].vars))
  BY <1>4, <1>8 DEF v
<1>10. dir' = [acpi |-> dir.acpi, vars |-> dir.vars, of |-> f]
  BY <1>1, <1>7
<1>11. /\ dir' = [acpi |-> dir'.acpi, vars |-> dir'.vars, of |-> dir'.of]
       /\ dir'.of = f /\ dir'.acpi = dir.acpi /\ dir'.vars = dir.vars
  BY <1>10
<1>12. DirInv'
  BY <1>9, <1>11 DEF DirInv
<1>13. PredictedInv'
  BY <1>1 DEF PredictedInv
<1> QED
  BY <1>1, <1>12, <1>13 DEF PredictInv, CmdInv

(* What measure takes from the log or the files is what the boot measures, if  *)
(* the log they come from shows it.                                            *)
LEMMA GivenIsRight ==
    ASSUME DirInv, Measuring(cmd), ccel \in {None} \cup CcelFiles, cmd.boot \in Boots,
           PlatformGiven.ok, cmd.source # "none", Shows(PlatformGiven.of, cmd.boot)
    PROVE  IsGiven(Platforms[cmd.boot.platform], PlatformGiven.acpi, PlatformGiven.vars)
<1> DEFINE b == cmd.boot
           p == Platforms[b.platform]
           g == PlatformGiven
<1>0. cmd.source \in {"platform-ccel", "files", "raw", "none"}
  BY DEF Measuring
<1>1. CASE cmd.source = "platform-ccel"
  <2>1. g = IF ccel = None THEN Missing ELSE FromCcel(PlatformData[ccel])
    BY <1>1 DEF PlatformGiven
  <2>2. ccel # None
    BY <2>1 DEF Missing
  <2> DEFINE d == PlatformData[ccel]
  <2>3. g = [ok |-> d.ok /\ d.vars # <<>>, acpi |-> d.acpi, vars |-> Datas(d.vars), of |-> ccel]
    BY <2>1, <2>2 DEF FromCcel, Datas
  <2> HIDE DEF g, d
  <2>4. g.ok = (d.ok /\ d.vars # <<>>) /\ g.acpi = d.acpi /\ g.vars = Datas(d.vars) /\ g.of = ccel
    BY <2>3
  <2>5. ccel \in CcelFiles /\ d.ok /\ Shows(ccel, b)
    BY <2>2, <2>4 DEF g
  <2>6. IsGiven(p, d.acpi, Datas(d.vars))
    BY <2>5, LogTells DEF d
  <2> QED
    BY <2>4, <2>6 DEF g
<1> DEFINE acpi == <<p.acpi.loader, p.acpi.rsdp, p.acpi.tables>>
<1>2. ASSUME NEW a, g = FromDir(a), a \in {dir.acpi, acpi} PROVE IsGiven(p, g.acpi, g.vars)
  <2>1. g = [ok |-> TRUE, acpi |-> a, vars |-> LoadFromDir(dir.vars), of |-> dir.of]
    BY <1>2 DEF FromDir
  <2> HIDE DEF g
  <2>2. g.acpi = a /\ g.vars = LoadFromDir(dir.vars) /\ g.of = dir.of
    BY <2>1
  <2>3. Shows(dir.of, b) /\ b \in Boots
    BY <2>2 DEF g
  <2>4. Filled(dir.acpi, dir.vars, dir.of, Len(PlatformData[dir.of].vars))
    BY <2>3 DEF DirInv, Shows
  <2> HIDE DEF b
  <2>5. IsGiven(p, dir.acpi, LoadFromDir(dir.vars)) /\ dir.acpi = acpi
    BY <2>3, <2>4, FilesTell
  <2>6. a = dir.acpi
    BY <1>2, <2>5
  <2> QED
    BY <2>2, <2>5, <2>6
<1>3. CASE cmd.source = "files"
  <2>1. g = IF dir.acpi = None \/ ~Loads(dir.vars) THEN Missing ELSE FromDir(dir.acpi)
    BY <1>3 DEF PlatformGiven
  <2>2. g = FromDir(dir.acpi)
    BY <2>1, SMTT(40) DEF Missing
  <2> QED
    BY <1>2, <2>2
<1>4. CASE cmd.source = "raw"
  <2>1. g = IF ~Loads(dir.vars) THEN Missing ELSE FromDir(acpi)
    BY <1>4, SMTT(40) DEF PlatformGiven, Platform
  <2>2. g = FromDir(acpi)
    BY <2>1 DEF Missing
  <2> QED
    BY <1>2, <2>2
<1> QED
  BY <1>0, <1>1, <1>3, <1>4

LEMMA MeasureRuns ==
    ASSUME CmdInv, NEW at, InMeasure(at)
    PROVE  Measuring(cmd)
<1>1. cmd # None /\ cmd.op = "measure"
  BY DEF InMeasure
<1>2. ~Extracting(cmd)
  BY <1>1 DEF Extracting
<1> QED
  BY <1>1, <1>2 DEF CmdInv

LEMMA MeasureIsRight ==
    ASSUME DirInv, CmdInv, ccel \in {None} \cup CcelFiles, MeasureDone
    PROVE  PredictInv'
<1> DEFINE b == cmd.boot
           p == Platforms[b.platform]
           im == Images[b.image]
           g == PlatformGiven
           uki == im.mode = "uki"
           r0 == IF uki THEN Rtmr0(b.platform, g.acpi, g.vars) ELSE None
           part == uki /\ (cmd.source = "none" \/ ~cmd.disk)
           x == predicted'
<1>1. /\ InMeasure({0}) /\ cmd' = None /\ dir' = dir /\ Computes(g)
      /\ x = [boot |-> b, mrtd |-> Mrtd(p.fw), rtmr0 |-> r0, rtmr1 |-> Rtmr1(im, cmd.disk),
              rtmr2 |-> Rtmr2(im), partial |-> part, of |-> g.of]
  BY DEF MeasureDone, files, Platform, Image
<1>2. Measuring(cmd)
  BY <1>1, MeasureRuns
<1>3. cmd.disk \in BOOLEAN
  BY <1>2 DEF Measuring
<1>4. uki => g.ok /\ HobFits(b.platform)
  BY <1>1 DEF Computes, Image
<1> HIDE DEF p, im, g, r0, part
<1>5. /\ x.boot = b /\ x.mrtd = Mrtd(p.fw) /\ x.rtmr0 = r0 /\ x.rtmr1 = Rtmr1(im, cmd.disk)
      /\ x.rtmr2 = Rtmr2(im) /\ x.partial = part /\ x.of = g.of
  <2> HIDE DEF x, b
  <2> QED
    BY <1>1
<1>6. ASSUME b \in Boots, ~x.partial, uki => Shows(x.of, b)
      PROVE  /\ x.mrtd = Launch(p.fw) /\ x.rtmr1 = BootRegisters[b][1] /\ x.rtmr2 = BootRegisters[b][2]
             /\ uki => x.rtmr0 = BootRegisters[b][0]
  <2>1. Boots_(b.platform)
    BY <1>6 DEF Boots_
  <2>2. x.mrtd = Launch(p.fw)
    BY <1>5, <2>1, MrtdIsLaunch DEF p
  <2>3. /\ BootRegisters[b][1] = Rtmr1(im, TRUE) /\ BootRegisters[b][2] = Rtmr2(im)
        /\ im.mode # "uki" => Rtmr1(im, FALSE) = Rtmr1(im, TRUE)
    BY <1>6, ImageRegisters DEF im
  <2>4. uki => cmd.source # "none" /\ cmd.disk
    BY <1>5, <1>6 DEF part
  <2>5. Rtmr1(im, cmd.disk) = Rtmr1(im, TRUE)
    <3>1. CASE uki
      <4>1. cmd.disk = TRUE
        BY <1>3, <2>4, <3>1
      <4> QED
        BY <4>1
    <3>2. CASE ~uki
      BY <1>3, <2>3, <3>2
    <3> QED
      BY <3>1, <3>2
  <2>6. ASSUME uki PROVE x.rtmr0 = BootRegisters[b][0]
    <3>1. g.ok /\ HobFits(b.platform) /\ cmd.source # "none" /\ Shows(g.of, b)
      BY <1>4, <1>5, <1>6, <2>4, <2>6
    <3>2. IsGiven(p, g.acpi, g.vars)
      BY <1>2, <1>6, <3>1, GivenIsRight DEF p, g
    <3>3. Rtmr0(b.platform, g.acpi, g.vars) = BootRegisters[b][0]
      BY <1>6, <3>1, <3>2, Rtmr0IsRight DEF p
    <3>4. r0 = Rtmr0(b.platform, g.acpi, g.vars)
      BY <2>6 DEF r0
    <3> QED
      BY <1>5, <3>3, <3>4
  <2> QED
    BY <1>5, <2>2, <2>3, <2>5, <2>6
<1>7. b \in Boots => Predicted(x, b)
  BY <1>6 DEF Predicted, p, im
<1>8. PredictedInv'
  BY <1>5, <1>7 DEF PredictedInv
<1>9. DirInv'
  BY <1>1, DirKept
<1> QED
  BY <1>1, <1>8, <1>9 DEF PredictInv, CmdInv

LEMMA PredictStep == PredictInv /\ VerdictInv /\ [Next]_vars => PredictInv'
<1> SUFFICES ASSUME PredictInv, VerdictInv, [Next]_vars PROVE PredictInv'
  OBVIOUS
<1>0. DirInv /\ CmdInv /\ PredictedInv /\ ccel \in {None} \cup CcelFiles
  BY DEF PredictInv, VerdictInv
<1>1. ASSUME dir' = dir, predicted' \in {None, predicted}, CmdInv' PROVE PredictInv'
  <2>1. DirInv'
    BY <1>0, <1>1, DirKept
  <2>2. PredictedInv'
    BY <1>0, <1>1 DEF PredictedInv
  <2> QED
    BY <1>1, <2>1, <2>2 DEF PredictInv
<1>2. ASSUME dir' = dir, cmd' = cmd, predicted' = predicted PROVE PredictInv'
  <2>1. CmdInv'
    BY <1>0, <1>2 DEF CmdInv, Extracting, Measuring
  <2> QED
    BY <1>1, <1>2, <2>1
<1>3. ASSUME NEW b \in Boots, Boot(b) PROVE PredictInv'
  BY <1>2, <1>3 DEF Boot, files
<1>4. CASE SaveCcel
  BY <1>2, <1>4 DEF SaveCcel
<1>5. CASE Verify
  <2>1. dir' = dir /\ predicted' = None /\ cmd' = None
    BY <1>5 DEF Verify, Begin, files
  <2>2. CmdInv'
    BY <2>1 DEF CmdInv
  <2> QED
    BY <1>1, <2>1, <2>2
<1>6. CASE StartExtract
  BY <1>0, <1>6, ExtractStarts
<1>7. CASE ExtractVar
  BY <1>0, <1>7, ExtractGoesOn
<1>8. CASE ExtractDone
  BY <1>0, <1>8, ExtractEnds
<1>9. ASSUME NEW m \in Measures, StartMeasure(m) PROVE PredictInv'
  <2> DEFINE s == m.source
             d == m.disk
             b == m.boot
  <2>1. /\ dir' = dir /\ predicted' = None
        /\ cmd' = [op |-> "measure", boot |-> b, source |-> s, disk |-> d, at |-> 1]
    BY <1>9 DEF StartMeasure, Begin, files
  <2>2. s \in {"platform-ccel", "files", "raw", "none"} /\ d \in BOOLEAN
    BY MeasureAssumption
  <2> HIDE DEF s, d, b
  <2>3. /\ cmd'.op = "measure" /\ cmd'.source = s /\ cmd'.disk = d
        /\ cmd' = [op |-> "measure", boot |-> cmd'.boot, source |-> cmd'.source, disk |-> cmd'.disk,
                   at |-> cmd'.at]
    BY <2>1
  <2>4. Measuring(cmd)'
    BY <2>2, <2>3 DEF Measuring
  <2> QED
    BY <1>1, <2>1, <2>4 DEF CmdInv
<1>10. CASE WalkTable
  <2> DEFINE to == CASE Entry.guid = "TDX" -> 0 [] Entry.len = 0 -> cmd.at [] OTHER -> cmd.at + 1
  <2>1. /\ dir' = dir /\ predicted' = predicted /\ cmd' = [cmd EXCEPT !.at = to]
        /\ InMeasure(DOMAIN Table)
    BY <1>10 DEF WalkTable, files
  <2> HIDE DEF to
  <2>2. Measuring(cmd)
    BY <1>0, <2>1, MeasureRuns
  <2>3. /\ cmd = [op |-> "measure", boot |-> cmd.boot, source |-> cmd.source, disk |-> cmd.disk,
                  at |-> cmd.at]
        /\ cmd.source \in {"platform-ccel", "files", "raw", "none"} /\ cmd.disk \in BOOLEAN
    BY <2>2 DEF Measuring
  <2>4. cmd' = [op |-> "measure", boot |-> cmd.boot, source |-> cmd.source, disk |-> cmd.disk, at |-> to]
    BY <2>1, <2>3
  <2>5. /\ cmd'.op = "measure" /\ cmd'.source = cmd.source /\ cmd'.disk = cmd.disk
        /\ cmd' = [op |-> "measure", boot |-> cmd'.boot, source |-> cmd'.source, disk |-> cmd'.disk,
                   at |-> cmd'.at]
    BY <2>4
  <2>6. Measuring(cmd)'
    BY <2>3, <2>5 DEF Measuring
  <2> QED
    BY <1>1, <2>1, <2>6 DEF CmdInv
<1>11. CASE WalkFails \/ MeasureFails \/ Kill
  <2>1. dir' = dir /\ predicted' = predicted /\ cmd' = None
    BY <1>11 DEF WalkFails, MeasureFails, Kill, files
  <2> QED
    BY <1>1, <2>1 DEF CmdInv
<1>12. CASE MeasureDone
  BY <1>0, <1>12, MeasureIsRight
<1>13. ASSUME NEW c \in Containers, CreateContainer(c) PROVE PredictInv'
  BY <1>2, <1>13 DEF CreateContainer, files, host
<1>14. ASSUME NEW i \in DOMAIN pod, HookSkips(i) \/ HookRefuses(i) \/ HookExtends(i)
                                    \/ StartContainer(i) \/ CreationFails(i)
       PROVE  PredictInv'
  <2>1. dir' = dir /\ cmd' = cmd /\ predicted' = predicted
    BY <1>14 DEF HookSkips, HookRefuses, HookExtends, StartContainer, CreationFails, files, host
  <2> QED
    BY <1>2, <2>1
<1>15. CASE UNCHANGED vars
  BY <1>2, <1>15 DEF vars
<1> QED
  BY <1>3, <1>4, <1>5, <1>6, <1>7, <1>8, <1>9, <1>10, <1>11, <1>12, <1>13, <1>14, <1>15, Zenon DEF Next

LEMMA PredictImplies == PredictInv /\ VerdictInv => PredictionMatchesBoot
<1> SUFFICES ASSUME PredictInv, VerdictInv PROVE PredictionMatchesBoot
  OBVIOUS
<1> DEFINE b == td.boot
           uki == Images[b.image].mode = "uki"
           x == predicted
<1> SUFFICES ASSUME x # None, x.boot = b, ~x.partial, uki => Shows(x.of, b)
             PROVE  /\ x.mrtd = Launch(Platforms[b.platform].fw)
                    /\ x.rtmr1 = Registers(td)[1] /\ x.rtmr2 = Registers(td)[2]
                    /\ uki => x.rtmr0 = Registers(td)[0]
  BY DEF PredictionMatchesBoot
<1>1. b \in Boots
  BY DEF VerdictInv
<1>2. Predicted(x, b)
  BY <1>1 DEF PredictInv, PredictedInv
<1>3. /\ x.mrtd = Launch(Platforms[b.platform].fw)
      /\ x.rtmr1 = BootRegisters[b][1] /\ x.rtmr2 = BootRegisters[b][2]
      /\ uki => x.rtmr0 = BootRegisters[b][0]
  BY <1>2 DEF Predicted
<1>4. \A i \in 0 .. 2 : Registers(td)[i] = BootRegisters[b][i]
  BY RegistersOfBoot
<1>5. 0 \in 0 .. 2 /\ 1 \in 0 .. 2 /\ 2 \in 0 .. 2
  OBVIOUS
<1> QED
  BY <1>3, <1>4, <1>5

(* measure predicts what a later boot of the same machine and image measures   *)
(* into MRTD and RTMR[0..2] (cmd_measure, Tdvf::mrtd, Tdvf::rtmr0 with the TD  *)
(* HOB, compute_rtmr1_*, precompute_rtmr2_digests), whichever of its sources it *)
(* takes ACPI hashes and boot variables from: a log, also one of another       *)
(* image's boot or a damaged one, or the files extract-platform left; provided *)
(* that log holds what the boot extends into RTMR[0] and its boot variables    *)
(* have the data of their digests, neither of which measure checks; and unless *)
(* it was made without platform data or the disk.                              *)
THEOREM PredictionStaysRight == Spec => []PredictionMatchesBoot
<1>1. Init => VerdictInv /\ PredictInv
  BY VerdictInit, PredictInit
<1>2. VerdictInv /\ [Next]_vars => VerdictInv'
  BY VerdictStep
<1>3. PredictInv /\ VerdictInv /\ [Next]_vars => PredictInv'
  BY PredictStep
<1>4. PredictInv /\ VerdictInv => PredictionMatchesBoot
  BY PredictImplies
<1> QED
  BY <1>1, <1>2, <1>3, <1>4, PTL DEF Spec
=============================================================================
