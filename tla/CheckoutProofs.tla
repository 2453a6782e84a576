--------------------------- MODULE CheckoutProofs ---------------------------
(***************************************************************************)
(* Proofs about the staging protocol of Checkout, for any number of builds,*)
(* profiles and sync inputs and for kills of either scope.                 *)
(***************************************************************************)
EXTENDS Checkout, TLAPS

-----------------------------------------------------------------------------
(* Type correctness                                                        *)

\* Initially every variable has its type.
LEMMA TypeInit == Init => TypeOK
  BY CheckoutAssumption
  DEF Init, TypeOK, PCs, Args, Owners, ProfileDir, Absent, Shipped

\* The steps of a build up to its profiles keep the types.
LEMMA TypeEntry ==
    ASSUME TypeOK, NEW b \in Builds,
           \/ Start(b) \/ LockCheckout(b) \/ SweepDone(b) \/ ClearSyncInputs(b)
           \/ SyncInputsWritten(b) \/ StageOverlay(b) \/ ValidateProfiles(b)
           \/ \E i \in Inputs : WriteSyncInput(b, i)
           \/ \E p \in Profiles : SweepOne(b, p)
    PROVE  TypeOK'
<1> USE DEF TypeOK, Goto, PCs, Locked, Ended, private, staging, mkosiState, ghosts
<1>1. CASE Start(b)
  <2>1. args' \in [Builds -> Args]
    BY <1>1 DEF Start
  <2>2. pc' \in [Builds -> PCs]
        /\ result' \in [Builds -> {"none", "ok", "early", "err", "collision"}]
    BY <1>1 DEF Start
  <2> QED
    BY <1>1, <2>1, <2>2 DEF Start
<1>2. CASE LockCheckout(b)
  BY <1>2 DEF LockCheckout
<1>3. CASE SweepDone(b)
  BY <1>3 DEF SweepDone
<1>4. CASE ClearSyncInputs(b)
  BY <1>4 DEF ClearSyncInputs
<1>5. CASE SyncInputsWritten(b)
  BY <1>5 DEF SyncInputsWritten
<1>6. CASE StageOverlay(b)
  BY <1>6 DEF StageOverlay
<1>7. CASE ValidateProfiles(b)
  BY <1>7 DEF ValidateProfiles
<1>8. ASSUME NEW i \in Inputs, WriteSyncInput(b, i) PROVE TypeOK'
  BY <1>8 DEF WriteSyncInput
<1>9. ASSUME NEW p \in Profiles, SweepOne(b, p) PROVE TypeOK'
  BY <1>9 DEF SweepOne, Absent, ProfileDir, Owners
<1> QED
  BY <1>1, <1>2, <1>3, <1>4, <1>5, <1>6, <1>7, <1>8, <1>9

\* So do the staging of profiles, mkosi and the moves of its artifacts.
LEMMA TypeBuild ==
    ASSUME TypeOK, NEW b \in Builds,
           \/ ProfilesStaged(b) \/ StartMkosi(b) \/ FinishMkosi(b)
           \/ CollectUki(b) \/ CollectDisk(b)
           \/ \E p \in Profiles : StageMkdir(b, p) \/ StageMarker(b, p)
                                  \/ StageCopy(b, p)
    PROVE  TypeOK'
<1> USE DEF TypeOK, Goto, PCs, Locked, Ended, private, staging, mkosiState, ghosts
<1>1. CASE ProfilesStaged(b)
  BY <1>1 DEF ProfilesStaged
<1>2. CASE StartMkosi(b)
  BY <1>2 DEF StartMkosi
<1>3. CASE FinishMkosi(b)
  BY <1>3 DEF FinishMkosi
<1>4. CASE CollectUki(b)
  BY <1>4 DEF CollectUki, Collect, Artifacts
<1>5. CASE CollectDisk(b)
  BY <1>5 DEF CollectDisk, Collect, Artifacts
<1>6. ASSUME NEW p \in Profiles, StageMkdir(b, p) PROVE TypeOK'
  <2>1. [owner |-> b, marked |-> FALSE, full |-> FALSE] \in ProfileDir
    BY DEF ProfileDir, Owners
  <2> QED
    BY <1>6, <2>1 DEF StageMkdir
<1>7. ASSUME NEW p \in Profiles, StageMarker(b, p) PROVE TypeOK'
  <2>1. [profile[p] EXCEPT !.marked = TRUE] \in ProfileDir
    BY DEF ProfileDir
  <2> QED
    BY <1>7, <2>1 DEF StageMarker
<1>8. ASSUME NEW p \in Profiles, StageCopy(b, p) PROVE TypeOK'
  <2>1. [profile[p] EXCEPT !.full = TRUE] \in ProfileDir
    BY DEF ProfileDir
  <2> QED
    BY <1>8, <2>1 DEF StageCopy
<1> QED
  BY <1>1, <1>2, <1>3, <1>4, <1>5, <1>6, <1>7, <1>8

\* What a broken removal leaves is a directory.
LEMMA RemnantType ==
    ASSUME NEW d \in ProfileDir, NEW r \in Remnants(d)
    PROVE  /\ r \in ProfileDir /\ r.owner = d.owner
           /\ r.marked => d.marked
           /\ r.full => d.full
  BY DEF Remnants, ProfileDir

\* So do failures, cleanup, kills and what happens outside a build.
LEMMA TypeExit ==
    ASSUME TypeOK, NEW b \in Builds,
           \/ FailEarly(b) \/ Fail(b) \/ ProfilesDropped(b) \/ WipeLocal(b)
           \/ Unlock(b) \/ Kill(b) \/ KillMidWipe(b) \/ OrphanHook(b)
           \/ OrphanEnds(b)
           \/ \E p \in Profiles : DropProfile(b, p) \/ KillMidRemove(b, p)
    PROVE  TypeOK'
<1> USE DEF TypeOK, Goto, PCs, Locked, Ended, private, staging, mkosiState, ghosts
<1>1. CASE FailEarly(b)
  <2>1. /\ pc' \in [Builds -> PCs]
        /\ result' \in [Builds -> {"none", "ok", "early", "err", "collision"}]
        /\ sync' \subseteq Builds \X Inputs
    BY <1>1 DEF FailEarly
  <2>2. profile' \in [Profiles -> ProfileDir] /\ torn' \subseteq Profiles
    BY <1>1, RemnantType DEF FailEarly, Lost
  <2> QED
    BY <1>1, <2>1, <2>2 DEF FailEarly
<1>2. CASE Fail(b)
  BY <1>2 DEF Fail
<1>3. CASE ProfilesDropped(b)
  BY <1>3 DEF ProfilesDropped
<1>4. CASE WipeLocal(b)
  BY <1>4 DEF WipeLocal
<1>5. CASE Unlock(b)
  BY <1>5 DEF Unlock
<1>6. CASE Kill(b)
  BY <1>6 DEF Kill, Dies
<1>7. CASE KillMidWipe(b)
  BY <1>7 DEF KillMidWipe, Dies
<1>8. CASE OrphanHook(b)
  BY <1>8 DEF OrphanHook
<1>9. CASE OrphanEnds(b)
  BY <1>9 DEF OrphanEnds
<1>10. ASSUME NEW p \in Profiles, DropProfile(b, p) PROVE TypeOK'
  <2>1. Absent \in ProfileDir
    BY DEF Absent, ProfileDir, Owners
  <2>2. profile[p] \in ProfileDir
    OBVIOUS
  <2>3. profile' \in [Profiles -> ProfileDir] /\ torn' \subseteq Profiles
    <3>1. CASE profile' = [profile EXCEPT ![p] = Absent] /\ UNCHANGED ghosts
      BY <2>1, <3>1
    <3>2. CASE \E r \in Remnants(profile[p]) :
                 profile' = [profile EXCEPT ![p] = r] /\ torn' = torn \cup Lost(p, r)
      BY <2>2, <3>2, RemnantType DEF Lost
    <3> QED
      BY <1>10, <3>1, <3>2 DEF DropProfile
  <2> QED
    BY <1>10, <2>3 DEF DropProfile
<1>11. ASSUME NEW p \in Profiles, KillMidRemove(b, p) PROVE TypeOK'
  <2>1. profile' \in [Profiles -> ProfileDir] /\ torn' \subseteq Profiles
    BY <1>11, RemnantType DEF KillMidRemove, Dies, Lost
  <2> QED
    BY <1>11, <2>1 DEF KillMidRemove, Dies
<1> QED
  BY <1>1, <1>2, <1>3, <1>4, <1>5, <1>6, <1>7, <1>8, <1>9, <1>10, <1>11

\* Every step keeps the types.
LEMMA TypeStep == TypeOK /\ [Next]_vars => TypeOK'
<1> SUFFICES ASSUME TypeOK, [Next]_vars PROVE TypeOK'
  OBVIOUS
<1>1. CASE Prep
  BY <1>1 DEF Prep, TypeOK, private, mkosiState, ghosts
<1>2. ASSUME NEW b \in Builds, Step(b) \/ Environment(b) PROVE TypeOK'
  BY <1>2, TypeEntry, TypeBuild, TypeExit DEF Step, Environment
<1>3. CASE UNCHANGED vars
  BY <1>3 DEF vars, TypeOK
<1> QED
  BY <1>1, <1>2, <1>3 DEF Next

\* Every reachable state is well typed (TypeOK): in particular a build never
\* reports an artifact that no build made.
THEOREM TypeCorrect == Spec => []TypeOK
  BY TypeInit, TypeStep, PTL DEF Spec

-----------------------------------------------------------------------------
(* The lock                                                                *)

\* A build between lock_checkout and the release of the lock holds it.
LockInv == \A b \in Builds : pc[b] \in Locked => lock = b

\* Every step keeps the lock with the build that works under it.
LEMMA LockStep == TypeOK /\ LockInv /\ [Next]_vars => LockInv'
<1> SUFFICES ASSUME TypeOK, LockInv, [Next]_vars, NEW c \in Builds,
                    pc'[c] \in Locked
             PROVE  lock' = c
  BY DEF LockInv
<1> USE CheckoutAssumption DEF LockInv, TypeOK, Locked, Goto
<1>1. ASSUME NEW b \in Builds, LockCheckout(b) PROVE lock' = c
  BY <1>1 DEF LockCheckout
<1>2. ASSUME NEW b \in Builds, Unlock(b) PROVE lock' = c
  BY <1>2 DEF Unlock
<1>3. ASSUME NEW b \in Builds, NEW lost, Dies(b, lost) PROVE lock' = c
  BY <1>3 DEF Dies
<1>4. ASSUME NEW b \in Builds,
             Kill(b) \/ KillMidWipe(b) \/ \E p \in Profiles : KillMidRemove(b, p)
      PROVE  lock' = c
  BY <1>3, <1>4 DEF Kill, KillMidWipe, KillMidRemove
<1>5. ASSUME lock' = lock, pc[c] \in Locked PROVE lock' = c
  BY <1>5
<1>6. ASSUME NEW b \in Builds,
             \/ Start(b) \/ SweepDone(b) \/ ClearSyncInputs(b)
             \/ SyncInputsWritten(b) \/ StageOverlay(b) \/ ValidateProfiles(b)
             \/ ProfilesStaged(b) \/ StartMkosi(b) \/ FinishMkosi(b)
             \/ CollectUki(b) \/ CollectDisk(b) \/ ProfilesDropped(b)
             \/ WipeLocal(b) \/ FailEarly(b) \/ Fail(b)
      PROVE  lock' = lock /\ pc[c] \in Locked
  BY <1>6 DEF Start, SweepDone, ClearSyncInputs, SyncInputsWritten, StageOverlay,
              ValidateProfiles, ProfilesStaged, StartMkosi, FinishMkosi,
              CollectUki, CollectDisk, Collect, ProfilesDropped, WipeLocal,
              FailEarly, Fail
<1>7. ASSUME NEW b \in Builds,
             \/ OrphanHook(b) \/ OrphanEnds(b) \/ Prep \/ UNCHANGED vars
             \/ \E i \in Inputs : WriteSyncInput(b, i)
             \/ \E p \in Profiles : \/ SweepOne(b, p) \/ StageMkdir(b, p)
                                    \/ StageMarker(b, p) \/ StageCopy(b, p)
                                    \/ DropProfile(b, p)
      PROVE  lock' = lock /\ pc[c] \in Locked
  BY <1>7 DEF OrphanHook, OrphanEnds, Prep, vars, WriteSyncInput, SweepOne,
              StageMkdir, StageMarker, StageCopy, DropProfile
<1> QED
  BY <1>1, <1>2, <1>4, <1>5, <1>6, <1>7 DEF Next, Step, Environment

\* While a build works under the lock, every other one is outside it.
LEMMA OthersOutside ==
    ASSUME LockInv, NEW b \in Builds, pc[b] \in Locked, NEW c \in Builds \ {b}
    PROVE  pc[c] \notin Locked
  BY DEF LockInv

-----------------------------------------------------------------------------
(* Sync inputs                                                             *)

\* While a build writes its sync inputs, nobody else's are there.
WritingInv ==
    \A b \in Builds : pc[b] = "sync" => sync \subseteq {b} \X args[b].sync

SyncInv == TypeOK /\ LockInv /\ WritingInv /\ SyncInputsAreMine

\* Every step keeps the sync inputs those of the build that uses them.
LEMMA SyncStep == SyncInv /\ [Next]_vars => SyncInv'
<1> SUFFICES ASSUME SyncInv, [Next]_vars PROVE SyncInv'
  OBVIOUS
<1>1. TypeOK' /\ LockInv'
  BY TypeStep, LockStep DEF SyncInv
<1> DEFINE Mine(c) == /\ pc'[c] = "sync" => sync' \subseteq {c} \X args'[c].sync
                      /\ pc'[c] \in SyncInputsInUse =>
                           sync' = {c} \X args'[c].sync
<1> SUFFICES ASSUME NEW c \in Builds PROVE Mine(c)
  BY <1>1 DEF SyncInv, WritingInv, SyncInputsAreMine
<1> USE DEF SyncInv, SyncInputsInUse
\* A step of the program that leaves the files and the arguments alone.
<1>2. ASSUME sync' = sync,
             args'[c] = args[c] \/ pc'[c] \notin {"sync"} \cup SyncInputsInUse,
             \/ pc'[c] = pc[c] \/ pc'[c] \notin {"sync"} \cup SyncInputsInUse
             \/ pc[c] \in SyncInputsInUse /\ pc'[c] # "sync"
      PROVE  Mine(c)
  BY <1>2 DEF WritingInv, SyncInputsAreMine
\* A step of another build that works under the lock.
<1>3. ASSUME NEW b \in Builds, b # c, pc[b] \in Locked, pc'[c] = pc[c]
      PROVE  Mine(c)
  <2>1. pc[c] \notin Locked
    BY <1>3, OthersOutside
  <2> QED
    BY <1>3, <2>1 DEF Locked
<1> HIDE DEF Mine
<1>4. ASSUME NEW b \in Builds,
             \/ ClearSyncInputs(b) \/ WipeLocal(b) \/ FailEarly(b) \/ KillMidWipe(b)
      PROVE  Mine(c)
  <2>1. CASE b = c
    BY <1>4, <2>1 DEF Mine, ClearSyncInputs, WipeLocal, FailEarly, KillMidWipe,
                      Dies, Goto, TypeOK
  <2>2. CASE b # c
    <3>1. pc[b] \in Locked /\ pc'[c] = pc[c]
      BY <1>4, <2>2 DEF ClearSyncInputs, WipeLocal, FailEarly, KillMidWipe, Dies,
                        Goto, TypeOK, Locked
    <3> QED
      BY <1>3, <2>2, <3>1
  <2> QED
    BY <2>1, <2>2
<1>5. ASSUME NEW b \in Builds, NEW i \in Inputs, WriteSyncInput(b, i) PROVE Mine(c)
  <2>1. CASE b = c
    BY <1>5, <2>1 DEF Mine, WriteSyncInput, WritingInv, private, TypeOK
  <2>2. CASE b # c
    BY <1>3, <1>5, <2>2 DEF WriteSyncInput, Locked
  <2> QED
    BY <2>1, <2>2
<1>6. ASSUME NEW b \in Builds, SyncInputsWritten(b) PROVE Mine(c)
  <2>1. CASE b = c
    <3>1. sync \subseteq {c} \X args[c].sync
      BY <1>6, <2>1 DEF SyncInputsWritten, Goto, WritingInv
    <3>2. \A i \in args[c].sync : <<c, i>> \in sync
      BY <1>6, <2>1 DEF SyncInputsWritten
    <3>3. sync = {c} \X args[c].sync
      BY <3>1, <3>2
    <3>4. pc'[c] = "overlay" /\ sync' = sync /\ args' = args
      BY <1>6, <2>1 DEF SyncInputsWritten, Goto, TypeOK, private, staging
    <3> QED
      BY <3>3, <3>4 DEF Mine
  <2>2. CASE b # c
    BY <1>3, <1>6, <2>2 DEF SyncInputsWritten, Goto, TypeOK, Locked
  <2> QED
    BY <2>1, <2>2
<1>7. ASSUME NEW b \in Builds,
             \/ Start(b) \/ LockCheckout(b) \/ SweepDone(b) \/ StageOverlay(b)
             \/ ValidateProfiles(b) \/ ProfilesStaged(b) \/ StartMkosi(b)
             \/ FinishMkosi(b) \/ CollectUki(b) \/ CollectDisk(b) \/ Fail(b)
             \/ ProfilesDropped(b) \/ Unlock(b) \/ Kill(b)
      PROVE  Mine(c)
  <2>1. sync' = sync
    BY <1>7 DEF Start, LockCheckout, SweepDone, StageOverlay, ValidateProfiles,
                ProfilesStaged, StartMkosi, FinishMkosi, CollectUki, CollectDisk,
                Collect, Fail, ProfilesDropped, Unlock, Kill, staging
  <2>2. args'[c] = args[c] \/ pc'[c] \notin {"sync"} \cup SyncInputsInUse
    BY <1>7 DEF Start, LockCheckout, SweepDone, StageOverlay, ValidateProfiles,
                ProfilesStaged, StartMkosi, FinishMkosi, CollectUki, CollectDisk,
                Collect, Fail, ProfilesDropped, Unlock, Kill, private, TypeOK
  <2>3. \/ pc'[c] = pc[c] \/ pc'[c] \notin {"sync"} \cup SyncInputsInUse
        \/ pc[c] \in SyncInputsInUse /\ pc'[c] # "sync"
    BY <1>7 DEF Start, LockCheckout, SweepDone, StageOverlay, ValidateProfiles,
                ProfilesStaged, StartMkosi, FinishMkosi, CollectUki, CollectDisk,
                Fail, ProfilesDropped, Unlock, Kill, Dies, Goto, TypeOK
  <2> QED
    BY <1>2, <2>1, <2>2, <2>3
<1>8. ASSUME NEW b \in Builds, NEW p \in Profiles,
             \/ SweepOne(b, p) \/ StageMkdir(b, p) \/ StageMarker(b, p)
             \/ StageCopy(b, p) \/ DropProfile(b, p) \/ KillMidRemove(b, p)
      PROVE  Mine(c)
  <2>1. sync' = sync /\ args' = args
    BY <1>8 DEF SweepOne, StageMkdir, StageMarker, StageCopy, DropProfile,
                KillMidRemove, private
  <2>2. pc'[c] = pc[c] \/ pc'[c] = "killed"
    BY <1>8 DEF SweepOne, StageMkdir, StageMarker, StageCopy, DropProfile,
                KillMidRemove, Dies, TypeOK
  <2> QED
    BY <1>2, <2>1, <2>2
<1>9. ASSUME NEW b \in Builds,
             OrphanHook(b) \/ OrphanEnds(b) \/ Prep \/ UNCHANGED vars
      PROVE  Mine(c)
  <2>1. sync' = sync /\ args' = args /\ pc' = pc
    BY <1>9 DEF OrphanHook, OrphanEnds, Prep, vars, private, staging
  <2> QED
    BY <1>2, <2>1
<1> QED
  BY <1>4, <1>5, <1>6, <1>7, <1>8, <1>9 DEF Next, Step, Environment

\* A build's sync hooks read exactly this build's --sync-input files
\* (SyncInputsAreMine), whatever interrupted builds left behind.
THEOREM SyncInputsStayMine == Spec => []SyncInputsAreMine
<1>1. Init => SyncInv
  BY TypeInit
  DEF Init, SyncInv, LockInv, Locked, WritingInv, SyncInputsAreMine, SyncInputsInUse
<1>2. SyncInv => SyncInputsAreMine
  BY DEF SyncInv
<1> QED
  BY <1>1, <1>2, SyncStep, PTL DEF Spec

-----------------------------------------------------------------------------
(* Profile directories                                                     *)

\* The steps in which a build may hold guards, before they are dropped.
Staging == {"stage"} \cup ProfilesInUse

\* Only a build that stages, uses or drops profiles has guards, or one that
\* was killed while it had.
GuardsInv(b) == guards[b] # {} => pc[b] \in Staging \cup {"drop", "killed"}

\* A guard watches over a directory of its own build, which is not a shipped
\* one and has content only behind its marker.
OwnedInv(b) ==
    pc[b] \in Staging \cup {"drop"} => \A p \in guards[b] :
        /\ p \notin InTreeProfiles
        /\ profile[p].owner = b
        /\ profile[p].full => profile[p].marked

\* From the end of the sweep on, the marked directories are this build's.
SweptInv(b) ==
    pc[b] \in {"clear", "sync", "overlay", "validate"} \cup Staging =>
        \A p \in Profiles \ guards[b] : ~profile[p].marked

\* The names still to be staged are free, and in the end all are staged.
StageInv(b) ==
    /\ pc[b] \in Staging =>
          /\ guards[b] \subseteq args[b].dirs
          /\ \A p \in args[b].dirs \ guards[b] : profile[p].owner = Nobody
    /\ pc[b] \in ProfilesInUse =>
          guards[b] = args[b].dirs /\ \A p \in guards[b] : profile[p].full

BuildInv(b) == GuardsInv(b) /\ OwnedInv(b) /\ SweptInv(b) /\ StageInv(b)

\* Directory p has just been made under a guard of build b.
Begun(b, p) ==
    /\ pc[b] \in Staging \cup {"drop"} /\ p \in guards[b]
    /\ profile[p].owner = b /\ ~profile[p].full

\* A directory that never lost its marker is shipped, absent, marked, or just
\* made by a build that is still there to mark it.
ClassInv ==
    \A p \in Profiles \ (torn \cup InTreeProfiles) :
        \/ profile[p] = Absent
        \/ profile[p].marked
        \/ \E b \in Builds : Begun(b, p)

ProfileInv ==
    /\ TypeOK /\ LockInv /\ InTreeIntact /\ ClassInv
    /\ \A b \in Builds : BuildInv(b)

\* The steps that leave every profile directory and guard alone.
QuietStep(b) ==
    \/ Start(b) \/ LockCheckout(b) \/ SweepDone(b) \/ ClearSyncInputs(b)
    \/ SyncInputsWritten(b) \/ StageOverlay(b) \/ ValidateProfiles(b)
    \/ ProfilesStaged(b) \/ StartMkosi(b) \/ FinishMkosi(b) \/ CollectUki(b)
    \/ CollectDisk(b) \/ Fail(b) \/ ProfilesDropped(b) \/ WipeLocal(b)
    \/ Unlock(b) \/ OrphanHook(b) \/ OrphanEnds(b) \/ Prep \/ UNCHANGED vars
    \/ \E i \in Inputs : WriteSyncInput(b, i)

\* They change nothing the invariant is about but one build's progress.
LEMMA QuietFrame ==
    ASSUME TypeOK, NEW b \in Builds, QuietStep(b)
    PROVE  /\ profile' = profile /\ guards' = guards /\ torn' = torn
           /\ \A c \in Builds : c # b => pc'[c] = pc[c] /\ args'[c] = args[c]
           /\ args' = args \/ pc'[b] \in {"lock", "exited"}
<1> USE DEF TypeOK, Goto, private, staging, ghosts
<1>1. profile' = profile /\ guards' = guards /\ torn' = torn
  BY DEF QuietStep, Start, LockCheckout, SweepDone, ClearSyncInputs,
         SyncInputsWritten, StageOverlay, ValidateProfiles, ProfilesStaged,
         StartMkosi, FinishMkosi, CollectUki, CollectDisk, Collect, Fail,
         ProfilesDropped, WipeLocal, Unlock, OrphanHook, OrphanEnds, Prep, vars,
         WriteSyncInput
<1>2. \A c \in Builds : c # b => pc'[c] = pc[c] /\ args'[c] = args[c]
  BY DEF QuietStep, Start, LockCheckout, SweepDone, ClearSyncInputs,
         SyncInputsWritten, StageOverlay, ValidateProfiles, ProfilesStaged,
         StartMkosi, FinishMkosi, CollectUki, CollectDisk, Collect, Fail,
         ProfilesDropped, WipeLocal, Unlock, OrphanHook, OrphanEnds, Prep, vars,
         WriteSyncInput
<1>3. args' = args \/ pc'[b] \in {"lock", "exited"}
  BY DEF QuietStep, Start, LockCheckout, SweepDone, ClearSyncInputs,
         SyncInputsWritten, StageOverlay, ValidateProfiles, ProfilesStaged,
         StartMkosi, FinishMkosi, CollectUki, CollectDisk, Collect, Fail,
         ProfilesDropped, WipeLocal, Unlock, OrphanHook, OrphanEnds, Prep, vars,
         WriteSyncInput
<1> QED
  BY <1>1, <1>2, <1>3

\* Where such a step may take build b.
Progress(b) ==
    \/ pc'[b] = pc[b]
    \/ pc[b] \in {"idle", "lock", "unlock"} /\ pc'[b] \in {"lock", "exited", "sweep"}
    \/ /\ pc[b] = "sweep" /\ pc'[b] = "clear"
       /\ \A p \in Profiles : ~profile[p].marked
    \/ /\ pc[b] \in {"clear", "sync", "overlay"}
       /\ pc'[b] \in {"sync", "overlay", "validate"}
    \/ /\ pc[b] = "validate" /\ pc'[b] = "stage"
       /\ \A p \in args[b].dirs : profile[p].owner = Nobody
    \/ /\ pc[b] = "stage" /\ pc'[b] = "kernel"
       /\ guards[b] = args[b].dirs /\ \A p \in guards[b] : profile[p].full
    \/ pc[b] \in ProfilesInUse /\ pc'[b] \in ProfilesInUse
    \/ pc[b] \in {"overlay", "validate"} \cup Staging /\ pc'[b] = "drop"
    \/ pc[b] = "drop" /\ pc'[b] = "wipe" /\ guards[b] = {}
    \/ pc[b] = "wipe" /\ pc'[b] = "unlock"

\* It does.
LEMMA QuietProgress ==
    ASSUME TypeOK, NEW b \in Builds, QuietStep(b)
    PROVE  Progress(b)
<1> USE DEF TypeOK, Goto, Progress, Staging, ProfilesInUse
<1>1. CASE Start(b) \/ LockCheckout(b) \/ Unlock(b)
  BY <1>1 DEF Start, LockCheckout, Unlock
<1>2. CASE SweepDone(b)
  BY <1>2 DEF SweepDone
<1>3. CASE ClearSyncInputs(b) \/ SyncInputsWritten(b) \/ StageOverlay(b)
  BY <1>3 DEF ClearSyncInputs, SyncInputsWritten, StageOverlay
<1>4. CASE ValidateProfiles(b)
  BY <1>4 DEF ValidateProfiles, Exists
<1>5. CASE ProfilesStaged(b)
  BY <1>5 DEF ProfilesStaged
<1>6. CASE StartMkosi(b) \/ FinishMkosi(b) \/ CollectUki(b)
  BY <1>6 DEF StartMkosi, FinishMkosi, CollectUki
<1>7. CASE CollectDisk(b) \/ Fail(b)
  BY <1>7 DEF CollectDisk, Fail
<1>8. CASE ProfilesDropped(b) \/ WipeLocal(b)
  BY <1>8 DEF ProfilesDropped, WipeLocal
<1>9. CASE OrphanHook(b) \/ OrphanEnds(b) \/ Prep \/ UNCHANGED vars
           \/ \E i \in Inputs : WriteSyncInput(b, i)
  BY <1>9 DEF OrphanHook, OrphanEnds, Prep, vars, WriteSyncInput
<1> HIDE DEF Progress
<1> QED
  BY <1>1, <1>2, <1>3, <1>4, <1>5, <1>6, <1>7, <1>8, <1>9 DEF QuietStep

\* A build that a step leaves alone, and that is outside the lock.
LEMMA OutsideKeepsInv ==
    ASSUME NEW c \in Builds, BuildInv(c), pc[c] \notin Locked, pc'[c] = pc[c],
           guards'[c] = guards[c]
    PROVE  BuildInv(c)'
  BY DEF BuildInv, GuardsInv, OwnedInv, SweptInv, StageInv, Locked, Staging,
         ProfilesInUse

\* A quiet step keeps the invariant.
LEMMA QuietKeepsInv ==
    ASSUME ProfileInv, TypeOK', LockInv', NEW b \in Builds, QuietStep(b)
    PROVE  ProfileInv'
<1>1. /\ profile' = profile /\ guards' = guards /\ torn' = torn
      /\ \A c \in Builds : c # b => pc'[c] = pc[c] /\ args'[c] = args[c]
      /\ args' = args \/ pc'[b] \in {"lock", "exited"}
  BY QuietFrame DEF ProfileInv
<1>2. Progress(b)
  BY QuietProgress DEF ProfileInv
<1>3. InTreeIntact'
  BY <1>1 DEF ProfileInv, InTreeIntact
<1>4. ASSUME NEW c \in Builds PROVE BuildInv(c)'
  <2>1. CASE c # b
    BY <1>1, <2>1 DEF ProfileInv, BuildInv, GuardsInv, OwnedInv, SweptInv, StageInv
  <2>2. CASE c = b
    <3>1. BuildInv(b)
      BY DEF ProfileInv
    <3> USE DEF Progress, BuildInv, GuardsInv, Staging, ProfilesInUse
    <3>2. GuardsInv(b)'
      BY <1>1, <1>2, <3>1
    <3>3. OwnedInv(b)'
      BY <1>1, <1>2, <3>1 DEF OwnedInv
    <3>4. SweptInv(b)'
      BY <1>1, <1>2, <3>1 DEF SweptInv
    <3>5. StageInv(b)'
      BY <1>1, <1>2, <3>1 DEF StageInv
    <3> QED
      BY <2>2, <3>2, <3>3, <3>4, <3>5
  <2> QED
    BY <2>1, <2>2
<1>5. ClassInv'
  <2>1. ASSUME NEW p \in Profiles, NEW c \in Builds, Begun(c, p)
        PROVE  Begun(c, p)'
    BY <1>1, <1>2, <2>1 DEF Begun, Progress, Staging, ProfilesInUse
  <2> QED
    BY <1>1, <2>1 DEF ProfileInv, ClassInv
<1> QED
  BY <1>3, <1>4, <1>5 DEF ProfileInv

\* A guarded directory is never a shipped one, and neither is a marked one.
LEMMA NotShipped ==
    ASSUME ProfileInv, NEW b \in Builds, NEW p \in Profiles,
           \/ profile[p].marked
           \/ pc[b] \in Staging \cup {"drop"} /\ p \in guards[b]
           \/ profile[p].owner = Nobody
    PROVE  p \notin InTreeProfiles
  BY CheckoutAssumption
  DEF ProfileInv, BuildInv, OwnedInv, InTreeIntact, Shipped

\* A step under the lock that changes at most directory p, and this build's
\* progress and guards, has to be looked at for this build and p alone.
LEMMA LoudKeepsInv ==
    ASSUME ProfileInv, TypeOK', LockInv', NEW b \in Builds, NEW p \in Profiles,
           pc[b] \in Locked,
           \A c \in Builds \ {b} : pc'[c] = pc[c] /\ guards'[c] = guards[c],
           \A q \in Profiles \ {p} : profile'[q] = profile[q],
           p \notin InTreeProfiles,
           torn \subseteq torn',
           BuildInv(b)',
           p \in torn' \/ profile'[p] = Absent \/ profile'[p].marked \/ Begun(b, p)',
           \A q \in Profiles \ {p} :
               Begun(b, q) => q \in torn' \/ profile[q].marked \/ Begun(b, q)'
    PROVE  ProfileInv'
<1>1. \A c \in Builds \ {b} : pc[c] \notin Locked
  BY OthersOutside DEF ProfileInv
<1>2. InTreeIntact'
  BY CheckoutAssumption DEF ProfileInv, InTreeIntact
<1>3. \A c \in Builds : BuildInv(c)'
  BY <1>1, OutsideKeepsInv DEF ProfileInv
<1>4. ASSUME NEW q \in Profiles \ (torn' \cup InTreeProfiles)
      PROVE  \/ profile'[q] = Absent \/ profile'[q].marked
             \/ \E c \in Builds : Begun(c, q)'
  <2>1. CASE q = p
    BY <2>1
  <2>2. CASE q # p
    <3>1. \/ profile[q] = Absent \/ profile[q].marked \/ \E c \in Builds : Begun(c, q)
      BY <1>4 DEF ProfileInv, ClassInv
    <3>2. ASSUME NEW c \in Builds, Begun(c, q) PROVE c = b
      BY <1>1, <3>2 DEF Begun, Locked, Staging, ProfilesInUse
    <3> QED
      BY <2>2, <3>1, <3>2
  <2> QED
    BY <2>1, <2>2
<1>5. ClassInv'
  BY <1>4 DEF ClassInv
<1> QED
  BY <1>2, <1>3, <1>5 DEF ProfileInv

\* The sweep and the staging of profiles keep the invariant.
LEMMA StagingKeepsInv ==
    ASSUME ProfileInv, TypeOK', LockInv', NEW b \in Builds, NEW p \in Profiles,
           \/ SweepOne(b, p) \/ StageMkdir(b, p) \/ StageMarker(b, p)
           \/ StageCopy(b, p)
    PROVE  ProfileInv'
<1> USE DEF BuildInv, GuardsInv, Staging, ProfilesInUse
<1>1. TypeOK /\ BuildInv(b)
  BY DEF ProfileInv
<1>2. CASE SweepOne(b, p)
  <2>1. /\ pc[b] = "sweep" /\ pc' = pc /\ guards' = guards /\ torn' = torn
        /\ profile'[p] = Absent /\ profile[p].marked
        /\ \A q \in Profiles \ {p} : profile'[q] = profile[q]
    BY <1>1, <1>2 DEF SweepOne, TypeOK, private, ghosts
  <2>2. BuildInv(b)'
    BY <1>1, <2>1 DEF OwnedInv, SweptInv, StageInv
  <2>3. \A q \in Profiles : ~Begun(b, q)
    BY <2>1 DEF Begun
  <2> QED
    BY <2>1, <2>2, <2>3, NotShipped, LoudKeepsInv DEF Locked
<1>3. CASE StageMkdir(b, p)
  <2>1. /\ pc[b] = "stage" /\ pc' = pc /\ args' = args /\ torn' = torn
        /\ p \in args[b].dirs \ guards[b]
        /\ guards'[b] = guards[b] \cup {p}
        /\ \A c \in Builds \ {b} : guards'[c] = guards[c]
        /\ profile'[p] = [owner |-> b, marked |-> FALSE, full |-> FALSE]
        /\ \A q \in Profiles \ {p} : profile'[q] = profile[q]
    BY <1>1, <1>3 DEF StageMkdir, TypeOK, ghosts
  <2>2. profile[p].owner = Nobody /\ p \notin InTreeProfiles
    BY <1>1, <2>1, NotShipped DEF StageInv
  <2>3. guards[b] \subseteq Profiles
    BY <1>1 DEF TypeOK
  <2>4. OwnedInv(b)'
    BY <1>1, <2>1, <2>2, <2>3 DEF OwnedInv
  <2>5. SweptInv(b)' /\ StageInv(b)'
    <3>1. SweptInv(b)'
      BY <1>1, <2>1 DEF SweptInv
    <3>2. args[b].dirs \subseteq Profiles
      BY <1>1 DEF TypeOK, Args
    <3>3. StageInv(b)'
      BY <1>1, <2>1, <3>2 DEF StageInv
    <3> QED
      BY <3>1, <3>3
  <2>6. GuardsInv(b)'
    BY <2>1
  <2>7. Begun(b, p)' /\ \A q \in Profiles \ {p} : Begun(b, q) => Begun(b, q)'
    BY <2>1 DEF Begun
  <2> QED
    BY <2>1, <2>2, <2>4, <2>5, <2>6, <2>7, LoudKeepsInv DEF Locked
<1>4. CASE StageMarker(b, p) \/ StageCopy(b, p)
  <2>1. /\ pc[b] = "stage" /\ pc' = pc /\ args' = args /\ torn' = torn
        /\ guards' = guards /\ p \in guards[b]
        /\ profile'[p].owner = profile[p].owner /\ profile'[p].marked
        /\ \A q \in Profiles \ {p} : profile'[q] = profile[q]
    <3>1. profile[p] \in ProfileDir
      BY <1>1 DEF TypeOK
    <3> QED
      BY <1>1, <1>4, <3>1 DEF StageMarker, StageCopy, TypeOK, ProfileDir, private,
                              ghosts
  <2>2. p \notin InTreeProfiles
    BY <2>1, NotShipped
  <2>3. guards[b] \subseteq Profiles /\ args[b].dirs \subseteq Profiles
    BY <1>1 DEF TypeOK, Args
  <2>4. OwnedInv(b)'
    BY <1>1, <2>1, <2>2, <2>3 DEF OwnedInv
  <2>5. SweptInv(b)' /\ StageInv(b)' /\ GuardsInv(b)'
    BY <1>1, <2>1, <2>3 DEF SweptInv, StageInv
  <2>6. \A q \in Profiles \ {p} : Begun(b, q) => Begun(b, q)'
    BY <2>1 DEF Begun
  <2> QED
    BY <2>1, <2>2, <2>4, <2>5, <2>6, LoudKeepsInv DEF Locked
<1> QED
  BY <1>2, <1>3, <1>4

\* A removal that stops half way leaves a directory without its marker only
\* if it counts as torn.
LEMMA RemnantIsTorn ==
    ASSUME TypeOK, NEW p \in Profiles, NEW r \in Remnants(profile[p]),
           Lost(p, r) \subseteq torn'
    PROVE  p \in torn' \/ r.marked
  BY DEF Lost

\* Removals, complete or not, keep the invariant.
LEMMA RemovalKeepsInv ==
    ASSUME ProfileInv, TypeOK', LockInv', NEW b \in Builds, NEW p \in Profiles,
           DropProfile(b, p) \/ KillMidRemove(b, p)
    PROVE  ProfileInv'
<1> USE DEF BuildInv, GuardsInv, Staging, ProfilesInUse
<1>1. TypeOK /\ BuildInv(b)
  BY DEF ProfileInv
<1>2. guards[b] \subseteq Profiles
  BY <1>1 DEF TypeOK
<1>3. CASE DropProfile(b, p)
  <2>1. /\ pc[b] = "drop" /\ pc' = pc /\ p \in guards[b]
        /\ guards'[b] = guards[b] \ {p}
        /\ \A c \in Builds \ {b} : guards'[c] = guards[c]
        /\ \A q \in Profiles \ {p} : profile'[q] = profile[q]
        /\ torn \subseteq torn'
    BY <1>1, <1>3 DEF DropProfile, TypeOK, ghosts
  <2>2. p \in torn' \/ profile'[p] = Absent \/ profile'[p].marked
    <3>1. CASE profile' = [profile EXCEPT ![p] = Absent]
      BY <1>1, <3>1 DEF TypeOK
    <3>2. CASE \E r \in Remnants(profile[p]) :
                 profile' = [profile EXCEPT ![p] = r] /\ torn' = torn \cup Lost(p, r)
      BY <1>1, <3>2, RemnantIsTorn DEF TypeOK
    <3> QED
      BY <1>3, <3>1, <3>2 DEF DropProfile
  <2>3. p \notin InTreeProfiles
    BY <2>1, NotShipped
  <2>4. BuildInv(b)'
    BY <1>1, <1>2, <2>1 DEF OwnedInv, SweptInv, StageInv
  <2>5. \A q \in Profiles \ {p} : Begun(b, q) => Begun(b, q)'
    BY <2>1 DEF Begun
  <2> QED
    BY <2>1, <2>2, <2>3, <2>4, <2>5, LoudKeepsInv DEF Locked
<1>4. CASE KillMidRemove(b, p)
  <2>1. PICK r \in Remnants(profile[p]) :
          Dies(b, Lost(p, r)) /\ profile' = [profile EXCEPT ![p] = r]
    BY <1>4 DEF KillMidRemove
  <2>2. /\ pc[b] \in {"sweep", "drop"} /\ pc'[b] = "killed" /\ guards' = guards
        /\ \A c \in Builds \ {b} : pc'[c] = pc[c]
        /\ \A q \in Profiles \ {p} : profile'[q] = profile[q]
        /\ profile'[p] = r
    BY <1>1, <1>4, <2>1 DEF KillMidRemove, Dies, TypeOK, private
  <2>3. /\ torn \subseteq torn' /\ Lost(p, r) \subseteq torn'
        /\ \A q \in guards[b] : profile[q].marked \/ profile[q].full \/ q \in torn'
    BY <2>1 DEF Dies
  <2>4. p \in torn' \/ profile'[p].marked
    BY <1>1, <2>2, <2>3, RemnantIsTorn
  <2>5. p \notin InTreeProfiles
    BY <1>4, NotShipped DEF KillMidRemove
  <2>6. BuildInv(b)'
    BY <2>2 DEF OwnedInv, SweptInv, StageInv
  <2>7. \A q \in Profiles \ {p} : Begun(b, q) => q \in torn' \/ profile[q].marked
    BY <2>3 DEF Begun
  <2> QED
    BY <2>2, <2>3, <2>4, <2>5, <2>6, <2>7, LoudKeepsInv DEF Locked
<1> QED
  BY <1>3, <1>4

\* So does an error before the mkosi.local guard exists.
LEMMA FailEarlyKeepsInv ==
    ASSUME ProfileInv, TypeOK', LockInv', NEW b \in Builds, FailEarly(b)
    PROVE  ProfileInv'
<1> USE DEF BuildInv, GuardsInv, Staging, ProfilesInUse
<1>1. TypeOK /\ BuildInv(b)
  BY DEF ProfileInv
<1>2. /\ pc[b] \in {"sweep", "clear", "sync"} /\ pc'[b] = "unlock"
      /\ guards' = guards /\ args' = args
      /\ \A c \in Builds \ {b} : pc'[c] = pc[c]
  BY <1>1 DEF FailEarly, TypeOK
<1>3. BuildInv(b)'
  BY <1>1, <1>2 DEF OwnedInv, SweptInv, StageInv
<1>4. \A q \in Profiles : ~Begun(b, q)
  BY <1>2 DEF Begun
<1>5. CASE profile' = profile /\ torn' = torn
  <2>1. ASSUME NEW c \in Builds PROVE BuildInv(c)'
    BY <1>2, <1>3, <1>5 DEF ProfileInv, OwnedInv, SweptInv, StageInv
  <2>2. ClassInv'
    <3>1. ASSUME NEW q \in Profiles, NEW c \in Builds, Begun(c, q)
          PROVE  Begun(c, q)'
      BY <1>2, <1>4, <1>5, <3>1 DEF Begun
    <3> QED
      BY <1>5, <3>1 DEF ProfileInv, ClassInv
  <2>3. InTreeIntact'
    BY <1>5 DEF ProfileInv, InTreeIntact
  <2> QED
    BY <2>1, <2>2, <2>3 DEF ProfileInv
<1>6. CASE \E p \in Profiles : \E r \in Remnants(profile[p]) :
             /\ profile[p].marked
             /\ profile' = [profile EXCEPT ![p] = r]
             /\ torn' = torn \cup Lost(p, r)
  <2>0. PICK p \in Profiles : \E r \in Remnants(profile[p]) :
             /\ profile[p].marked
             /\ profile' = [profile EXCEPT ![p] = r]
             /\ torn' = torn \cup Lost(p, r)
    BY <1>6
  <2>1. PICK r \in Remnants(profile[p]) :
             /\ profile[p].marked
             /\ profile' = [profile EXCEPT ![p] = r]
             /\ torn' = torn \cup Lost(p, r)
    BY <2>0
  <2>2. /\ profile'[p] = r
        /\ \A q \in Profiles \ {p} : profile'[q] = profile[q]
    BY <1>1, <2>1 DEF TypeOK
  <2>3. p \in torn' \/ profile'[p].marked
    BY <1>1, <2>1, <2>2, RemnantIsTorn
  <2> HIDE DEF BuildInv
  <2> QED
    BY <1>2, <1>3, <1>4, <2>1, <2>2, <2>3, NotShipped, LoudKeepsInv DEF Locked
<1> QED
  BY <1>5, <1>6 DEF FailEarly

\* So does a kill outside the removal of a profile directory.
LEMMA KillKeepsInv ==
    ASSUME ProfileInv, TypeOK', LockInv', NEW b \in Builds, Kill(b) \/ KillMidWipe(b)
    PROVE  ProfileInv'
<1>1. TypeOK
  BY DEF ProfileInv
<1>2. /\ Dies(b, {}) /\ guards' = guards /\ args' = args /\ profile' = profile
  BY DEF Kill, KillMidWipe, private, staging
<1>3. pc'[b] = "killed" /\ \A c \in Builds \ {b} : pc'[c] = pc[c]
  BY <1>1, <1>2 DEF Dies, TypeOK
<1>4. /\ torn \subseteq torn'
      /\ \A q \in guards[b] : profile[q].marked \/ profile[q].full \/ q \in torn'
  BY <1>2 DEF Dies
<1>5. InTreeIntact'
  BY <1>2 DEF ProfileInv, InTreeIntact
<1>6. ASSUME NEW c \in Builds PROVE BuildInv(c)'
  BY <1>2, <1>3 DEF ProfileInv, BuildInv, GuardsInv, OwnedInv, SweptInv, StageInv,
                    Staging, ProfilesInUse
<1>7. ClassInv'
  <2>1. ASSUME NEW q \in Profiles, NEW c \in Builds, Begun(c, q)
        PROVE  q \in torn' \/ profile[q].marked \/ Begun(c, q)'
    BY <1>2, <1>3, <1>4, <2>1 DEF Begun
  <2> QED
    BY <1>2, <1>4, <2>1 DEF ProfileInv, ClassInv
<1> QED
  BY <1>5, <1>6, <1>7 DEF ProfileInv

\* Every step keeps the invariant.
LEMMA ProfileStep == ProfileInv /\ [Next]_vars => ProfileInv'
<1> SUFFICES ASSUME ProfileInv, [Next]_vars PROVE ProfileInv'
  OBVIOUS
<1>1. TypeOK' /\ LockInv'
  BY TypeStep, LockStep DEF ProfileInv
<1>2. ASSUME NEW b \in Builds, Step(b) \/ Environment(b) PROVE ProfileInv'
  BY <1>1, <1>2, QuietKeepsInv, StagingKeepsInv, RemovalKeepsInv,
     FailEarlyKeepsInv, KillKeepsInv
  DEF Step, Environment, QuietStep
<1>3. ASSUME Prep \/ UNCHANGED vars PROVE ProfileInv'
  <2>1. CASE Builds = {}
    BY <1>1, <1>3, <2>1
    DEF ProfileInv, InTreeIntact, ClassInv, Prep, vars, ghosts
  <2>2. CASE \E b \in Builds : TRUE
    BY <1>1, <1>3, <2>2, QuietKeepsInv DEF QuietStep
  <2> QED
    BY <2>1, <2>2
<1> QED
  BY <1>2, <1>3 DEF Next

\* Initially the shipped profiles are the only ones.
LEMMA ProfileInit == Init => ProfileInv
<1> SUFFICES ASSUME Init PROVE ProfileInv
  OBVIOUS
<1>1. InTreeIntact /\ ClassInv
  BY CheckoutAssumption DEF Init, InTreeIntact, ClassInv
<1>2. LockInv
  BY DEF Init, LockInv, Locked
<1>3. ASSUME NEW b \in Builds PROVE BuildInv(b)
  BY DEF Init, BuildInv, GuardsInv, OwnedInv, SweptInv, StageInv, Staging,
         ProfilesInUse
<1> QED
  BY <1>1, <1>2, <1>3, TypeInit DEF ProfileInv

\* No run of builds removes or marks a shipped profile (InTreeIntact).
THEOREM ShippedProfilesStay == Spec => []InTreeIntact
<1>1. ProfileInv => InTreeIntact
  BY DEF ProfileInv
<1> QED
  BY <1>1, ProfileInit, ProfileStep, PTL DEF Spec

\* While mkosi reads mkosi.profiles for a build, it finds the shipped profiles,
\* complete copies of this build's, and nothing else but directories that
\* lost their marker (ProfilesAreMine).
THEOREM ProfilesStayMine == Spec => []ProfilesAreMine
<1>1. ProfileInv => ProfilesAreMine
  <2> SUFFICES ASSUME ProfileInv, NEW b \in Builds, pc[b] \in ProfilesInUse,
                      NEW p \in Profiles \ torn
               PROVE  profile[p] = Expected(b, p)
    BY DEF ProfilesAreMine
  <2>1. BuildInv(b) /\ profile[p] \in ProfileDir
    BY DEF ProfileInv, TypeOK
  <2>2. CASE p \in args[b].dirs
    <3>1. profile[p].owner = b /\ profile[p].marked /\ profile[p].full
      BY <2>1, <2>2 DEF BuildInv, OwnedInv, StageInv, Staging
    <3> QED
      BY <2>1, <2>2, <3>1 DEF Expected, ProfileDir
  <2>3. CASE p \notin args[b].dirs
    <3>1. p \notin guards[b] /\ ~profile[p].marked
      BY <2>1, <2>3 DEF BuildInv, SweptInv, StageInv, Staging
    <3>2. CASE p \in InTreeProfiles
      BY <2>3, <3>2 DEF Expected, ProfileInv, InTreeIntact
    <3>3. CASE p \notin InTreeProfiles
      <4>1. ASSUME NEW c \in Builds, Begun(c, p) PROVE FALSE
        <5>1. c # b /\ pc[c] \in Locked /\ pc[b] \in Locked
          BY <3>1, <4>1 DEF Begun, Locked, Staging, ProfilesInUse
        <5> QED
          BY <5>1, OthersOutside DEF ProfileInv
      <4>2. profile[p] = Absent
        BY <3>1, <3>3, <4>1 DEF ProfileInv, ClassInv
      <4> QED
        BY <2>3, <3>3, <4>2 DEF Expected
    <3> QED
      BY <3>2, <3>3
  <2> QED
    BY <2>2, <2>3
<1> QED
  BY <1>1, ProfileInit, ProfileStep, PTL DEF Spec

-----------------------------------------------------------------------------
(* Collisions                                                              *)

\* A build that has not started has no result.
FreshInv == \A b \in Builds : pc[b] = "idle" => result[b] = "none"

CollisionInv == ProfileInv /\ FreshInv /\ CollisionIsReal

\* The steps other than the check itself report no collision, forget no torn
\* directory and change the arguments of no build that has a result.
LEMMA ReportFrame ==
    ASSUME TypeOK, FreshInv, [Next]_vars, NEW b \in Builds,
           ~ValidateProfiles(b)
    PROVE  /\ torn \subseteq torn'
           /\ pc'[b] = "idle" => result'[b] = "none"
           /\ result'[b] = "collision" => result[b] = "collision"
           /\ result[b] = "none" \/ args'[b] = args[b]
<1> DEFINE Goal == /\ torn \subseteq torn'
                   /\ pc'[b] = "idle" => result'[b] = "none"
                   /\ result'[b] = "collision" => result[b] = "collision"
                   /\ result[b] = "none" \/ args'[b] = args[b]
<1> USE DEF TypeOK, FreshInv, Goto, private, ghosts
<1>1. ASSUME NEW c \in Builds, Start(c) \/ LockCheckout(c) PROVE Goal
  BY <1>1 DEF Start, LockCheckout
<1>2. ASSUME NEW c \in Builds, ValidateProfiles(c) PROVE Goal
  BY <1>2 DEF ValidateProfiles
<1>3. ASSUME NEW c \in Builds,
             \/ SweepDone(c) \/ ClearSyncInputs(c) \/ SyncInputsWritten(c)
             \/ StageOverlay(c) \/ ProfilesStaged(c) \/ StartMkosi(c)
             \/ FinishMkosi(c) \/ ProfilesDropped(c) \/ WipeLocal(c) \/ Unlock(c)
      PROVE  Goal
  BY <1>3 DEF SweepDone, ClearSyncInputs, SyncInputsWritten, StageOverlay,
              ProfilesStaged, StartMkosi, FinishMkosi, ProfilesDropped, WipeLocal,
              Unlock
<1>4. ASSUME NEW c \in Builds, CollectUki(c) \/ CollectDisk(c) PROVE Goal
  BY <1>4 DEF CollectUki, CollectDisk, Collect
<1>5. ASSUME NEW c \in Builds, FailEarly(c) \/ Fail(c) PROVE Goal
  BY <1>5 DEF FailEarly, Fail
<1>6. ASSUME NEW c \in Builds,
             Kill(c) \/ KillMidWipe(c) \/ \E p \in Profiles : KillMidRemove(c, p)
      PROVE  Goal
  BY <1>6 DEF Kill, KillMidWipe, KillMidRemove, Dies
<1>7. ASSUME NEW c \in Builds, NEW p \in Profiles,
             \/ SweepOne(c, p) \/ StageMkdir(c, p) \/ StageMarker(c, p)
             \/ StageCopy(c, p) \/ DropProfile(c, p)
      PROVE  Goal
  BY <1>7 DEF SweepOne, StageMkdir, StageMarker, StageCopy, DropProfile
<1>8. ASSUME NEW c \in Builds,
             \/ OrphanHook(c) \/ OrphanEnds(c)
             \/ \E i \in Inputs : WriteSyncInput(c, i)
      PROVE  Goal
  BY <1>8 DEF OrphanHook, OrphanEnds, WriteSyncInput
<1>9. ASSUME Prep \/ UNCHANGED vars PROVE Goal
  BY <1>9 DEF Prep, vars
<1> HIDE DEF Goal
<1>10. Goal
  BY <1>1, <1>2, <1>3, <1>4, <1>5, <1>6, <1>7, <1>8, <1>9
  DEF Next, Step, Environment
<1> QED
  BY <1>10 DEF Goal

\* A name that is taken after the sweep is shipped or torn.
LEMMA TakenIsReal ==
    ASSUME ProfileInv, NEW b \in Builds, pc[b] = "validate",
           NEW p \in Profiles, Exists(p)
    PROVE  p \in InTreeProfiles \cup torn
<1> SUFFICES ASSUME p \notin InTreeProfiles \cup torn PROVE FALSE
  OBVIOUS
<1>1. guards[b] = {} /\ ~profile[p].marked
  BY DEF ProfileInv, BuildInv, GuardsInv, SweptInv, Staging, ProfilesInUse
<1>2. ASSUME NEW c \in Builds, Begun(c, p) PROVE FALSE
  <2>1. c # b /\ pc[c] \in Locked /\ pc[b] \in Locked
    BY <1>1, <1>2 DEF Begun, Locked, Staging, ProfilesInUse
  <2> QED
    BY <2>1, OthersOutside DEF ProfileInv
<1>3. profile[p] = Absent
  BY <1>1, <1>2 DEF ProfileInv, ClassInv
<1> QED
  BY <1>3 DEF Exists, Absent

\* A --profile-dir is refused only for a name that is shipped or torn
\* (CollisionIsReal): what a killed build staged is always swept.
THEOREM CollisionsAreReal == Spec => []CollisionIsReal
<1>1. Init => CollisionInv
  BY ProfileInit DEF Init, CollisionInv, FreshInv, CollisionIsReal
<1>2. CollisionInv /\ [Next]_vars => CollisionInv'
  <2> SUFFICES ASSUME CollisionInv, [Next]_vars PROVE CollisionInv'
    OBVIOUS
  <2>1. ProfileInv /\ ProfileInv' /\ TypeOK
    BY ProfileStep DEF CollisionInv, ProfileInv
  <2>2. ASSUME NEW b \in Builds
        PROVE  /\ pc'[b] = "idle" => result'[b] = "none"
               /\ result'[b] = "collision" =>
                    args'[b].dirs \cap (InTreeProfiles \cup torn') # {}
    <3>1. CASE ValidateProfiles(b)
      <4>1. /\ pc[b] = "validate" /\ pc'[b] \in {"stage", "drop"}
            /\ args' = args /\ torn' = torn
            /\ \/ result' = result \/ \E p \in args[b].dirs : Exists(p)
        BY <2>1, <3>1 DEF ValidateProfiles, Goto, TypeOK, ghosts
      <4>2. args[b].dirs \subseteq Profiles
        BY <2>1 DEF TypeOK, Args
      <4>3. ASSUME NEW p \in args[b].dirs, Exists(p)
            PROVE  p \in args[b].dirs \cap (InTreeProfiles \cup torn)
        BY <2>1, <4>1, <4>2, <4>3, TakenIsReal
      <4> QED
        BY <4>1, <4>3 DEF CollisionInv, CollisionIsReal
    <3>2. CASE ~ValidateProfiles(b)
      <4>1. /\ torn \subseteq torn'
            /\ pc'[b] = "idle" => result'[b] = "none"
            /\ result'[b] = "collision" => result[b] = "collision"
            /\ result[b] = "none" \/ args'[b] = args[b]
        BY <2>1, <3>2, ReportFrame DEF CollisionInv
      <4> QED
        BY <4>1 DEF CollisionInv, CollisionIsReal
    <3> QED
      BY <3>1, <3>2
  <2> QED
    BY <2>1, <2>2 DEF CollisionInv, FreshInv, CollisionIsReal
<1>3. CollisionInv => CollisionIsReal
  BY DEF CollisionInv
<1> QED
  BY <1>1, <1>2, <1>3, PTL DEF Spec

-----------------------------------------------------------------------------
(* The operator's prep                                                     *)

\* Nothing but the wipe at the end of a build removes the operator's prep from
\* mkosi.local (PrepSurvivesEntry).
THEOREM PrepSurvives == Spec => PrepSurvivesEntry
<1>1. [Next]_vars =>
        [(Operator \in local \ local') => \E b \in Builds : pc[b] = "wipe"]_vars
  <2> SUFFICES ASSUME Next, Operator \in local \ local'
               PROVE  \E b \in Builds : pc[b] = "wipe"
    OBVIOUS
  <2>1. ASSUME NEW b \in Builds, WipeLocal(b) \/ KillMidWipe(b)
        PROVE  \E c \in Builds : pc[c] = "wipe"
    BY <2>1 DEF WipeLocal, KillMidWipe, Goto
  <2>2. ASSUME NEW b \in Builds,
               \/ Start(b) \/ LockCheckout(b) \/ SweepDone(b) \/ ClearSyncInputs(b)
               \/ SyncInputsWritten(b) \/ StageOverlay(b) \/ ValidateProfiles(b)
               \/ ProfilesStaged(b) \/ StartMkosi(b) \/ FinishMkosi(b)
               \/ CollectUki(b) \/ CollectDisk(b) \/ ProfilesDropped(b)
               \/ Unlock(b) \/ FailEarly(b) \/ Fail(b) \/ Kill(b)
               \/ OrphanHook(b) \/ OrphanEnds(b)
               \/ \E i \in Inputs : WriteSyncInput(b, i)
        PROVE  local \subseteq local'
    BY <2>2 DEF Start, LockCheckout, SweepDone, ClearSyncInputs, SyncInputsWritten,
                StageOverlay, ValidateProfiles, ProfilesStaged, StartMkosi,
                FinishMkosi, CollectUki, CollectDisk, Collect, ProfilesDropped,
                Unlock, FailEarly, Fail, Kill, OrphanHook, OrphanEnds,
                WriteSyncInput, staging
  <2>3. ASSUME NEW b \in Builds, NEW p \in Profiles,
               \/ SweepOne(b, p) \/ StageMkdir(b, p) \/ StageMarker(b, p)
               \/ StageCopy(b, p) \/ DropProfile(b, p) \/ KillMidRemove(b, p)
        PROVE  local \subseteq local'
    BY <2>3 DEF SweepOne, StageMkdir, StageMarker, StageCopy, DropProfile,
                KillMidRemove
  <2>4. CASE Prep
    BY <2>4 DEF Prep
  <2> QED
    BY <2>1, <2>2, <2>3, <2>4 DEF Next, Step, Environment
<1> QED
  BY <1>1, PTL DEF Spec, PrepSurvivesEntry

-----------------------------------------------------------------------------
(* Artifacts                                                               *)

\* What a build that collects finds in mkosi.output, and what it has then.
CollectInv(b) ==
    /\ pc[b] = "collectUki" => image = [a \in Artifacts |-> b]
    /\ pc[b] = "collectDisk" => image["disk"] = b /\ out[b]["uki"] = b
    /\ result[b] = "ok" =>
          /\ pc[b] \in {"drop", "wipe", "unlock", "exited", "killed"}
          /\ out[b] = [a \in Artifacts |-> b]

ImageInv ==
    /\ TypeOK /\ LockInv
    /\ orphans = {}
    /\ \A b \in Builds : CollectInv(b)

\* Every step keeps the image that of the build that collects it.
LEMMA ImageStep ==
    ASSUME KillScopes \subseteq {"group"}
    PROVE  ImageInv /\ [Next]_vars => ImageInv'
<1> SUFFICES ASSUME ImageInv, [Next]_vars PROVE ImageInv'
  OBVIOUS
<1>1. TypeOK /\ LockInv /\ TypeOK' /\ LockInv'
  BY TypeStep, LockStep DEF ImageInv
<1>2. \A b \in Builds : CollectInv(b) /\ b \notin orphans
  BY DEF ImageInv
<1> SUFFICES ASSUME NEW c \in Builds PROVE orphans' = {} /\ CollectInv(c)'
  <2>1. ASSUME Builds = {} PROVE orphans' = {}
    BY <1>1, <2>1 DEF TypeOK
  <2> QED
    BY <1>1, <2>1 DEF ImageInv
<1> DEFINE Goal == orphans' = {} /\ CollectInv(c)'
<1>3. orphans = {} /\ CollectInv(c)
  BY DEF ImageInv
\* A step that moves no artifact and ends in no collecting state.
<1>4. ASSUME orphans' = orphans, out' = out,
             image' = image \/ pc'[c] \notin {"collectUki", "collectDisk"},
             pc'[c] = pc[c] \/ pc'[c] \notin {"collectUki", "collectDisk"},
             result'[c] = "ok" => result[c] = "ok",
             pc[c] \in {"drop", "wipe", "unlock", "exited", "killed"} =>
               pc'[c] \in {"drop", "wipe", "unlock", "exited", "killed"}
      PROVE  Goal
  BY <1>3, <1>4 DEF CollectInv
<1> HIDE DEF Goal
<1> USE DEF TypeOK, Goto, private, mkosiState
<1>5. ASSUME NEW b \in Builds,
             \/ Start(b) \/ LockCheckout(b) \/ SweepDone(b) \/ ClearSyncInputs(b)
             \/ SyncInputsWritten(b) \/ StageOverlay(b) \/ ValidateProfiles(b)
             \/ ProfilesStaged(b) \/ StartMkosi(b) \/ ProfilesDropped(b)
             \/ WipeLocal(b) \/ Unlock(b) \/ FailEarly(b)
      PROVE  Goal
  BY <1>1, <1>4, <1>5
  DEF Start, LockCheckout, SweepDone, ClearSyncInputs, SyncInputsWritten,
      StageOverlay, ValidateProfiles, ProfilesStaged, StartMkosi, ProfilesDropped,
      WipeLocal, Unlock, FailEarly
<1>6. ASSUME NEW b \in Builds, NEW p \in Profiles,
             \/ SweepOne(b, p) \/ StageMkdir(b, p) \/ StageMarker(b, p)
             \/ StageCopy(b, p) \/ DropProfile(b, p) \/ KillMidRemove(b, p)
      PROVE  Goal
  BY <1>1, <1>4, <1>6 DEF SweepOne, StageMkdir, StageMarker, StageCopy, DropProfile,
                          KillMidRemove, Dies
<1>7. ASSUME NEW b \in Builds,
             Kill(b) \/ KillMidWipe(b) \/ OrphanHook(b) \/ OrphanEnds(b)
             \/ \E i \in Inputs : WriteSyncInput(b, i)
      PROVE  Goal
  <2>1. orphans' = orphans /\ image' = image /\ out' = out /\ result' = result
    BY <1>2, <1>7 DEF Kill, KillMidWipe, OrphanHook, OrphanEnds, WriteSyncInput
  <2>2. pc'[c] = pc[c] \/ pc'[c] = "killed"
    BY <1>1, <1>2, <1>7 DEF Kill, KillMidWipe, Dies, OrphanHook, OrphanEnds,
                            WriteSyncInput
  <2> QED
    BY <1>4, <2>1, <2>2
<1>8. ASSUME NEW b \in Builds, b # c, pc[b] \in Locked, pc'[c] = pc[c],
             orphans' = orphans, out'[c] = out[c], result'[c] = result[c]
      PROVE  Goal
  <2>1. pc[c] \notin Locked
    BY <1>1, <1>8, OthersOutside
  <2> QED
    BY <1>3, <1>8, <2>1 DEF Goal, CollectInv, Locked
<1>9. ASSUME NEW b \in Builds,
             FinishMkosi(b) \/ Fail(b) \/ CollectUki(b) \/ CollectDisk(b)
      PROVE  Goal
  <2>1. CASE b # c
    BY <1>1, <1>8, <1>9, <2>1 DEF FinishMkosi, Fail, CollectUki, CollectDisk, Collect,
                                  Locked
  <2>2. CASE b = c /\ FinishMkosi(b)
    BY <1>1, <1>3, <2>2 DEF Goal, CollectInv, FinishMkosi
  <2>3. CASE b = c /\ Fail(b)
    BY <1>1, <1>3, <2>3 DEF Goal, CollectInv, Fail
  <2>4. CASE b = c /\ CollectUki(b)
    <3>1. /\ pc'[c] = "collectDisk" /\ result'[c] # "ok" /\ orphans' = {}
          /\ out'[c]["uki"] = c /\ image'["disk"] = c
      BY <1>1, <1>3, <2>4 DEF CollectInv, CollectUki, Collect, Artifacts
    <3> QED
      BY <3>1 DEF Goal, CollectInv
  <2>5. CASE b = c /\ CollectDisk(b)
    <3>1. /\ pc'[c] = "drop" /\ orphans' = {}
          /\ out'[c]["uki"] = c /\ out'[c]["disk"] = c
      BY <1>1, <1>3, <2>5 DEF CollectInv, CollectDisk, Collect, Artifacts
    <3>2. out'[c] = [a \in Artifacts |-> c]
      <4>1. out'[c] \in [Artifacts -> Builds \cup {Nobody}]
        BY <1>1
      <4> QED
        BY <3>1, <4>1 DEF Artifacts
    <3> QED
      BY <3>1, <3>2 DEF Goal, CollectInv
  <2> QED
    BY <1>9, <2>1, <2>2, <2>3, <2>4, <2>5
<1>10. ASSUME Prep \/ UNCHANGED vars PROVE Goal
  BY <1>4, <1>10 DEF Prep, vars
<1>11. Goal
  BY <1>5, <1>6, <1>7, <1>9, <1>10 DEF Next, Step, Environment
<1> QED
  BY <1>11 DEF Goal

\* If a kill always takes mkosi along, a build that succeeds ships the UKI and
\* the disk its own mkosi made (OwnImage).
THEOREM ImagesStayOwn ==
    ASSUME KillScopes \subseteq {"group"}
    PROVE  Spec => []OwnImage
<1>1. Init => ImageInv
  BY TypeInit DEF Init, ImageInv, LockInv, Locked, CollectInv
<1>2. ImageInv /\ [Next]_vars => ImageInv'
  BY ImageStep
<1>3. ImageInv => OwnImage
  BY DEF ImageInv, CollectInv, OwnImage
<1> QED
  BY <1>1, <1>2, <1>3, PTL DEF Spec

-----------------------------------------------------------------------------
(* Cleanup                                                                 *)

\* A build has profile guards only from staging to its drops, ...
GuardsAt(b) ==
    guards[b] # {} => pc[b] \in {"stage", "kernel", "mkosi", "collectUki", "collectDisk",
                                 "drop", "killed"}

\* ... files in mkosi.local only from the overlay to the wipe, unless the wipe
\* failed, ...
LocalAt(b) ==
    b \in local => \/ pc[b] \in {"validate", "stage", "kernel", "mkosi", "collectUki",
                                 "collectDisk", "drop", "wipe", "killed"}
                   \/ b \in swallowed

\* ... and sync inputs from their writing to the wipe, or it failed before it had
\* a guard for mkosi.local.
SyncAt(b) ==
    (\E i \in Inputs : <<b, i>> \in sync) =>
        \/ pc[b] \in {"sync", "drop", "wipe", "killed"} \cup SyncInputsInUse
        \/ pc[b] \in {"unlock", "exited"} /\ result[b] = "early"
        \/ b \in swallowed

\* A directory it staged has its guard, unless the removal failed.
OwnerAt(b) ==
    \A p \in Profiles : profile[p].owner = b =>
        p \in guards[b] \/ pc[b] = "killed" \/ b \in swallowed

\* Only a killed build has a mkosi that outlives it.
OrphanAt(b) == b \in orphans => pc[b] = "killed"

LeftInv(b) == GuardsAt(b) /\ LocalAt(b) /\ SyncAt(b) /\ OwnerAt(b) /\ OrphanAt(b)

ExitInv == TypeOK /\ \A b \in Builds : LeftInv(b)

\* Writing a marker or the content of a directory leaves its owner.
LEMMA StagingKeepsOwner ==
    ASSUME TypeOK, NEW c \in Builds, NEW q \in Profiles, StageMarker(c, q) \/ StageCopy(c, q)
    PROVE  \A p \in Profiles : profile'[p].owner = profile[p].owner
<1>1. profile \in [Profiles -> ProfileDir]
  BY DEF TypeOK
<1>2. CASE profile' = [profile EXCEPT ![q].marked = TRUE]
  <2>1. profile'[q].owner = profile[q].owner
    BY <1>1, <1>2 DEF ProfileDir
  <2> QED
    BY <1>1, <1>2, <2>1
<1>3. CASE profile' = [profile EXCEPT ![q].full = TRUE]
  <2>1. profile'[q].owner = profile[q].owner
    BY <1>1, <1>3 DEF ProfileDir
  <2> QED
    BY <1>1, <1>3, <2>1
<1> QED
  BY <1>2, <1>3 DEF StageMarker, StageCopy

\* No build leaves anything in another one's name, or cleans up for its ghost.
LEMMA NobodyElseLeaves ==
    ASSUME TypeOK, NEW c \in Builds, Step(c) \/ Environment(c), NEW b \in Builds, b # c
    PROVE  /\ pc'[b] = pc[b] /\ guards'[b] = guards[b] /\ result'[b] = result[b]
           /\ b \in local' => b \in local
           /\ b \in orphans' => b \in orphans
           /\ b \in swallowed => b \in swallowed'
           /\ \A i \in Inputs : <<b, i>> \in sync' => <<b, i>> \in sync
           /\ \A p \in Profiles : profile'[p].owner = b => profile[p].owner = b
<1> USE CheckoutAssumption
        DEF TypeOK, Goto, private, staging, mkosiState, ghosts
<1> DEFINE Goal ==
           /\ pc'[b] = pc[b] /\ guards'[b] = guards[b] /\ result'[b] = result[b]
           /\ b \in local' => b \in local
           /\ b \in orphans' => b \in orphans
           /\ b \in swallowed => b \in swallowed'
           /\ \A i \in Inputs : <<b, i>> \in sync' => <<b, i>> \in sync
           /\ \A p \in Profiles : profile'[p].owner = b => profile[p].owner = b
<1>1. CASE \/ Start(c) \/ LockCheckout(c) \/ SweepDone(c) \/ ClearSyncInputs(c)
           \/ SyncInputsWritten(c) \/ StageOverlay(c) \/ ValidateProfiles(c)
           \/ ProfilesStaged(c) \/ StartMkosi(c) \/ FinishMkosi(c)
  BY <1>1 DEF Start, LockCheckout, SweepDone, ClearSyncInputs, SyncInputsWritten, StageOverlay,
              ValidateProfiles, ProfilesStaged, StartMkosi, FinishMkosi
<1>2. CASE \/ CollectUki(c) \/ CollectDisk(c) \/ ProfilesDropped(c) \/ WipeLocal(c)
           \/ Unlock(c) \/ Fail(c) \/ OrphanHook(c) \/ OrphanEnds(c)
           \/ \E i \in Inputs : WriteSyncInput(c, i)
  BY <1>2 DEF CollectUki, CollectDisk, Collect, ProfilesDropped, WipeLocal, Unlock, Fail,
              OrphanHook, OrphanEnds, WriteSyncInput
<1>3. CASE Kill(c) \/ KillMidWipe(c)
  BY <1>3 DEF Kill, KillMidWipe, Dies
<1>4. ASSUME NEW q \in Profiles, SweepOne(c, q) \/ StageMkdir(c, q) PROVE Goal
  <2>1. CASE SweepOne(c, q)
    BY <2>1 DEF SweepOne, Absent
  <2>2. CASE StageMkdir(c, q)
    <3>1. pc'[b] = pc[b] /\ guards'[b] = guards[b] /\ result'[b] = result[b]
      BY <2>2 DEF StageMkdir
    <3>2. \A p \in Profiles : profile'[p].owner = b => profile[p].owner = b
      BY <2>2 DEF StageMkdir
    <3> QED
      BY <2>2, <3>1, <3>2 DEF StageMkdir
  <2> QED
    BY <1>4, <2>1, <2>2
<1>5. ASSUME NEW q \in Profiles, StageMarker(c, q) \/ StageCopy(c, q) PROVE Goal
  <2>1. \A p \in Profiles : profile'[p].owner = profile[p].owner
    BY <1>5, StagingKeepsOwner
  <2> QED
    BY <1>5, <2>1 DEF StageMarker, StageCopy
<1>6. ASSUME NEW q \in Profiles, DropProfile(c, q) PROVE Goal
  <2>1. \A p \in Profiles : profile'[p].owner \in {profile[p].owner, Nobody}
    <3>1. CASE profile' = [profile EXCEPT ![q] = Absent]
      BY <3>1 DEF Absent
    <3>2. CASE \E r \in Remnants(profile[q]) : profile' = [profile EXCEPT ![q] = r]
      BY <3>2, RemnantType
    <3> QED
      BY <1>6, <3>1, <3>2 DEF DropProfile
  <2> QED
    BY <1>6, <2>1 DEF DropProfile
<1>7. ASSUME NEW q \in Profiles, KillMidRemove(c, q) PROVE Goal
  <2>1. \A p \in Profiles : profile'[p].owner = profile[p].owner
    BY <1>7, RemnantType DEF KillMidRemove, Dies
  <2> QED
    BY <1>7, <2>1 DEF KillMidRemove, Dies
<1>8. CASE FailEarly(c)
  <2>1. \A p \in Profiles : profile'[p].owner = profile[p].owner
    BY <1>8, RemnantType DEF FailEarly
  <2> QED
    BY <1>8, <2>1 DEF FailEarly
<1> QED
  BY <1>1, <1>2, <1>3, <1>4, <1>5, <1>6, <1>7, <1>8 DEF Step, Environment

\* A build's own steps keep account of what it has to clean up.
LEMMA OwnLeftovers ==
    ASSUME TypeOK, NEW b \in Builds, LeftInv(b), Step(b) \/ Environment(b)
    PROVE  LeftInv(b)'
<1> USE CheckoutAssumption
        DEF TypeOK, Goto, private, staging, mkosiState, ghosts, LeftInv, GuardsAt, LocalAt,
            SyncAt, OwnerAt, OrphanAt, SyncInputsInUse
<1>1. CASE \/ Start(b) \/ LockCheckout(b) \/ SweepDone(b) \/ ClearSyncInputs(b)
           \/ SyncInputsWritten(b) \/ StageOverlay(b)
  BY <1>1 DEF Start, LockCheckout, SweepDone, ClearSyncInputs, SyncInputsWritten, StageOverlay
<1>2. CASE ValidateProfiles(b) \/ ProfilesStaged(b) \/ StartMkosi(b) \/ FinishMkosi(b)
  BY <1>2 DEF ValidateProfiles, ProfilesStaged, StartMkosi, FinishMkosi
<1>3. CASE \/ CollectUki(b) \/ CollectDisk(b) \/ ProfilesDropped(b) \/ Fail(b)
           \/ \E i \in Inputs : WriteSyncInput(b, i)
  BY <1>3 DEF CollectUki, CollectDisk, Collect, ProfilesDropped, Fail, WriteSyncInput
<1>4. CASE WipeLocal(b) \/ Unlock(b) \/ OrphanHook(b) \/ OrphanEnds(b)
  BY <1>4 DEF WipeLocal, Unlock, OrphanHook, OrphanEnds
<1>5. CASE Kill(b) \/ KillMidWipe(b)
  BY <1>5 DEF Kill, KillMidWipe, Dies
<1>6. ASSUME NEW q \in Profiles, SweepOne(b, q) \/ StageMkdir(b, q) PROVE LeftInv(b)'
  <2>1. CASE SweepOne(b, q)
    BY <2>1 DEF SweepOne, Absent
  <2>2. CASE StageMkdir(b, q)
    BY <2>2 DEF StageMkdir
  <2> QED
    BY <1>6, <2>1, <2>2
<1>7. ASSUME NEW q \in Profiles, StageMarker(b, q) \/ StageCopy(b, q) PROVE LeftInv(b)'
  <2>1. \A p \in Profiles : profile'[p].owner = profile[p].owner
    BY <1>7, StagingKeepsOwner
  <2> QED
    BY <1>7, <2>1 DEF StageMarker, StageCopy
<1>8. ASSUME NEW q \in Profiles, DropProfile(b, q) PROVE LeftInv(b)'
  <2>1. CASE profile' = [profile EXCEPT ![q] = Absent] /\ UNCHANGED ghosts
    BY <1>8, <2>1 DEF DropProfile, Absent
  <2>2. CASE swallowed' = swallowed \cup {b}
    BY <1>8, <2>2 DEF DropProfile
  <2> QED
    BY <1>8, <2>1, <2>2 DEF DropProfile
<1>9. ASSUME NEW q \in Profiles, KillMidRemove(b, q) PROVE LeftInv(b)'
  BY <1>9 DEF KillMidRemove, Dies
<1>10. CASE FailEarly(b)
  <2>1. \A p \in Profiles : profile'[p].owner = profile[p].owner
    BY <1>10, RemnantType DEF FailEarly
  <2> QED
    BY <1>10, <2>1 DEF FailEarly
<1> QED
  BY <1>1, <1>2, <1>3, <1>4, <1>5, <1>6, <1>7, <1>8, <1>9, <1>10 DEF Step, Environment

\* A build that exits without a swallowed error leaves no file, profile or sync
\* input behind (ExitLeavesNothing), whatever kills and orphans of other builds
\* do around it; no assumption on the lock is needed.
THEOREM ExitIsClean == Spec => []ExitLeavesNothing
<1>1. Init => ExitInv
  BY TypeInit, CheckoutAssumption
     DEF Init, ExitInv, LeftInv, GuardsAt, LocalAt, SyncAt, OwnerAt, OrphanAt, Absent, Shipped
<1>2. ExitInv /\ [Next]_vars => ExitInv'
  <2> SUFFICES ASSUME ExitInv, [Next]_vars PROVE ExitInv'
    OBVIOUS
  <2>1. TypeOK /\ TypeOK' /\ \A b \in Builds : LeftInv(b)
    BY TypeStep DEF ExitInv
  <2>2. ASSUME NEW c \in Builds, Step(c) \/ Environment(c), NEW b \in Builds PROVE LeftInv(b)'
    <3>1. CASE b = c
      BY <2>1, <2>2, <3>1, OwnLeftovers
    <3>2. CASE b # c
      <4>1. /\ pc'[b] = pc[b] /\ guards'[b] = guards[b] /\ result'[b] = result[b]
            /\ b \in local' => b \in local
            /\ b \in orphans' => b \in orphans
            /\ b \in swallowed => b \in swallowed'
            /\ \A i \in Inputs : <<b, i>> \in sync' => <<b, i>> \in sync
            /\ \A p \in Profiles : profile'[p].owner = b => profile[p].owner = b
        BY <2>1, <2>2, <3>2, NobodyElseLeaves
      <4> QED
        BY <2>1, <4>1 DEF LeftInv, GuardsAt, LocalAt, SyncAt, OwnerAt, OrphanAt
    <3> QED
      BY <3>1, <3>2
  <2>3. ASSUME Prep, NEW b \in Builds PROVE LeftInv(b)'
    BY <2>1, <2>3, CheckoutAssumption
       DEF Prep, private, mkosiState, ghosts, LeftInv, GuardsAt, LocalAt, SyncAt, OwnerAt, OrphanAt
  <2>4. ASSUME UNCHANGED vars, NEW b \in Builds PROVE LeftInv(b)'
    BY <2>1, <2>4 DEF vars, LeftInv, GuardsAt, LocalAt, SyncAt, OwnerAt, OrphanAt
  <2> QED
    BY <2>1, <2>2, <2>3, <2>4 DEF Next, ExitInv
<1>3. ExitInv => ExitLeavesNothing
  BY DEF ExitInv, LeftInv, GuardsAt, LocalAt, SyncAt, OwnerAt, ExitLeavesNothing, SyncInputsInUse
<1> QED
  BY <1>1, <1>2, <1>3, PTL DEF Spec
=============================================================================
