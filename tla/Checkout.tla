------------------------------ MODULE Checkout ------------------------------
(***************************************************************************)
(* The staging protocol of `confos build` (src/src/commands/build.rs).     *)
(*                                                                         *)
(* Builds started in one checkout share mkosi/base/mkosi.profiles (where   *)
(* every --profile-dir is copied), mkosi/base/mkosi.local (the overlay,    *)
(* with the --sync-input files in a subdirectory of their own) and         *)
(* mkosi.output.  A flock keeps live builds apart.  Cleanup runs in Drop,  *)
(* so a hard kill skips it and the NEXT build has to recover: it sweeps    *)
(* the profile directories that carry a marker file and clears the         *)
(* sync-input directory, and leaves the rest of mkosi.local alone because  *)
(* an operator's prep for the build about to run looks the same as residue.*)
(*                                                                         *)
(* Each element of Builds is one process.  Files are abstracted to who     *)
(* wrote them.  Removing a directory tree is one step that may also fail,  *)
(* or be cut short by a kill, half way: nobody else can observe the        *)
(* intermediate states because the lock is held.                           *)
(***************************************************************************)
EXTENDS FiniteSets

CONSTANTS
    Builds,         \* the `confos build` processes started in the checkout
    Profiles,       \* names under mkosi.profiles/
    InTreeProfiles, \* the names that are shipped in the repository
    Inputs,         \* the names a --sync-input may use
    KillScopes,     \* what a hard kill ends: "group" takes mkosi along,
                    \* "process" ends confos alone (mkosi is its child)
    Nobody,         \* no process; owner of a file that does not exist
    InTree,         \* owner of the profiles shipped in the repository
    Operator        \* bin/confos-fetch-<NAME>, run by hand before a build

ASSUME CheckoutAssumption ==
    /\ InTreeProfiles \subseteq Profiles
    /\ KillScopes \subseteq {"group", "process"}
    /\ Nobody \notin Builds /\ InTree \notin Builds /\ Operator \notin Builds
    /\ Nobody # InTree /\ Nobody # Operator /\ InTree # Operator

VARIABLES
    pc,        \* where each build is
    args,      \* its --sync-input names and --profile-dir basenames
    guards,    \* the RemoveDirOnDrop guards of its staged profiles
    result,    \* "none" while it runs, then "ok", "collision", "early" (an error
               \* while it swept or wrote the sync inputs) or "err" (any other)
    out,       \* whose UKI and disk it moved to its output directory
    lock,      \* holder of .confos-build.lock
    profile,   \* mkosi.profiles/: who made the directory, marker, content
    sync,      \* mkosi.local/.confos-sync-inputs: <<writer, name>>
    local,     \* who has files elsewhere in mkosi.local
    image,     \* mkosi.output: whose UKI and whose disk
    orphans,   \* killed builds whose mkosi is still running
    torn,      \* ghost: directories left without their marker
    swallowed  \* ghost: builds whose Drop swallowed an error

vars == <<pc, args, guards, result, out, lock, profile, sync, local, image,
          orphans, torn, swallowed>>

Artifacts == {"uki", "disk"}

\* Steps in which a build holds the lock, in program order.
Locked == {"sweep", "clear", "sync", "overlay", "validate", "stage", "kernel",
           "mkosi", "collectUki", "collectDisk", "drop", "wipe", "unlock"}
Ended == {"exited", "killed"}
PCs == {"idle", "lock"} \cup Locked \cup Ended

Args == [sync : SUBSET Inputs, dirs : SUBSET Profiles]
Owners == Builds \cup {Nobody, InTree}
ProfileDir == [owner : Owners, marked : BOOLEAN, full : BOOLEAN]

Absent == [owner |-> Nobody, marked |-> FALSE, full |-> FALSE]
Shipped == [owner |-> InTree, marked |-> FALSE, full |-> TRUE]

TypeOK ==
    /\ pc \in [Builds -> PCs]
    /\ args \in [Builds -> Args]
    /\ guards \in [Builds -> SUBSET Profiles]
    /\ result \in [Builds -> {"none", "ok", "early", "err", "collision"}]
    /\ out \in [Builds -> [Artifacts -> Builds \cup {Nobody}]]
    /\ lock \in Builds \cup {Nobody}
    /\ profile \in [Profiles -> ProfileDir]
    /\ sync \subseteq Builds \X Inputs
    /\ local \subseteq Builds \cup {Operator}
    /\ image \in [Artifacts -> Builds \cup {Nobody}]
    /\ orphans \subseteq Builds
    /\ torn \subseteq Profiles
    /\ swallowed \subseteq Builds

Init ==
    /\ pc = [b \in Builds |-> "idle"]
    /\ args = [b \in Builds |-> [sync |-> {}, dirs |-> {}]]
    /\ guards = [b \in Builds |-> {}]
    /\ result = [b \in Builds |-> "none"]
    /\ out = [b \in Builds |-> [a \in Artifacts |-> Nobody]]
    /\ lock = Nobody
    /\ profile = [p \in Profiles |->
                    IF p \in InTreeProfiles THEN Shipped ELSE Absent]
    /\ sync = {}
    /\ local = {}
    /\ image = [a \in Artifacts |-> Nobody]
    /\ orphans = {}
    /\ torn = {}
    /\ swallowed = {}

-----------------------------------------------------------------------------
(* Abbreviations                                                           *)

private == <<args, guards, result, out>>
staging == <<profile, sync, local>>
mkosiState == <<image, orphans>>
ghosts == <<torn, swallowed>>

Goto(b, from, to) == pc[b] = from /\ pc' = [pc EXCEPT ![b] = to]

\* What a removal that stops half way may leave of directory d: entries are
\* unlinked in directory order, so the marker may go before the content.
Remnants(d) == [owner : {d.owner}, marked : {FALSE, d.marked},
                full : {FALSE, d.full}]

\* {p} if the remnant r of directory p lost its marker.
Lost(p, r) == IF r.marked THEN {} ELSE {p}

\* An entry of mkosi.profiles that exists.
Exists(p) == profile[p].owner # Nobody

-----------------------------------------------------------------------------
(* Entry: arguments, lock, recovery                                        *)

\* Argument checks; nothing is written before the lock is taken.
Start(b) ==
    /\ pc[b] = "idle"
    /\ \E a \in Args : args' = [args EXCEPT ![b] = a]
    /\ \/ pc' = [pc EXCEPT ![b] = "lock"] /\ UNCHANGED result
       \/ /\ pc' = [pc EXCEPT ![b] = "exited"]
          /\ result' = [result EXCEPT ![b] = "err"]
    /\ UNCHANGED <<guards, out, lock, staging, mkosiState, ghosts>>

\* Mutant: the result of try_lock is ignored.
LockIgnored(b) ==
    /\ Goto(b, "lock", "sweep")
    /\ lock' = b
    /\ UNCHANGED <<private, staging, mkosiState, ghosts>>

LockCheckout(b) ==
    /\ pc[b] = "lock"
    /\ \/ /\ lock = Nobody
          /\ lock' = b
          /\ pc' = [pc EXCEPT ![b] = "sweep"]
          /\ UNCHANGED result
       \/ /\ lock # Nobody
          /\ pc' = [pc EXCEPT ![b] = "exited"]
          /\ result' = [result EXCEPT ![b] = "err"]
          /\ UNCHANGED lock
    /\ UNCHANGED <<args, guards, out, staging, mkosiState, ghosts>>

\* Mutant: the sweep does not look for the marker.
SweepUnmarked(b, p) ==
    /\ pc[b] = "sweep"
    /\ Exists(p)
    /\ profile' = [profile EXCEPT ![p] = Absent]
    /\ UNCHANGED <<pc, private, lock, sync, local, mkosiState, ghosts>>

\* sweep_stale_staged_profiles: every marked directory goes, one by one.
SweepOne(b, p) ==
    /\ pc[b] = "sweep"
    /\ profile[p].marked
    /\ profile' = [profile EXCEPT ![p] = Absent]
    /\ UNCHANGED <<pc, private, lock, sync, local, mkosiState, ghosts>>

\* Mutant: a build without --profile-dir does not sweep.
SweepSkipped(b) ==
    /\ Goto(b, "sweep", "clear")
    /\ args[b].dirs = {} \/ \A p \in Profiles : ~profile[p].marked
    /\ UNCHANGED <<private, lock, staging, mkosiState, ghosts>>

\* Mutant: the sweep repeats until no staged directory is left.
SweepUntilGone(b) ==
    /\ Goto(b, "sweep", "clear")
    /\ \A p \in Profiles : profile[p].owner \in {Nobody, InTree}
    /\ UNCHANGED <<private, lock, staging, mkosiState, ghosts>>

SweepDone(b) ==
    /\ Goto(b, "sweep", "clear")
    /\ \A p \in Profiles : ~profile[p].marked
    /\ UNCHANGED <<private, lock, staging, mkosiState, ghosts>>

\* Mutant: returns before clearing when this build has no inputs.
ClearOnlyWithInputs(b) ==
    /\ Goto(b, "clear", "sync")
    /\ sync' = IF args[b].sync = {} THEN sync ELSE {}
    /\ UNCHANGED <<private, lock, profile, local, mkosiState, ghosts>>

\* Mutant: recovery wipes the whole overlay.
ClearWholeLocal(b) ==
    /\ Goto(b, "clear", "sync")
    /\ sync' = {}
    /\ local' = {}
    /\ UNCHANGED <<private, lock, profile, mkosiState, ghosts>>

\* write_sync_inputs: clear what a dead build left, whether or not this
\* build has inputs of its own, ...
ClearSyncInputs(b) ==
    /\ Goto(b, "clear", "sync")
    /\ sync' = {}
    /\ UNCHANGED <<private, lock, profile, local, mkosiState, ghosts>>

\* ... then write this build's, one file at a time.
WriteSyncInput(b, i) ==
    /\ pc[b] = "sync"
    /\ i \in args[b].sync /\ <<b, i>> \notin sync
    /\ sync' = sync \cup {<<b, i>>}
    /\ UNCHANGED <<pc, private, lock, profile, local, mkosiState, ghosts>>

SyncInputsWritten(b) ==
    /\ Goto(b, "sync", "overlay")
    /\ \A i \in args[b].sync : <<b, i>> \in sync
    /\ UNCHANGED <<private, lock, staging, mkosiState, ghosts>>

-----------------------------------------------------------------------------
(* Staging                                                                 *)

\* The mkosi.local guard is created, then --extra and --cloud-init copied in.
StageOverlay(b) ==
    /\ Goto(b, "overlay", "validate")
    /\ local' = local \cup {b}
    /\ UNCHANGED <<private, lock, profile, sync, mkosiState, ghosts>>

\* stage_profile_dirs, first loop: every directory is validated before any
\* is staged.  A name already taken is reported as an in-tree collision.
ValidateProfiles(b) ==
    /\ \/ /\ Goto(b, "validate", "stage")
          /\ \A p \in args[b].dirs : ~Exists(p)
          /\ UNCHANGED result
       \/ /\ Goto(b, "validate", "drop")
          /\ \E p \in args[b].dirs : Exists(p)
          /\ result' = [result EXCEPT ![b] = "collision"]
    /\ UNCHANGED <<args, guards, out, lock, staging, mkosiState, ghosts>>

\* Second loop, per directory: guard and mkdir, then the marker, then the
\* content.  The next directory is only begun once this one is complete.
StageMkdir(b, p) ==
    /\ pc[b] = "stage"
    /\ p \in args[b].dirs \ guards[b]
    /\ \A q \in guards[b] : profile[q].full
    /\ guards' = [guards EXCEPT ![b] = @ \cup {p}]
    /\ profile' = [profile EXCEPT
                     ![p] = [owner |-> b, marked |-> FALSE, full |-> FALSE]]
    /\ UNCHANGED <<pc, args, result, out, lock, sync, local, mkosiState, ghosts>>

StageMarker(b, p) ==
    /\ pc[b] = "stage"
    /\ p \in guards[b]
    /\ ~profile[p].marked
    /\ profile' = [profile EXCEPT ![p].marked = TRUE]
    /\ UNCHANGED <<pc, private, lock, sync, local, mkosiState, ghosts>>

\* Mutant: the content may be copied before the marker is written.
CopyBeforeMarker(b, p) ==
    /\ pc[b] = "stage"
    /\ p \in guards[b]
    /\ ~profile[p].full
    /\ profile' = [profile EXCEPT ![p].full = TRUE]
    /\ UNCHANGED <<pc, private, lock, sync, local, mkosiState, ghosts>>

StageCopy(b, p) ==
    /\ pc[b] = "stage"
    /\ p \in guards[b]
    /\ profile[p].marked /\ ~profile[p].full
    /\ profile' = [profile EXCEPT ![p].full = TRUE]
    /\ UNCHANGED <<pc, private, lock, sync, local, mkosiState, ghosts>>

ProfilesStaged(b) ==
    /\ Goto(b, "stage", "kernel")
    /\ guards[b] = args[b].dirs
    /\ \A p \in guards[b] : profile[p].full
    /\ UNCHANGED <<private, lock, staging, mkosiState, ghosts>>

-----------------------------------------------------------------------------
(* mkosi, and the artifacts it leaves                                      *)

\* The kernel is ensured and staged, the initrd built, mkosi started.  The mkosi
\* that builds the initrd works in mkosi/initrd, on none of this state: when it
\* outlives its confos, nothing here changes.
StartMkosi(b) ==
    /\ Goto(b, "kernel", "mkosi")
    /\ local' = local \cup {b}
    /\ UNCHANGED <<private, lock, profile, sync, mkosiState, ghosts>>

\* Mutant: mkosi is configured to split off the UKI alone.
FinishWithoutDisk(b) ==
    /\ Goto(b, "mkosi", "collectUki")
    /\ image' = [a \in {"uki"} |-> b]
    /\ UNCHANGED <<private, lock, staging, orphans, ghosts>>

FinishMkosi(b) ==
    /\ Goto(b, "mkosi", "collectUki")
    /\ image' = [a \in Artifacts |-> b]
    /\ UNCHANGED <<private, lock, staging, orphans, ghosts>>

\* sudo_mv of the artifact to the output directory; gone from mkosi.output.
Collect(b, a) ==
    /\ image[a] # Nobody
    /\ out' = [out EXCEPT ![b][a] = image[a]]
    /\ image' = [image EXCEPT ![a] = Nobody]
    /\ UNCHANGED <<args, guards, lock, staging, orphans, ghosts>>

\* The UKI is moved first; the IGVM variants are measured in between.
CollectUki(b) ==
    /\ Goto(b, "collectUki", "collectDisk")
    /\ Collect(b, "uki")
    /\ UNCHANGED result

\* The disk is moved, measured and described in the manifest: a success.
CollectDisk(b) ==
    /\ Goto(b, "collectDisk", "drop")
    /\ Collect(b, "disk")
    /\ result' = [result EXCEPT ![b] = "ok"]

-----------------------------------------------------------------------------
(* Exit: an error at any step, then the drops in reverse order             *)

\* An error before the mkosi.local guard exists only releases the lock;
\* the sweep may have stopped half way through a directory.
FailEarly(b) ==
    /\ pc[b] \in {"sweep", "clear", "sync"}
    /\ pc' = [pc EXCEPT ![b] = "unlock"]
    /\ result' = [result EXCEPT ![b] = "early"]
    /\ \/ UNCHANGED <<profile, sync, torn>>
       \/ /\ pc[b] = "sweep"
          /\ \E p \in Profiles : \E r \in Remnants(profile[p]) :
               /\ profile[p].marked
               /\ profile' = [profile EXCEPT ![p] = r]
               /\ torn' = torn \cup Lost(p, r)
          /\ UNCHANGED sync
       \/ /\ pc[b] = "clear"
          /\ sync' \in SUBSET sync
          /\ UNCHANGED <<profile, torn>>
    /\ UNCHANGED <<args, guards, out, lock, local, mkosiState, swallowed>>

\* Mutant: the mkosi.local guard is created after --extra is copied.
FailBeforeGuard(b) ==
    /\ pc[b] \in {"overlay", "validate", "stage", "kernel", "mkosi",
                  "collectUki", "collectDisk"}
    /\ pc' = [pc EXCEPT ![b] = IF pc[b] = "overlay" THEN "unlock" ELSE "drop"]
    /\ result' = [result EXCEPT ![b] = "err"]
    /\ \/ UNCHANGED image
       \/ pc[b] = "mkosi" /\ image' = [a \in Artifacts |-> Nobody]
    /\ UNCHANGED <<args, guards, out, lock, staging, orphans, ghosts>>

\* Any later error; a failed mkosi may have removed the previous image.
Fail(b) ==
    /\ pc[b] \in {"overlay", "validate", "stage", "kernel", "mkosi",
                  "collectUki", "collectDisk"}
    /\ pc' = [pc EXCEPT ![b] = "drop"]
    /\ result' = [result EXCEPT ![b] = "err"]
    /\ \/ UNCHANGED image
       \/ pc[b] = "mkosi" /\ image' = [a \in Artifacts |-> Nobody]
    /\ UNCHANGED <<args, guards, out, lock, staging, orphans, ghosts>>

\* Drop of one profile guard; an error of the removal is ignored.
DropProfile(b, p) ==
    /\ pc[b] = "drop"
    /\ p \in guards[b]
    /\ guards' = [guards EXCEPT ![b] = @ \ {p}]
    /\ \/ profile' = [profile EXCEPT ![p] = Absent] /\ UNCHANGED ghosts
       \/ /\ Exists(p)
          /\ \E r \in Remnants(profile[p]) :
               /\ profile' = [profile EXCEPT ![p] = r]
               /\ torn' = torn \cup Lost(p, r)
          /\ swallowed' = swallowed \cup {b}
    /\ UNCHANGED <<pc, args, result, out, lock, sync, local, mkosiState>>

ProfilesDropped(b) ==
    /\ Goto(b, "drop", "wipe")
    /\ guards[b] = {}
    /\ UNCHANGED <<private, lock, staging, mkosiState, ghosts>>

\* Drop of the mkosi.local guard: the overlay goes wholesale.
WipeLocal(b) ==
    /\ Goto(b, "wipe", "unlock")
    /\ \/ local' = {} /\ sync' = {} /\ UNCHANGED swallowed
       \/ /\ local' \in SUBSET local /\ sync' \in SUBSET sync
          /\ swallowed' = swallowed \cup {b}
    /\ UNCHANGED <<private, lock, profile, mkosiState, torn>>

Unlock(b) ==
    /\ Goto(b, "unlock", "exited")
    /\ lock' = Nobody
    /\ UNCHANGED <<private, staging, mkosiState, ghosts>>

-----------------------------------------------------------------------------
(* Hard kills, the operator, and a mkosi that outlives its confos          *)

\* The process dies: no Drop runs and the kernel releases the flock.  Left
\* without a marker are the directories in lost, and one just made and empty.
Dies(b, lost) ==
    /\ pc' = [pc EXCEPT ![b] = "killed"]
    /\ lock' = IF lock = b THEN Nobody ELSE lock
    /\ torn' = torn \cup lost \cup
                 {p \in guards[b] : ~profile[p].marked /\ ~profile[p].full}

Kill(b) ==
    /\ pc[b] \in {"lock"} \cup Locked
    /\ Dies(b, {})
    /\ \E s \in KillScopes :
         orphans' = IF s = "process" /\ pc[b] = "mkosi"
                      THEN orphans \cup {b} ELSE orphans
    /\ UNCHANGED <<private, staging, image, swallowed>>

\* The kill lands inside the removal of a staged profile.
KillMidRemove(b, p) ==
    /\ \/ pc[b] = "sweep" /\ profile[p].marked
       \/ pc[b] = "drop" /\ p \in guards[b] /\ Exists(p)
    /\ \E r \in Remnants(profile[p]) :
         /\ Dies(b, Lost(p, r))
         /\ profile' = [profile EXCEPT ![p] = r]
    /\ UNCHANGED <<private, sync, local, mkosiState, swallowed>>

\* The kill lands inside the removal of the sync inputs or of mkosi.local.
KillMidWipe(b) ==
    /\ pc[b] \in {"clear", "wipe"}
    /\ Dies(b, {})
    /\ sync' \in SUBSET sync
    /\ IF pc[b] = "wipe" THEN local' \in SUBSET local ELSE UNCHANGED local
    /\ UNCHANGED <<private, profile, mkosiState, swallowed>>

\* Prep for a later build; bin/confos-fetch-<NAME> takes no lock.
Prep ==
    /\ local' = local \cup {Operator}
    /\ UNCHANGED <<pc, private, lock, profile, sync, mkosiState, ghosts>>

\* The orphaned mkosi runs a sync hook, or writes its image, or dies.
OrphanHook(b) ==
    /\ b \in orphans
    /\ local' = local \cup {b}
    /\ UNCHANGED <<pc, private, lock, profile, sync, mkosiState, ghosts>>

OrphanEnds(b) ==
    /\ b \in orphans
    /\ orphans' = orphans \ {b}
    /\ \/ image' = [a \in Artifacts |-> b]
       \/ UNCHANGED image
    /\ UNCHANGED <<pc, private, lock, staging, ghosts>>

-----------------------------------------------------------------------------

\* What the program does next when nothing goes wrong.
Step(b) ==
    \/ LockCheckout(b) \/ SweepDone(b) \/ ClearSyncInputs(b)
    \/ SyncInputsWritten(b) \/ StageOverlay(b) \/ ValidateProfiles(b)
    \/ ProfilesStaged(b) \/ StartMkosi(b) \/ FinishMkosi(b)
    \/ CollectUki(b) \/ CollectDisk(b) \/ ProfilesDropped(b) \/ WipeLocal(b)
    \/ Unlock(b)
    \/ \E i \in Inputs : WriteSyncInput(b, i)
    \/ \E p \in Profiles : \/ SweepOne(b, p) \/ StageMkdir(b, p)
                           \/ StageMarker(b, p) \/ StageCopy(b, p)
                           \/ DropProfile(b, p)

Environment(b) ==
    \/ Start(b) \/ FailEarly(b) \/ Fail(b) \/ Kill(b) \/ KillMidWipe(b)
    \/ OrphanHook(b) \/ OrphanEnds(b)
    \/ \E p \in Profiles : KillMidRemove(b, p)

Next == Prep \/ \E b \in Builds : Step(b) \/ Environment(b)

Spec == Init /\ [][Next]_vars

\* A running process keeps running; nobody has to start, fail, kill or prepare.
Fairness == \A b \in Builds : WF_vars(Step(b))
FairSpec == Spec /\ Fairness

-----------------------------------------------------------------------------
(* Properties                                                              *)

\* Steps between a completed write_sync_inputs and the drops, and between a
\* completed stage_profile_dirs and the drops.
SyncInputsInUse == {"overlay", "validate", "stage", "kernel", "mkosi",
                    "collectUki", "collectDisk"}
ProfilesInUse == {"kernel", "mkosi", "collectUki", "collectDisk"}

\* What mkosi must find under mkosi.profiles/p while it builds for b.
Expected(b, p) ==
    IF p \in args[b].dirs
      THEN [owner |-> b, marked |-> TRUE, full |-> TRUE]
      ELSE IF p \in InTreeProfiles THEN Shipped ELSE Absent

\* A build's sync hooks read exactly the --sync-input files of this build: a
\* leftover of an interrupted one is cleared and never silently reused, also
\* by the build that passed none (build.rs write_sync_inputs).
SyncInputsAreMine ==
    \A b \in Builds : pc[b] \in SyncInputsInUse => sync = {b} \X args[b].sync

\* While mkosi merges configuration for a build, mkosi.profiles holds the
\* shipped profiles and complete copies of this build's --profile-dirs and
\* nothing else, directories that lost their marker in an interrupted mkdir
\* or removal excepted (build.rs stage_profile_dirs and the sweep).
ProfilesAreMine ==
    \A b \in Builds : pc[b] \in ProfilesInUse =>
        \A p \in Profiles \ torn : profile[p] = Expected(b, p)

\* No sequence of builds, failures, kills and sweeps removes or marks a
\* profile that is shipped in the repository ("never ours to remove").
InTreeIntact == \A p \in InTreeProfiles : profile[p] = Shipped

\* A build whose cleanup ran and met no error leaves nothing: no staged profile,
\* no overlay file, and no sync input unless the very step that writes them (or
\* the sweep before it) failed; however much later a build fails, its guard for
\* mkosi.local takes them (build.rs RemoveDirOnDrop).
ExitLeavesNothing ==
    \A b \in Builds : pc[b] = "exited" /\ b \notin swallowed =>
        /\ b \notin local
        /\ \A p \in Profiles : profile[p].owner # b
        /\ result[b] # "early" => \A i \in Inputs : <<b, i>> \notin sync

\* A build that died leaves only directories the next sweep recognises: a
\* --profile-dir is refused only for a name that is shipped, or whose
\* directory lost its marker in an interrupted mkdir or removal.
CollisionIsReal ==
    \A b \in Builds : result[b] = "collision" =>
        args[b].dirs \cap (InTreeProfiles \cup torn) # {}

\* A build that succeeds ships the UKI and the disk its own mkosi made, never
\* one half of another build's image (holds when a kill takes mkosi along).
OwnImage ==
    \A b \in Builds : result[b] = "ok" => out[b] = [a \in Artifacts |-> b]

\* Recovery at entry is scoped: only the wipe of mkosi.local at the end of a
\* build removes what the operator prepared in it.
PrepSurvivesEntry ==
    [][(Operator \in local \ local') => \E b \in Builds : pc[b] = "wipe"]_vars

\* Every build that starts comes to an end, so the lock is not held forever
\* and a leftover never wedges the checkout.
EveryBuildEnds ==
    \A b \in Builds : pc[b] = "lock" ~> pc[b] \in Ended

\* Claimed beside the collision check of stage_profile_dirs: the sweep took
\* every staged leftover, so what is still there is in-tree.
SweepTookEveryLeftover ==
    \A b \in Builds : pc[b] = "validate" =>
        \A p \in Profiles : profile[p].owner \in {Nobody, InTree}

\* Claimed beside lock_checkout: while a build holds the lock no other build
\* can be running, so anything still staged is abandoned.
StagedIsAbandoned ==
    \A b \in Builds, p \in Profiles :
        pc[b] = "sweep" /\ profile[p].marked => profile[p].owner \notin orphans
=============================================================================
