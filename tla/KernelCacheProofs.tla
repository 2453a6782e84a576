------------------------- MODULE KernelCacheProofs --------------------------
(***************************************************************************)
(* Proofs about the kernel cache and its tools tree, for any number of     *)
(* runs, fragments, package lists and versions of the inputs.              *)
(***************************************************************************)
EXTENDS KernelCache, TLAPS

-----------------------------------------------------------------------------
(* The inductive invariant                                                 *)

\* output/kernel is used by one run at a time.
OneActive ==
    \A r, s \in Runs : pc[r] \in Active /\ pc[s] \in Active => r = s

\* A run that is active has its arguments.
ArgsInv(r) == pc[r] \in Active => args[r] \in Args

\* What is there when a run needs it: no stamp while the tree is rebuilt, a whole
\* tree for a stamp and a build, a source, a configuration, a manifest to write.
NeedsInv(r) ==
    /\ pc[r] \in {"hitMkosi", "mkosi", "hitStamp", "stamp"} => stamp = None
    /\ pc[r] \in {"hitStamp", "stamp", "extract", "configure", "snapshot", "compile"} =>
         tree \in ToolsTree
    /\ pc[r] \in {"configure", "snapshot", "compile"} => build \in Source
    /\ pc[r] \in {"snapshot", "compile"} => build.config \in Versions
    /\ pc[r] = "write" => pending[r] \in Manifest

ShapeInv ==
    /\ TypeOK /\ OneActive
    /\ stamp \notin {None, Torn} => tree \in ToolsTree
    /\ \A r \in Runs : ArgsInv(r) /\ NeedsInv(r)

\* What it fingerprinted was there when it did, and inputs only move on.
StagedInv(r) ==
    pc[r] \in Active \ {"fingerprint"} =>
        /\ staged[r] \in Fingerprint
        /\ staged[r].frag = args[r].frag
        /\ staged[r].patch <= src["patch"]
        /\ staged[r].config <= src["config"]
        /\ staged[r].tools <= src["tools"]

\* Version v of an input was current after the run fingerprinted s of it.
Since(s, v, now) == v \in Versions /\ s <= v /\ v <= now

\* While the tree is rebuilt there is no stamp, and the key is of this run.
KeyInv(r) ==
    pc[r] \in {"hitMkosi", "mkosi", "hitStamp", "stamp"} =>
        /\ stamp = None
        /\ key[r] \in ToolsTree
        /\ key[r].packages = args[r].packages
        /\ key[r].conf <= src["tools"]

\* The tree a stamp is about to be written for is not older than its key.
RebuiltInv(r) ==
    pc[r] \in {"hitStamp", "stamp"} =>
        /\ tree \in ToolsTree
        /\ tree.packages = args[r].packages
        /\ Since(key[r].conf, tree.conf, src["tools"])

\* The tree a kernel is compiled with is not older than the fingerprint, ...
TreeInv(r) ==
    pc[r] \in {"stamp", "extract", "configure", "snapshot", "compile"} =>
        tree \in ToolsTree /\ Since(staged[r].tools, tree.conf, src["tools"])

\* ... nor are the patches applied to the source, ...
SourceInv(r) ==
    pc[r] \in {"configure", "snapshot", "compile"} =>
        /\ build \in Source
        /\ build.frag = args[r].frag
        /\ Since(staged[r].patch, build.patch, src["patch"])

\* ... nor the fragments it was configured with.
ConfigInv(r) ==
    pc[r] \in {"snapshot", "compile"} =>
        Since(staged[r].config, build.config, src["config"])

\* The kernel is compiled from all of these.
CompiledInv(r) ==
    pc[r] = "finish" =>
        /\ vmlinuz \in Kernel
        /\ vmlinuz.frag = args[r].frag
        /\ Since(staged[r].patch, vmlinuz.patch, src["patch"])
        /\ Since(staged[r].config, vmlinuz.config, src["config"])
        /\ Since(staged[r].tools, vmlinuz.tools.conf, src["tools"])

\* The manifest about to be written is honest, and of the staged inputs.
PendingInv(r) ==
    pc[r] = "write" =>
        /\ pending[r] \in Manifest
        /\ BuiltFrom(pending[r].vmlinuz, pending[r].inputs)
        /\ BuiltFrom(pending[r].vmlinuz, staged[r])

\* A kernel found in the cache, or built, is of the staged inputs.
GotInv(r) ==
    pc[r] \in {"hitTools", "hitMkosi", "hitStamp", "hit", "built"} =>
        BuiltFrom(got[r], staged[r])

RunInv(r) ==
    /\ ArgsInv(r) /\ StagedInv(r) /\ KeyInv(r) /\ RebuiltInv(r) /\ TreeInv(r)
    /\ SourceInv(r) /\ ConfigInv(r) /\ CompiledInv(r) /\ PendingInv(r) /\ GotInv(r)

\* The stamp is of a configuration there was.
StampInv == stamp \notin {None, Torn} => stamp.conf <= src["tools"]

CacheInv ==
    /\ ShapeInv
    /\ StampInv /\ StampIsHonest /\ ManifestIsHonest
    /\ \A r \in Runs : RunInv(r)

\* The fingerprint of a run still at its check, and the manifest the last build
\* wrote or is about to write, are those of the inputs if nothing was touched.
FreshInv ==
    last # None =>
        /\ \A r \in Runs : pc[r] = "check" =>
             staged[r] = ComputeFingerprint(args[r].frag)
        /\ \A r \in Runs : pc[r] = "write" =>
             /\ pending[r].inputs = ComputeFingerprint(last.frag)
             /\ vmlinuz # None
        /\ (\A r \in Runs : pc[r] # "write") =>
             /\ manifest \notin {None, Torn} /\ vmlinuz # None
             /\ manifest.inputs = ComputeFingerprint(last.frag)

ConvergeInv == ShapeInv /\ FreshInv /\ SecondRunHits

-----------------------------------------------------------------------------
(* Types and frames                                                        *)

\* Initially every variable has its type.
LEMMA TypeInit == Init => TypeOK
  BY KernelCacheAssumption DEF Init, TypeOK, Versions, Files

\* The fingerprint of the files is a fingerprint.
LEMMA FingerprintType ==
    ASSUME TypeOK, NEW f \in Frags
    PROVE  ComputeFingerprint(f) \in Fingerprint
  BY DEF TypeOK, ComputeFingerprint, Fingerprint, Files

\* The steps of a run keep the types.
LEMMA TypeRun ==
    ASSUME ShapeInv, NEW r \in Runs, Start(r) \/ Step(r) \/ Stop(r)
    PROVE  TypeOK'
<1> USE DEF TypeOK, Goto, inputs, toolsCache, kernelCache, private, Active, Ended
<1>1. TypeOK /\ ArgsInv(r) /\ NeedsInv(r)
  BY DEF ShapeInv
<1>2. ASSUME pc[r] \in Active
      PROVE  args[r] \in Args /\ args[r].frag \in Frags /\ args[r].packages \in Packages
  BY <1>1, <1>2 DEF ArgsInv, Args
<1>3. src["patch"] \in Versions /\ src["config"] \in Versions /\ src["tools"] \in Versions
  BY <1>1 DEF Files
<1>4. CASE Start(r)
  BY <1>1, <1>4 DEF Start
<1>5. CASE StageFingerprint(r)
  <2>1. ComputeFingerprint(args[r].frag) \in Fingerprint
    BY <1>1, <1>2, <1>5, FingerprintType DEF StageFingerprint
  <2> QED
    BY <1>1, <1>5, <2>1 DEF StageFingerprint
<1>6. CASE CheckHit(r) \/ CheckMiss(r)
  BY <1>1, <1>6 DEF CheckHit, CheckMiss
<1>7. CASE CheckCorrupt(r) \/ FinishChanged(r)
  BY <1>1, <1>7 DEF CheckCorrupt, FinishChanged, Quit
<1>8. CASE ToolsCheck(r)
  <2>1. [conf |-> src["tools"], packages |-> args[r].packages] \in ToolsTree
    BY <1>2, <1>3, <1>8 DEF ToolsCheck, ToolsTree
  <2> QED
    BY <1>1, <1>8, <2>1 DEF ToolsCheck, After
<1>9. CASE ToolsBuild(r)
  <2>1. [conf |-> src["tools"], packages |-> args[r].packages] \in ToolsTree
    BY <1>2, <1>3, <1>9 DEF ToolsBuild, ToolsTree
  <2> QED
    BY <1>1, <1>9, <2>1 DEF ToolsBuild, After
<1>10. CASE ToolsStamp(r)
  BY <1>1, <1>10 DEF ToolsStamp, After
<1>11. CASE Extract(r)
  BY <1>1, <1>2, <1>3, <1>11 DEF Extract, Extracted, Source
<1>12. CASE Configure(r)
  BY <1>1, <1>2, <1>3, <1>12 DEF Configure, Source
<1>13. CASE UpdateSnapshot(r)
  <2>1. [config |-> build.config, frag |-> build.frag] \in Snapshot
    BY <1>1, <1>13 DEF UpdateSnapshot, NeedsInv, Source, Snapshot
  <2> QED
    BY <1>1, <1>13, <2>1 DEF UpdateSnapshot, Touch
<1>14. CASE Compile(r)
  <2>1. vmlinuz' \in Kernel
    BY <1>1, <1>14 DEF Compile, NeedsInv, Source, Kernel
  <2> QED
    BY <1>1, <1>14, <2>1 DEF Compile, Touch
<1>15. CASE Finish(r)
  <2>1. pending' \in [Runs -> Manifest \cup {None}]
    <3>1. ComputeFingerprint(args[r].frag) \in Fingerprint
      BY <1>1, <1>2, <1>15, FingerprintType DEF Finish
    <3> QED
      BY <1>1, <1>15, <3>1 DEF Finish, FinishWith, Manifest
  <2> QED
    BY <1>1, <1>2, <1>15, <2>1 DEF Finish, FinishWith
<1>16. CASE WriteManifest(r)
  BY <1>1, <1>16 DEF WriteManifest, NeedsInv, Manifest
<1>17. CASE Stop(r)
  BY <1>1, <1>2, <1>17 DEF Stop, HalfWritten, Quit, Touch
<1> QED
  BY <1>4, <1>5, <1>6, <1>7, <1>8, <1>9, <1>10, <1>11, <1>12, <1>13, <1>14, <1>15,
     <1>16, <1>17 DEF Step

\* Edits and deleted lockfiles keep the types.
LEMMA TypeEdit ==
    ASSUME TypeOK, (\E f \in Edited : Edit(f)) \/ (\E f \in Frags : DeleteSnapshot(f))
    PROVE  TypeOK'
<1>1. ASSUME NEW f \in Edited, Edit(f) PROVE TypeOK'
  BY <1>1, EditedAssumption DEF Edit, Touch, TypeOK, toolsCache, kernelCache, private
<1>2. ASSUME NEW f \in Frags, DeleteSnapshot(f) PROVE TypeOK'
  BY <1>2 DEF DeleteSnapshot, Touch, TypeOK, toolsCache, kernelCache, private
<1> QED
  BY <1>1, <1>2

\* A run that takes a step is the only active one, and the others keep all they
\* have in memory.
LEMMA OthersStay ==
    ASSUME ShapeInv, NEW r \in Runs, Start(r) \/ Step(r) \/ Stop(r),
           NEW s \in Runs, s # r
    PROVE  /\ pc'[s] = pc[s] /\ pc[s] \notin Active
           /\ got'[s] = got[s] /\ staged'[s] = staged[s]
<1> USE DEF TypeOK, Goto, private
<1>1. TypeOK /\ OneActive
  BY DEF ShapeInv
<1>2. pc[s] \notin Active
  <2>1. CASE Start(r)
    BY <2>1 DEF Start, Quiet
  <2>2. CASE Step(r) \/ Stop(r)
    <3>1. pc[r] \in Active
      BY <2>2 DEF Step, Stop, StageFingerprint, CheckHit, CheckCorrupt, CheckMiss, ToolsCheck,
                  ToolsBuild, ToolsStamp, Extract, Configure, UpdateSnapshot, Compile, Finish,
                  FinishChanged, WriteManifest, Active
    <3> QED
      BY <1>1, <3>1 DEF OneActive
  <2> QED
    BY <2>1, <2>2
<1>3. pc'[s] = pc[s]
  BY <1>1 DEF Start, Step, Stop, StageFingerprint, CheckHit, CheckCorrupt, CheckMiss, ToolsCheck,
              ToolsBuild, ToolsStamp, After, Extract, Configure, UpdateSnapshot, Compile, Finish,
              FinishWith, FinishChanged, WriteManifest, Quit
<1>4. got'[s] = got[s] /\ staged'[s] = staged[s]
  BY <1>1 DEF Start, Step, Stop, StageFingerprint, CheckHit, CheckCorrupt, CheckMiss, ToolsCheck,
              ToolsBuild, ToolsStamp, Extract, Configure, UpdateSnapshot, Compile, Finish,
              FinishWith, FinishChanged, WriteManifest, Quit
<1> QED
  BY <1>2, <1>3, <1>4

\* Every step keeps what runs need where they need it.
LEMMA ShapeRun ==
    ASSUME ShapeInv, NEW r \in Runs, Start(r) \/ Step(r) \/ Stop(r)
    PROVE  ShapeInv'
<1> USE DEF TypeOK, Goto, inputs, toolsCache, kernelCache, private
<1>1. TypeOK /\ OneActive /\ ArgsInv(r) /\ NeedsInv(r)
  BY DEF ShapeInv
<1>2. TypeOK'
  BY TypeRun
<1>3. OneActive'
  BY <1>1, OthersStay DEF OneActive
<1>4. ASSUME NEW s \in Runs, s # r PROVE ArgsInv(s)' /\ NeedsInv(s)'
  BY <1>4, OthersStay DEF ArgsInv, NeedsInv, Active
<1>5. ArgsInv(r)'
  BY <1>1 DEF ArgsInv, Start, Step, Stop, StageFingerprint, CheckHit, CheckCorrupt, CheckMiss,
              ToolsCheck, ToolsBuild, ToolsStamp, After, Extract, Configure, UpdateSnapshot,
              Compile, Finish, FinishWith, FinishChanged, WriteManifest, Quit, Active
<1> DEFINE Whole == (stamp \notin {None, Torn} => tree \in ToolsTree)' /\ NeedsInv(r)'
<1>6. stamp \notin {None, Torn} => tree \in ToolsTree
  BY DEF ShapeInv
<1>7. Whole
  <2>1. CASE \/ Start(r) \/ StageFingerprint(r) \/ CheckHit(r) \/ CheckMiss(r)
            \/ CheckCorrupt(r) \/ FinishChanged(r) \/ WriteManifest(r)
    BY <1>1, <1>6, <2>1 DEF Start, StageFingerprint, CheckHit, CheckMiss, CheckCorrupt,
                            FinishChanged, WriteManifest, Quit, NeedsInv
  <2>2. CASE ToolsCheck(r)
    <3>1. [conf |-> src["tools"], packages |-> args[r].packages] \in ToolsTree
      BY <1>1, <2>2 DEF ToolsCheck, ToolsTree, ArgsInv, Args, Active, Files
    <3>2. [conf |-> src["tools"], packages |-> args[r].packages] \notin {None, Torn}
      BY <3>1, WholeAssumption
    <3> QED
      BY <1>1, <1>6, <2>2, <3>2 DEF ToolsCheck, After, NeedsInv
  <2>3. CASE ToolsBuild(r)
    <3>1. [conf |-> src["tools"], packages |-> args[r].packages] \in ToolsTree
      BY <1>1, <2>3 DEF ToolsBuild, ToolsTree, ArgsInv, Args, Active, Files
    <3> QED
      BY <1>1, <2>3, <3>1 DEF ToolsBuild, After, NeedsInv
  <2>4. CASE ToolsStamp(r)
    BY <1>1, <2>4 DEF ToolsStamp, After, NeedsInv
  <2>5. CASE Extract(r) \/ Configure(r)
    <3>1. src["patch"] \in Versions /\ src["config"] \in Versions /\ args[r].frag \in Frags
      BY <1>1, <2>5 DEF Extract, Configure, ArgsInv, Args, Active, Files
    <3>2. /\ build' \in Source
          /\ pc'[r] = "snapshot" => build'.config \in Versions
      <4>1. CASE Extract(r)
        BY <1>1, <3>1, <4>1 DEF Extract, Extracted, Source
      <4>2. CASE Configure(r)
        <5>1. build \in Source
          BY <1>1, <4>2 DEF Configure, NeedsInv
        <5> QED
          BY <3>1, <4>2, <5>1 DEF Configure, Source
      <4> QED
        BY <2>5, <4>1, <4>2
    <3> QED
      BY <1>1, <1>6, <2>5, <3>2 DEF Extract, Configure, NeedsInv
  <2>6. CASE UpdateSnapshot(r) \/ Compile(r)
    BY <1>1, <1>6, <2>6 DEF UpdateSnapshot, Compile, NeedsInv
  <2>7. CASE Finish(r)
    <3>1. pending'[r] \in Manifest
      <4>1. ComputeFingerprint(args[r].frag) \in Fingerprint
        BY <1>1, <2>7, FingerprintType DEF Finish, ArgsInv, Args, Active
      <4> QED
        BY <1>1, <2>7, <4>1 DEF Finish, FinishWith, Manifest
    <3> QED
      BY <1>1, <1>6, <2>7, <3>1 DEF Finish, FinishWith, NeedsInv
  <2>8. CASE Stop(r)
    BY <1>1, <1>6, <2>8 DEF Stop, HalfWritten, Quit, NeedsInv
  <2> QED
    BY <2>1, <2>2, <2>3, <2>4, <2>5, <2>6, <2>7, <2>8 DEF Step
<1> QED
  BY <1>2, <1>3, <1>4, <1>5, <1>7 DEF ShapeInv

\* So do edits and stuttering.
LEMMA ShapeStep == ShapeInv /\ [Next]_vars => ShapeInv'
<1> SUFFICES ASSUME ShapeInv, [Next]_vars PROVE ShapeInv'
  OBVIOUS
<1>1. ASSUME NEW r \in Runs, Start(r) \/ Step(r) \/ Stop(r) PROVE ShapeInv'
  BY <1>1, ShapeRun
<1>2. ASSUME TypeOK', UNCHANGED <<tree, stamp, build, pc, args, pending>>
      PROVE  ShapeInv'
  BY <1>2 DEF ShapeInv, OneActive, ArgsInv, NeedsInv
<1>3. ASSUME NEW f \in Edited, Edit(f) PROVE ShapeInv'
  BY <1>2, <1>3, TypeEdit DEF ShapeInv, Edit, toolsCache, private
<1>4. ASSUME NEW f \in Frags, DeleteSnapshot(f) PROVE ShapeInv'
  BY <1>2, <1>4, TypeEdit DEF ShapeInv, DeleteSnapshot, toolsCache, private
<1>5. CASE UNCHANGED vars
  <2>1. TypeOK'
    BY <1>5 DEF ShapeInv, TypeOK, vars
  <2> QED
    BY <1>2, <1>5, <2>1 DEF vars
<1> QED
  BY <1>1, <1>3, <1>4, <1>5 DEF Next

\* Initially no run is active and there is no file.
LEMMA ShapeInit == Init => ShapeInv
<1> SUFFICES ASSUME Init PROVE ShapeInv
  OBVIOUS
<1>1. TypeOK
  BY TypeInit
<1> QED
  BY <1>1 DEF Init, ShapeInv, OneActive, ArgsInv, NeedsInv, Active

\* Whatever is edited, fails or is killed, every file and every run has the type
\* of its content (TypeOK).
THEOREM TypeCorrect == Spec => []TypeOK
<1>1. ShapeInv => TypeOK
  BY DEF ShapeInv
<1> QED
  BY <1>1, ShapeInit, ShapeStep, PTL DEF Spec

\* No step of run_with_tools finds half of what it needs (StepsFindWhole): the
\* stamp goes before the tree is touched, so a tree that half a rebuild left
\* behind is never built with.
THEOREM StepsAlwaysFindWhole == Spec => []StepsFindWhole
<1>1. ShapeInv => StepsFindWhole
  BY DEF ShapeInv, NeedsInv, StepsFindWhole
<1> QED
  BY <1>1, ShapeInit, ShapeStep, PTL DEF Spec

\* A step of one run keeps what holds of the others.
LEMMA OthersKeepInv ==
    ASSUME CacheInv, NEW r \in Runs, Start(r) \/ Step(r) \/ Stop(r)
    PROVE  \A s \in Runs \ {r} : RunInv(s)'
<1>1. ShapeInv
  BY DEF CacheInv
<1>2. ASSUME NEW s \in Runs, s # r PROVE RunInv(s)'
  <2>1. RunInv(s)
    BY DEF CacheInv
  <2>2. /\ pc'[s] = pc[s] /\ pc[s] \notin Active
        /\ got'[s] = got[s] /\ staged'[s] = staged[s]
    BY <1>1, <1>2, OthersStay
  <2>3. GotInv(s)'
    BY <2>1, <2>2 DEF RunInv, GotInv, BuiltFrom
  <2> QED
    BY <2>2, <2>3 DEF RunInv, ArgsInv, StagedInv, KeyInv, RebuiltInv, TreeInv, SourceInv,
                      ConfigInv, CompiledInv, PendingInv, Active
<1> QED
  BY <1>2

-----------------------------------------------------------------------------
(* The steps of the run itself                                             *)

\* What a step of a run has to keep, besides the types and the other runs.
Kept(r) == RunInv(r) /\ StampInv /\ StampIsHonest /\ ManifestIsHonest

\* A step that ends the run's activity without success, the stamp and the
\* manifest being what they were or no whole files.
LEMMA EndKeeps ==
    ASSUME CacheInv, NEW r \in Runs, pc'[r] = "failed", UNCHANGED src,
           (stamp' = stamp /\ tree' = tree) \/ stamp' \in {None, Torn},
           manifest' \in {manifest, Torn}
    PROVE  Kept(r)'
<1>1. RunInv(r)'
  BY DEF RunInv, ArgsInv, StagedInv, KeyInv, RebuiltInv, TreeInv, SourceInv,
         ConfigInv, CompiledInv, PendingInv, GotInv, Active
<1>2. StampInv' /\ StampIsHonest'
  BY DEF CacheInv, StampInv, StampIsHonest
<1>3. ManifestIsHonest'
  BY DEF CacheInv, ManifestIsHonest, BuiltFrom
<1> QED
  BY <1>1, <1>2, <1>3 DEF Kept

\* Entry and the cache check: a hit hands out what the manifest describes.
LEMMA EntryKeeps ==
    ASSUME CacheInv, NEW r \in Runs,
           \/ Start(r) \/ StageFingerprint(r) \/ CheckHit(r) \/ CheckMiss(r)
    PROVE  Kept(r)'
<1> USE DEF TypeOK, Goto, inputs, toolsCache, kernelCache, private
<1>1. TypeOK /\ RunInv(r) /\ StampInv /\ StampIsHonest /\ ManifestIsHonest
  BY DEF CacheInv, ShapeInv
<1>2. UNCHANGED <<src, tree, stamp, manifest>>
  BY DEF Start, StageFingerprint, CheckHit, CheckMiss
<1>3. StampInv' /\ StampIsHonest' /\ ManifestIsHonest'
  BY <1>1, <1>2 DEF StampInv, StampIsHonest, ManifestIsHonest, BuiltFrom
<1> USE DEF RunInv, ArgsInv, StagedInv, KeyInv, RebuiltInv, TreeInv, SourceInv,
            ConfigInv, CompiledInv, PendingInv, GotInv, Active
<1>4. CASE Start(r)
  BY <1>1, <1>3, <1>4 DEF Start, Kept
<1>5. CASE StageFingerprint(r)
  <2>1. args[r] \in Args /\ args[r].frag \in Frags
    BY <1>1, <1>5 DEF StageFingerprint, Args
  <2>2. pc'[r] = "check" /\ args' = args /\ staged'[r] = ComputeFingerprint(args[r].frag)
    BY <1>1, <1>5 DEF StageFingerprint
  <2>3. StagedInv(r)'
    <3>1. ComputeFingerprint(args[r].frag) \in Fingerprint
      BY <1>1, <2>1, FingerprintType
    <3>2. src["patch"] \in Nat /\ src["config"] \in Nat /\ src["tools"] \in Nat
      BY <1>1 DEF Versions, Files
    <3> QED
      BY <1>2, <2>2, <3>1, <3>2 DEF ComputeFingerprint
  <2> QED
    BY <1>3, <2>1, <2>2, <2>3 DEF Kept
<1>6. CASE CheckHit(r)
  <2>1. /\ pc'[r] \in {"hitTools", "hit"} /\ UNCHANGED <<args, staged>>
        /\ got'[r] = manifest.vmlinuz /\ staged[r] = manifest.inputs
        /\ manifest \notin {None, Torn}
    BY <1>1, <1>6 DEF CheckHit, SameInputs
  <2>2. BuiltFrom(got[r], staged[r])'
    BY <1>1, <2>1 DEF ManifestIsHonest, BuiltFrom
  <2> QED
    BY <1>1, <1>2, <1>3, <1>6, <2>1, <2>2 DEF CheckHit, Kept
<1>7. CASE CheckMiss(r)
  BY <1>1, <1>2, <1>3, <1>7 DEF CheckMiss, Kept
<1> QED
  BY <1>4, <1>5, <1>6, <1>7

\* ensure_tools_tree: a hit has the tree its stamp names; while mkosi runs there
\* is no stamp; the stamp written is older than the tree or describes it.
LEMMA ToolsKeeps ==
    ASSUME CacheInv, NEW r \in Runs,
           ToolsCheck(r) \/ ToolsBuild(r) \/ ToolsStamp(r)
    PROVE  Kept(r)'
<1> USE DEF TypeOK, inputs, toolsCache, kernelCache, private
<1>1. TypeOK /\ RunInv(r) /\ StampInv /\ StampIsHonest /\ ManifestIsHonest
  BY DEF CacheInv, ShapeInv
<1>2. UNCHANGED <<src, manifest, args, staged, got>>
  BY DEF ToolsCheck, ToolsBuild, ToolsStamp
<1>3. ManifestIsHonest'
  BY <1>1, <1>2 DEF ManifestIsHonest, BuiltFrom
<1>4. src["tools"] \in Versions /\ src["tools"] \in Nat
  BY <1>1 DEF Versions, Files
<1>5. pc[r] \in Active \ {"fingerprint"}
  BY DEF ToolsCheck, ToolsBuild, ToolsStamp, Active
<1>6. /\ args[r] \in Args /\ args[r].packages \in Packages
      /\ staged[r].tools <= src["tools"]
  BY <1>1, <1>5 DEF RunInv, ArgsInv, StagedInv, Args
<1>7. /\ ArgsInv(r)' /\ StagedInv(r)'
  BY <1>1, <1>2, <1>5 DEF RunInv, ArgsInv, StagedInv
<1>8. /\ pc'[r] \in {"hitMkosi", "hitStamp", "hit"} =>
           pc[r] \in {"hitTools", "hitMkosi", "hitStamp"}
      /\ pc'[r] \in {"hitMkosi", "hitStamp", "hit", "mkosi", "stamp", "extract"}
  BY <1>1 DEF ToolsCheck, ToolsBuild, ToolsStamp, After
<1>9. SourceInv(r)' /\ ConfigInv(r)' /\ CompiledInv(r)' /\ PendingInv(r)' /\ GotInv(r)'
  BY <1>1, <1>2, <1>8
  DEF RunInv, SourceInv, ConfigInv, CompiledInv, PendingInv, GotInv, BuiltFrom
<1> DEFINE k == [conf |-> src["tools"], packages |-> args[r].packages]
<1>10. k \in ToolsTree /\ k \notin {None, Torn}
  BY <1>4, <1>6, WholeAssumption DEF ToolsTree
<1>11. CASE ToolsCheck(r) /\ stamp' = stamp
  <2>1. tree' = tree
    BY <1>11 DEF ToolsCheck
  <2>2. \/ pc'[r] = "hit"
        \/ pc'[r] = "extract" /\ stamp = k
        \/ stamp = None /\ pc'[r] \in {"hitMkosi", "mkosi"} /\ key' = [key EXCEPT ![r] = k]
    BY <1>1, <1>11 DEF ToolsCheck, After
  <2>3. pc'[r] = "extract" => tree = k
    BY <1>1, <1>10, <2>2 DEF StampIsHonest
  <2>4. KeyInv(r)' /\ RebuiltInv(r)' /\ TreeInv(r)'
    BY <1>1, <1>2, <1>4, <1>6, <1>10, <1>11, <2>1, <2>2, <2>3
    DEF KeyInv, RebuiltInv, TreeInv, Since
  <2> QED
    BY <1>1, <1>2, <1>3, <1>7, <1>9, <1>11, <2>1, <2>4 DEF Kept, RunInv, StampInv, StampIsHonest
<1>12. CASE ToolsCheck(r) /\ stamp' # stamp
  <2>1. stamp' = None /\ pc'[r] \in {"hitMkosi", "mkosi"} /\ key' = [key EXCEPT ![r] = k]
    BY <1>1, <1>12 DEF ToolsCheck, After
  <2>2. KeyInv(r)' /\ RebuiltInv(r)' /\ TreeInv(r)'
    BY <1>1, <1>2, <1>4, <1>10, <2>1 DEF KeyInv, RebuiltInv, TreeInv
  <2> QED
    BY <1>3, <1>7, <1>9, <2>1, <2>2 DEF Kept, RunInv, StampInv, StampIsHonest
<1>13. CASE ToolsBuild(r)
  <2>1. /\ pc[r] \in {"hitMkosi", "mkosi"} /\ pc'[r] \in {"hitStamp", "stamp"}
        /\ tree' = k /\ UNCHANGED <<stamp, key>>
    BY <1>1, <1>13 DEF ToolsBuild, After
  <2>2. stamp = None /\ key[r] \in ToolsTree /\ key[r].conf <= src["tools"]
        /\ key[r].packages = args[r].packages
    BY <1>1, <2>1 DEF RunInv, KeyInv
  <2>3. KeyInv(r)' /\ RebuiltInv(r)' /\ TreeInv(r)'
    BY <1>2, <1>4, <1>6, <1>10, <2>1, <2>2 DEF KeyInv, RebuiltInv, TreeInv, Since
  <2> QED
    BY <1>3, <1>7, <1>9, <2>1, <2>2, <2>3 DEF Kept, RunInv, StampInv, StampIsHonest
<1>14. CASE ToolsStamp(r)
  <2>1. /\ pc[r] \in {"hitStamp", "stamp"} /\ pc'[r] \in {"hit", "extract"}
        /\ pc'[r] = "extract" => pc[r] = "stamp"
        /\ stamp' = key[r] /\ tree' = tree
    BY <1>1, <1>14 DEF ToolsStamp, After
  <2>2. /\ key[r] \in ToolsTree /\ key[r].packages = args[r].packages
        /\ tree \in ToolsTree /\ tree.packages = args[r].packages
        /\ Since(key[r].conf, tree.conf, src["tools"])
        /\ key[r].conf <= src["tools"]
    BY <1>1, <2>1 DEF RunInv, KeyInv, RebuiltInv
  <2>3. StampInv'
    BY <1>2, <2>1, <2>2 DEF StampInv
  <2>4. key[r].conf = src["tools"] => tree = key[r]
    <3>1. key[r].conf = src["tools"] => tree.conf = key[r].conf
      BY <1>4, <2>2 DEF Since, Versions
    <3> QED
      BY <2>2, <3>1 DEF ToolsTree
  <2>5. StampIsHonest'
    BY <1>2, <2>1, <2>4 DEF StampIsHonest
  <2>6. KeyInv(r)' /\ RebuiltInv(r)' /\ TreeInv(r)'
    BY <1>1, <1>2, <2>1 DEF RunInv, KeyInv, RebuiltInv, TreeInv
  <2> QED
    BY <1>3, <1>7, <1>9, <2>3, <2>5, <2>6 DEF Kept, RunInv
<1> QED
  BY <1>11, <1>12, <1>13, <1>14

\* The build up to the kernel: each input is read after it was fingerprinted.
LEMMA BuildKeeps ==
    ASSUME CacheInv, NEW r \in Runs,
           Extract(r) \/ Configure(r) \/ UpdateSnapshot(r) \/ Compile(r)
    PROVE  Kept(r)'
<1> USE DEF TypeOK, Goto, inputs, toolsCache, kernelCache, private
<1>1. TypeOK /\ RunInv(r) /\ StampInv /\ StampIsHonest /\ ManifestIsHonest
  BY DEF CacheInv, ShapeInv
<1>2. UNCHANGED <<src, tree, stamp, manifest, args, staged>>
  BY DEF Extract, Configure, UpdateSnapshot, Compile
<1>3. StampInv' /\ StampIsHonest' /\ ManifestIsHonest'
  BY <1>1, <1>2 DEF StampInv, StampIsHonest, ManifestIsHonest, BuiltFrom
<1>4. /\ src["patch"] \in Versions /\ src["patch"] \in Nat
      /\ src["config"] \in Versions /\ src["config"] \in Nat
  BY <1>1 DEF Versions, Files
<1>5. /\ pc[r] \in {"extract", "configure", "snapshot", "compile"}
      /\ pc'[r] \in {"configure", "snapshot", "compile", "finish"}
  BY <1>1 DEF Extract, Configure, UpdateSnapshot, Compile
<1>6. /\ args[r] \in Args /\ args[r].frag \in Frags
      /\ staged[r].patch <= src["patch"] /\ staged[r].config <= src["config"]
  BY <1>1, <1>5 DEF RunInv, ArgsInv, StagedInv, Args, Active
<1>7. /\ ArgsInv(r)' /\ StagedInv(r)' /\ KeyInv(r)' /\ RebuiltInv(r)' /\ TreeInv(r)'
      /\ PendingInv(r)' /\ GotInv(r)'
  BY <1>1, <1>2, <1>5
  DEF RunInv, ArgsInv, StagedInv, KeyInv, RebuiltInv, TreeInv, PendingInv, GotInv, Active
<1>8. CASE Extract(r)
  BY <1>1, <1>2, <1>3, <1>4, <1>6, <1>7, <1>8
  DEF Extract, Extracted, Kept, RunInv, SourceInv, ConfigInv, CompiledInv, Since, Source
<1>9. CASE Configure(r)
  <2>1. /\ pc'[r] = "snapshot" /\ build \in Source
        /\ build' = [build EXCEPT !.config = src["config"], !.frag = args[r].frag]
        /\ Since(staged[r].patch, build.patch, src["patch"])
    BY <1>1, <1>9 DEF Configure, RunInv, SourceInv
  <2>2. /\ build' \in Source /\ build'.patch = build.patch
        /\ build'.config = src["config"] /\ build'.frag = args[r].frag
    BY <1>4, <1>6, <2>1 DEF Source
  <2>3. SourceInv(r)' /\ ConfigInv(r)' /\ CompiledInv(r)'
    BY <1>2, <1>4, <1>6, <2>1, <2>2 DEF SourceInv, ConfigInv, CompiledInv, Since
  <2> QED
    BY <1>3, <1>7, <2>3 DEF Kept, RunInv
<1>10. CASE UpdateSnapshot(r)
  BY <1>1, <1>2, <1>3, <1>7, <1>10
  DEF UpdateSnapshot, Kept, RunInv, SourceInv, ConfigInv, CompiledInv
<1>11. CASE Compile(r)
  <2>1. /\ build \in Source /\ build.frag = args[r].frag /\ tree \in ToolsTree
        /\ Since(staged[r].patch, build.patch, src["patch"])
        /\ Since(staged[r].config, build.config, src["config"])
        /\ Since(staged[r].tools, tree.conf, src["tools"])
    BY <1>1, <1>11 DEF Compile, RunInv, SourceInv, ConfigInv, TreeInv
  <2>2. CompiledInv(r)'
    BY <1>2, <1>11, <2>1 DEF Compile, CompiledInv, Kernel, Source, Since
  <2> QED
    BY <1>1, <1>3, <1>7, <1>11, <2>2 DEF Compile, Kept, RunInv, SourceInv, ConfigInv
<1> QED
  BY <1>8, <1>9, <1>10, <1>11

\* The end of a build: if the inputs hash as staged, whatever was read in
\* between hashed so too.
LEMMA FinishKeeps ==
    ASSUME CacheInv, NEW r \in Runs, Finish(r) \/ WriteManifest(r)
    PROVE  Kept(r)'
<1> USE DEF TypeOK, Goto, inputs, toolsCache, kernelCache, private
<1>1. TypeOK /\ RunInv(r) /\ StampInv /\ StampIsHonest /\ ManifestIsHonest
  BY DEF CacheInv, ShapeInv
<1>2. UNCHANGED <<src, tree, stamp, args, staged>>
  BY DEF Finish, FinishWith, WriteManifest
<1>3. StampInv' /\ StampIsHonest'
  BY <1>1, <1>2 DEF StampInv, StampIsHonest
<1>4. CASE Finish(r)
  <2> DEFINE now == ComputeFingerprint(args[r].frag)
  <2>1. /\ pc[r] = "finish" /\ pc'[r] = "write" /\ UNCHANGED manifest
        /\ pending'[r] = [inputs |-> now, vmlinuz |-> vmlinuz]
    BY <1>1, <1>4 DEF Finish, FinishWith
  <2>2. /\ vmlinuz \in Kernel /\ vmlinuz.frag = args[r].frag
        /\ Since(staged[r].patch, vmlinuz.patch, src["patch"])
        /\ Since(staged[r].config, vmlinuz.config, src["config"])
        /\ Since(staged[r].tools, vmlinuz.tools.conf, src["tools"])
    BY <1>1, <2>1 DEF RunInv, CompiledInv
  <2>3. /\ args[r] \in Args /\ args[r].frag \in Frags
        /\ staged[r] \in Fingerprint /\ staged[r].frag = args[r].frag
    BY <1>1, <2>1 DEF RunInv, ArgsInv, StagedInv, Args, Active
  <2>4. now \in Fingerprint
    BY <1>1, <2>3, FingerprintType
  <2>5. now = [staged[r] EXCEPT !.snapshot = now.snapshot]
    BY <1>4 DEF Finish, InputsUnchanged
  <2>6. /\ now.patch = src["patch"] /\ now.config = src["config"]
        /\ now.tools = src["tools"] /\ now.frag = args[r].frag
    BY DEF ComputeFingerprint
  <2> HIDE DEF now
  <2>7. /\ staged[r].patch = now.patch /\ staged[r].config = now.config
        /\ staged[r].tools = now.tools /\ staged[r].frag = now.frag
    BY <2>3, <2>4, <2>5 DEF Fingerprint
  <2>8. /\ vmlinuz.patch = now.patch /\ vmlinuz.config = now.config
        /\ vmlinuz.tools.conf = now.tools
    <3>1. now.patch \in Nat /\ now.config \in Nat /\ now.tools \in Nat
      BY <2>4 DEF Fingerprint, Versions
    <3> QED
      BY <2>2, <2>6, <2>7, <3>1 DEF Since, Versions
  <2>9. vmlinuz \notin {None, Torn}
    BY <2>2, WholeAssumption
  <2>10. PendingInv(r)'
    BY <1>2, <2>1, <2>2, <2>4, <2>6, <2>7, <2>8, <2>9 DEF PendingInv, BuiltFrom, Manifest
  <2>11. ManifestIsHonest'
    BY <1>1, <2>1 DEF ManifestIsHonest, BuiltFrom
  <2> QED
    BY <1>1, <1>2, <1>3, <2>1, <2>10, <2>11
    DEF Kept, RunInv, ArgsInv, StagedInv, KeyInv, RebuiltInv, TreeInv, SourceInv, ConfigInv,
        CompiledInv, GotInv, Active
<1>5. CASE WriteManifest(r)
  <2>1. /\ pc[r] = "write" /\ pc'[r] = "built"
        /\ manifest' = pending[r] /\ got'[r] = pending[r].vmlinuz
    BY <1>1, <1>5 DEF WriteManifest
  <2>2. /\ BuiltFrom(pending[r].vmlinuz, pending[r].inputs)
        /\ BuiltFrom(pending[r].vmlinuz, staged[r])
    BY <1>1, <2>1 DEF RunInv, PendingInv
  <2>3. ManifestIsHonest' /\ GotInv(r)'
    BY <1>2, <2>1, <2>2 DEF ManifestIsHonest, GotInv, BuiltFrom
  <2> QED
    BY <1>3, <2>1, <2>3
    DEF Kept, RunInv, ArgsInv, StagedInv, KeyInv, RebuiltInv, TreeInv, SourceInv, ConfigInv,
        CompiledInv, PendingInv, Active
<1> QED
  BY <1>4, <1>5

\* An edit only moves an input on, unless no run is active and the input is not
\* mkosi/kernel-builder, whose version the stamp of the tools tree names.
LEMMA EditKeeps ==
    ASSUME CacheInv, "tools" \notin Reverted, NEW f \in Edited, Edit(f)
    PROVE  CacheInv'
<1> USE DEF TypeOK, toolsCache, kernelCache, private
<1>1. /\ TypeOK /\ ShapeInv /\ StampInv /\ StampIsHonest /\ ManifestIsHonest
      /\ \A r \in Runs : RunInv(r)
  BY DEF CacheInv, ShapeInv
<1>2. TypeOK' /\ ShapeInv'
  BY <1>1, TypeEdit, ShapeStep DEF Next
<1>3. UNCHANGED <<tree, stamp, build, vmlinuz, manifest, pc, args, staged, key, pending, got>>
  BY DEF Edit
<1>4. /\ src["patch"] \in Nat /\ src["config"] \in Nat /\ src["tools"] \in Nat
      /\ src'["patch"] \in Nat /\ src'["config"] \in Nat /\ src'["tools"] \in Nat
  BY <1>1, <1>2 DEF Versions, Files
<1>5. /\ src["tools"] <= src'["tools"]
      /\ src["tools"] # src'["tools"] => src["tools"] < src'["tools"]
  BY <1>1, <1>4, EditedAssumption DEF Edit
<1>6. \/ Quiet
      \/ src["patch"] <= src'["patch"] /\ src["config"] <= src'["config"]
  BY <1>1, <1>4, EditedAssumption DEF Edit
<1>7. ManifestIsHonest'
  BY <1>1, <1>3 DEF ManifestIsHonest, BuiltFrom
<1>8. StampInv' /\ StampIsHonest'
  <2>1. stamp \notin {None, Torn} => stamp.conf \in Nat /\ stamp.conf <= src["tools"]
    BY <1>1 DEF StampInv, ToolsTree, Versions
  <2>2. stamp \notin {None, Torn} =>
          /\ stamp.conf <= src'["tools"]
          /\ stamp.conf = src'["tools"] => stamp.conf = src["tools"]
    BY <1>4, <1>5, <2>1
  <2> QED
    BY <1>1, <1>3, <2>2 DEF StampInv, StampIsHonest
<1>9. ASSUME NEW r \in Runs PROVE RunInv(r)'
  <2>1. RunInv(r)
    BY <1>1
  <2>2. GotInv(r)' /\ ArgsInv(r)' /\ PendingInv(r)'
    BY <1>3, <2>1 DEF RunInv, GotInv, ArgsInv, PendingInv, BuiltFrom
  <2>3. CASE pc[r] \notin Active
    BY <1>3, <2>2, <2>3 DEF RunInv, ArgsInv, StagedInv, KeyInv, RebuiltInv, TreeInv, SourceInv,
                            ConfigInv, CompiledInv, PendingInv, Active
  <2>4. CASE pc[r] \in Active
    <3>1. src["patch"] <= src'["patch"] /\ src["config"] <= src'["config"]
      BY <1>6, <2>4 DEF Quiet
    <3>2. ASSUME NEW s, NEW v, NEW x \in Files, Since(s, v, src[x])
          PROVE  Since(s, v, src'[x])
      <4>1. src[x] <= src'[x] /\ src[x] \in Nat /\ src'[x] \in Nat
        BY <1>4, <1>5, <3>1 DEF Files
      <4> QED
        BY <3>2, <4>1 DEF Since, Versions
    <3>3. StagedInv(r)'
      BY <1>3, <1>4, <1>5, <2>1, <3>1 DEF RunInv, StagedInv, Fingerprint, Versions
    <3>4. KeyInv(r)'
      BY <1>3, <1>4, <1>5, <2>1 DEF RunInv, KeyInv, ToolsTree, Versions
    <3>5. RebuiltInv(r)' /\ TreeInv(r)'
      BY <1>3, <2>1, <3>2 DEF RunInv, RebuiltInv, TreeInv, Files
    <3>6. SourceInv(r)' /\ ConfigInv(r)'
      BY <1>3, <2>1, <3>2 DEF RunInv, SourceInv, ConfigInv, Files
    <3>7. CompiledInv(r)'
      BY <1>3, <2>1, <3>2 DEF RunInv, CompiledInv, Files
    <3> QED
      BY <2>2, <3>3, <3>4, <3>5, <3>6, <3>7 DEF RunInv
  <2> QED
    BY <2>3, <2>4
<1> QED
  BY <1>2, <1>7, <1>8, <1>9 DEF CacheInv

\* A step that touches nothing but the lockfiles and the ghosts.
LEMMA FrameKeeps ==
    ASSUME CacheInv, ShapeInv',
           UNCHANGED <<src, tree, stamp, build, vmlinuz, manifest, pc, args, staged, key,
                       pending, got>>
    PROVE  CacheInv'
<1>1. StampInv' /\ StampIsHonest' /\ ManifestIsHonest'
  BY DEF CacheInv, StampInv, StampIsHonest, ManifestIsHonest, BuiltFrom
<1>2. ASSUME NEW r \in Runs PROVE RunInv(r)'
  <2>1. RunInv(r)
    BY DEF CacheInv
  <2> QED
    BY <2>1 DEF RunInv, ArgsInv, StagedInv, KeyInv, RebuiltInv, TreeInv, SourceInv, ConfigInv,
                CompiledInv, PendingInv, GotInv, BuiltFrom
<1> QED
  BY <1>1, <1>2 DEF CacheInv

-----------------------------------------------------------------------------
(* The cache is honest                                                     *)

\* Every step keeps the invariant.
LEMMA CacheStep ==
    ASSUME "tools" \notin Reverted
    PROVE  CacheInv /\ [Next]_vars => CacheInv'
<1> SUFFICES ASSUME CacheInv, [Next]_vars PROVE CacheInv'
  OBVIOUS
<1>0. ShapeInv' /\ TypeOK
  BY ShapeStep DEF CacheInv, ShapeInv
<1>1. ASSUME NEW r \in Runs, Start(r) \/ Step(r) \/ Stop(r) PROVE CacheInv'
  <2>1. \A s \in Runs \ {r} : RunInv(s)'
    BY <1>1, OthersKeepInv
  <2>2. Kept(r)'
    <3>1. CASE CheckCorrupt(r) \/ FinishChanged(r)
      <4>1. pc'[r] = "failed" /\ UNCHANGED <<src, stamp, tree, manifest>>
        BY <1>0, <3>1 DEF CheckCorrupt, FinishChanged, Quit, TypeOK, inputs, toolsCache,
                    kernelCache
      <4> QED
        BY <4>1, EndKeeps
    <3>2. CASE Stop(r)
      <4>1. pc'[r] = "failed" /\ UNCHANGED src /\ manifest' \in {manifest, Torn}
        BY <1>0, <3>2 DEF Stop, HalfWritten, Quit, TypeOK
      <4>2. (stamp' = stamp /\ tree' = tree) \/ stamp' \in {None, Torn}
        <5>1. pc[r] \in {"hitMkosi", "mkosi", "hitStamp", "stamp"} => stamp = None
          BY DEF CacheInv, RunInv, KeyInv
        <5> QED
          BY <3>2, <5>1 DEF Stop, HalfWritten
      <4> QED
        BY <4>1, <4>2, EndKeeps
    <3> QED
      BY <1>1, <3>1, <3>2, EntryKeeps, ToolsKeeps, BuildKeeps, FinishKeeps DEF Step
  <2> QED
    BY <1>0, <2>1, <2>2 DEF Kept, CacheInv
<1>2. ASSUME NEW f \in Edited, Edit(f) PROVE CacheInv'
  BY <1>2, EditKeeps
<1>3. ASSUME NEW f \in Frags, DeleteSnapshot(f) PROVE CacheInv'
  BY <1>0, <1>3, FrameKeeps DEF DeleteSnapshot, toolsCache, kernelCache, private
<1>4. CASE UNCHANGED vars
  BY <1>0, <1>4, FrameKeeps DEF vars
<1> QED
  BY <1>1, <1>2, <1>3, <1>4 DEF Next

\* Initially there is no cache.
LEMMA CacheInit == Init => CacheInv
<1> SUFFICES ASSUME Init PROVE CacheInv
  OBVIOUS
<1>1. ShapeInv
  BY ShapeInit
<1>2. \A r \in Runs : RunInv(r)
  BY DEF Init, RunInv, ArgsInv, StagedInv, KeyInv, RebuiltInv, TreeInv, SourceInv, ConfigInv,
         CompiledInv, PendingInv, GotInv, Active
<1> QED
  BY <1>1, <1>2 DEF Init, CacheInv, StampInv, StampIsHonest, ManifestIsHonest

\* If nobody takes mkosi/kernel-builder back to an earlier version, `confos kernel`
\* never hands out, from its cache or from a build, a kernel of other inputs than it fingerprinted (KernelIsCurrent).
THEOREM KernelStaysCurrent ==
    ASSUME "tools" \notin Reverted
    PROVE  Spec => []KernelIsCurrent
<1>1. CacheInv => KernelIsCurrent
  BY DEF CacheInv, RunInv, GotInv, KernelIsCurrent
<1> QED
  BY <1>1, CacheInit, CacheStep, PTL DEF Spec

\* Under the same condition no manifest describes a kernel that was built from
\* other inputs, whatever failed or was killed (ManifestIsHonest).
THEOREM ManifestStaysHonest ==
    ASSUME "tools" \notin Reverted
    PROVE  Spec => []ManifestIsHonest
<1>1. CacheInv => ManifestIsHonest
  BY DEF CacheInv
<1> QED
  BY <1>1, CacheInit, CacheStep, PTL DEF Spec

\* Under the same condition a stamp that ensure_tools_tree would accept is that
\* of a tree built completely from what it names (StampIsHonest).
THEOREM StampStaysHonest ==
    ASSUME "tools" \notin Reverted
    PROVE  Spec => []StampIsHonest
<1>1. CacheInv => StampIsHonest
  BY DEF CacheInv
<1> QED
  BY <1>1, CacheInit, CacheStep, PTL DEF Spec

-----------------------------------------------------------------------------
(* The cache converges                                                     *)

\* A step that leaves the run out of its check and of the write, and keeps the
\* inputs, the kernel and the manifest, or ends "nothing changed".
LEMMA FreshFrame ==
    ASSUME ConvergeInv, NEW r \in Runs, Start(r) \/ Step(r) \/ Stop(r),
           \/ last' = None
           \/ /\ UNCHANGED <<last, inputs, kernelCache>>
              /\ pc[r] # "write"
              /\ pc'[r] \notin {"check", "write", "tools"}
    PROVE  FreshInv' /\ SecondRunHits'
<1>1. ShapeInv /\ FreshInv /\ SecondRunHits
  BY DEF ConvergeInv
<1>2. \A s \in Runs \ {r} : pc'[s] = pc[s] /\ pc[s] \notin Active
  BY <1>1, OthersStay
<1>3. \A s \in Runs \ {r} : pc'[s] \notin {"check", "write", "tools"}
  BY <1>2 DEF Active
<1>4. CASE last' = None
  <2>1. FreshInv'
    BY <1>4 DEF FreshInv
  <2>2. SecondRunHits'
    <3>1. ASSUME NEW s \in Runs, pc'[s] = "tools" PROVE args'[s] \in Args
      <4>1. ShapeInv'
        BY <1>1, ShapeRun
      <4> QED
        BY <3>1, <4>1 DEF ShapeInv, ArgsInv, Active
    <3> QED
      BY <1>4, <3>1, WholeAssumption DEF SecondRunHits
  <2> QED
    BY <2>1, <2>2
<1>5. CASE UNCHANGED <<last, inputs, kernelCache>> /\ pc[r] # "write"
           /\ pc'[r] \notin {"check", "write", "tools"}
  <2>1. \A s \in Runs : pc'[s] \notin {"check", "write", "tools"}
    BY <1>3, <1>5
  <2>2. \A s \in Runs : pc[s] # "write"
    BY <1>2, <1>5 DEF Active
  <2>3. \A f : ComputeFingerprint(f)' = ComputeFingerprint(f)
    BY <1>5 DEF ComputeFingerprint, inputs
  <2> QED
    BY <1>1, <1>5, <2>1, <2>2, <2>3 DEF FreshInv, SecondRunHits, kernelCache
<1> QED
  BY <1>4, <1>5

\* Every step keeps the last build's manifest good for a second run.
LEMMA ConvergeStep == ConvergeInv /\ [Next]_vars => ConvergeInv'
<1> SUFFICES ASSUME ConvergeInv, [Next]_vars PROVE ConvergeInv'
  OBVIOUS
<1>1. ShapeInv /\ FreshInv /\ SecondRunHits /\ ShapeInv' /\ TypeOK
  BY ShapeStep DEF ConvergeInv, ShapeInv
<1> SUFFICES FreshInv' /\ SecondRunHits'
  BY <1>1 DEF ConvergeInv
<1> USE DEF TypeOK, Goto, private, toolsCache
<1>2. \A s \in Runs : pc'[s] = "tools" => args'[s] \in Args
  BY <1>1 DEF ShapeInv, ArgsInv, Active
\* An edit ends "nothing changed".
<1>3. ASSUME last' = None PROVE FreshInv' /\ SecondRunHits'
  BY <1>2, <1>3, WholeAssumption DEF FreshInv, SecondRunHits
<1>4. ASSUME NEW f \in Edited, Edit(f) PROVE FreshInv' /\ SecondRunHits'
  BY <1>3, <1>4 DEF Edit, Touch
<1>5. ASSUME NEW f \in Frags, DeleteSnapshot(f) PROVE FreshInv' /\ SecondRunHits'
  BY <1>3, <1>5 DEF DeleteSnapshot, Touch
<1>6. CASE UNCHANGED vars
  BY <1>1, <1>6 DEF vars, FreshInv, SecondRunHits, ComputeFingerprint
<1>7. ASSUME NEW r \in Runs, Start(r) \/ Step(r) \/ Stop(r)
      PROVE  FreshInv' /\ SecondRunHits'
  <2>1. \A s \in Runs \ {r} : pc'[s] = pc[s] /\ pc[s] \notin Active
    BY <1>1, <1>7, OthersStay
  <2>2. \A s \in Runs \ {r} : pc[s] \notin {"check", "write", "tools"}
    BY <2>1 DEF Active
  <2>3. CASE \/ Start(r) \/ CheckHit(r) \/ CheckCorrupt(r) \/ ToolsCheck(r) \/ ToolsBuild(r)
            \/ ToolsStamp(r) \/ Extract(r) \/ Configure(r) \/ UpdateSnapshot(r) \/ Compile(r)
            \/ FinishChanged(r) \/ Stop(r)
    <3>1. \/ last' = None
          \/ /\ UNCHANGED <<last, inputs, kernelCache>>
             /\ pc[r] # "write"
             /\ pc'[r] \notin {"check", "write", "tools"}
      BY <1>1, <2>3 DEF Start, Quiet, Active, CheckHit, CheckCorrupt, ToolsCheck, ToolsBuild,
         ToolsStamp, After, Extract, Configure, UpdateSnapshot, Compile, FinishChanged, Stop,
         Quit, Touch
    <3> QED
      BY <1>7, <3>1, FreshFrame
  <2>4. CASE StageFingerprint(r)
    <3>1. /\ UNCHANGED <<src, snapshot, vmlinuz, manifest, args, last, pending>>
          /\ pc[r] = "fingerprint" /\ pc'[r] = "check"
          /\ staged'[r] = ComputeFingerprint(args[r].frag)
      BY <1>1, <2>4 DEF StageFingerprint, inputs, kernelCache
    <3>2. \A f : ComputeFingerprint(f)' = ComputeFingerprint(f)
      BY <3>1 DEF ComputeFingerprint
    <3> QED
      BY <1>1, <2>1, <2>2, <3>1, <3>2 DEF FreshInv, SecondRunHits
  <2>5. CASE CheckMiss(r)
    <3>1. /\ UNCHANGED <<src, snapshot, vmlinuz, manifest, args, staged, last, pending>>
          /\ pc[r] = "check" /\ pc'[r] = "tools"
      BY <1>1, <2>5 DEF CheckMiss, inputs, kernelCache
    <3>2. \A f : ComputeFingerprint(f)' = ComputeFingerprint(f)
      BY <3>1 DEF ComputeFingerprint
    <3>3. \A s \in Runs : pc[s] # "write" /\ pc'[s] \notin {"check", "write"}
      BY <2>1, <2>2, <3>1
    <3>4. FreshInv'
      BY <1>1, <3>1, <3>2, <3>3 DEF FreshInv
    <3>5. ASSUME ~args[r].force, last = args[r] PROVE FALSE
      <4>1. last # None
        BY <1>2, <3>1, <3>5, WholeAssumption
      <4>2. /\ staged[r] = ComputeFingerprint(last.frag)
            /\ manifest \notin {None, Torn} /\ vmlinuz # None
            /\ manifest.inputs = ComputeFingerprint(last.frag)
        BY <1>1, <3>1, <3>3, <3>5, <4>1 DEF FreshInv
      <4> QED
        BY <2>5, <3>5, <4>2 DEF CheckMiss, SameInputs
    <3>6. SecondRunHits'
      BY <1>1, <2>1, <2>2, <3>1, <3>5 DEF SecondRunHits
    <3> QED
      BY <3>4, <3>6
  <2>6. CASE Finish(r)
    <3>1. /\ UNCHANGED <<src, snapshot, vmlinuz, manifest, args>>
          /\ pc'[r] = "write" /\ vmlinuz # None /\ last' = args[r]
          /\ pending'[r].inputs = ComputeFingerprint(args[r].frag)
      BY <1>1, <2>6 DEF Finish, FinishWith, inputs, kernelCache
    <3>2. \A f : ComputeFingerprint(f)' = ComputeFingerprint(f)
      BY <3>1 DEF ComputeFingerprint
    <3>3. \A s \in Runs : pc'[s] \notin {"check", "tools"} /\ (pc'[s] = "write" => s = r)
      BY <2>1, <2>2, <3>1
    <3> QED
      BY <3>1, <3>2, <3>3 DEF FreshInv, SecondRunHits
  <2>7. CASE WriteManifest(r)
    <3>1. /\ UNCHANGED <<src, snapshot, vmlinuz, args, last>>
          /\ pc[r] = "write" /\ pc'[r] = "built" /\ manifest' = pending[r]
      BY <1>1, <2>7 DEF WriteManifest, inputs
    <3>2. \A f : ComputeFingerprint(f)' = ComputeFingerprint(f)
      BY <3>1 DEF ComputeFingerprint
    <3>3. \A s \in Runs : pc'[s] \notin {"check", "tools", "write"}
      BY <2>1, <2>2, <3>1
    <3>4. pending[r] \notin {None, Torn}
      BY <1>1, <3>1, WholeAssumption DEF ShapeInv, NeedsInv
    <3> QED
      BY <1>1, <3>1, <3>2, <3>3, <3>4 DEF FreshInv, SecondRunHits
  <2> QED
    BY <1>7, <2>3, <2>4, <2>5, <2>6, <2>7 DEF Step
<1> QED
  BY <1>4, <1>5, <1>6, <1>7 DEF Next

\* A second run with the same arguments, nothing touched, finds the first one's
\* kernel, although a build rewrites the lockfile it fingerprints (SecondRunHits).
THEOREM CacheConverges == Spec => []SecondRunHits
<1>1. Init => ConvergeInv
  <2> SUFFICES ASSUME Init PROVE ConvergeInv
    OBVIOUS
  <2>1. ShapeInv
    BY ShapeInit
  <2> QED
    BY <2>1 DEF Init, ConvergeInv, FreshInv, SecondRunHits
<1>2. ConvergeInv => SecondRunHits
  BY DEF ConvergeInv
<1> QED
  BY <1>1, <1>2, ConvergeStep, PTL DEF Spec
=============================================================================
