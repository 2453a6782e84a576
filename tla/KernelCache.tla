---------------------------- MODULE KernelCache -----------------------------
(***************************************************************************)
(* The kernel build cache of `confos kernel` and of `confos build`         *)
(* (src/src/commands/kernel.rs, kernel/tools_tree.rs, kernel_cache.rs).    *)
(*                                                                         *)
(* A run fingerprints its inputs, reuses output/kernel/vmlinuz if the      *)
(* manifest beside it has the same fingerprint and the file still has the  *)
(* hash recorded there, and otherwise builds: it ensures the tools tree    *)
(* (a cache of its own, keyed by a stamp), extracts and patches the source,*)
(* configures, rewrites the snapshot lockfile (itself an input), compiles, *)
(* fingerprints again and writes the manifest last.  Inputs may be edited  *)
(* while it runs, every step may fail, and a kill may leave half a file.   *)
(*                                                                         *)
(* A file is its content; a hash is the content it is the hash of.         *)
(***************************************************************************)
EXTENDS Naturals

CONSTANTS
    Runs,        \* processes running the kernel command, again and again
    Frags,       \* --kernel-config-fragment lineages, the bare one included
    Packages,    \* --kernel-builder-package lists
    Edited,      \* the input files someone edits, at any time
    Reverted,    \* those of them taken back, while no run is active
    MaxVersion,  \* bound on the versions an input file goes through
    None, Torn   \* a missing file; half a file

ASSUME KernelCacheAssumption ==
    /\ MaxVersion \in Nat
    /\ None # Torn

\* Inputs, by when they are read: the kernel patches and the DSDT while the
\* source is extracted, the config fragments, seed and certificate while it is
\* configured, mkosi/kernel-builder while the tools tree is built.
Files == {"patch", "config", "tools"}
ASSUME EditedAssumption == Edited \subseteq Files /\ Reverted \subseteq Edited
Versions == 0 .. MaxVersion

Args == [frag : Frags, packages : Packages, force : BOOLEAN, ensure : BOOLEAN]
ToolsTree == [conf : Versions, packages : Packages]
Source == [patch : Versions, config : Versions \cup {None}, frag : Frags]
Kernel == [patch : Versions, config : Versions, frag : Frags, tools : ToolsTree]
Snapshot == [config : Versions, frag : Frags]
Fingerprint == [patch : Versions, config : Versions, tools : Versions,
                frag : Frags, snapshot : Snapshot \cup {None, Torn}]
Manifest == [inputs : Fingerprint, vmlinuz : Kernel \cup {Torn}]

\* A whole file is neither a missing nor a torn one.
ASSUME WholeAssumption ==
    /\ {None, Torn} \cap Kernel = {} /\ {None, Torn} \cap ToolsTree = {}
    /\ {None, Torn} \cap Manifest = {}
    /\ None \notin Args

VARIABLES
    src,       \* the version each input file has now
    snapshot,  \* the snapshot lockfile of each lineage
    tree,      \* the tools tree
    stamp,     \* .confos-tools-stamp
    build,     \* output/kernel/build, the extracted source, while it is in use
    vmlinuz,   \* output/kernel/vmlinuz
    manifest,  \* output/kernel/manifest.json
    pc, args,  \* each run's progress and arguments
    staged,    \* the fingerprint it took before staging anything
    key,       \* the stamp key it computed
    pending,   \* the manifest it is about to write
    got,       \* ghost: the vmlinuz it reported to its caller
    last       \* ghost: arguments of the last run that built, if nothing was
               \* touched since it fingerprinted its inputs the second time

vars == <<src, snapshot, tree, stamp, build, vmlinuz, manifest, pc, args,
          staged, key, pending, got, last>>

inputs == <<src, snapshot>>
toolsCache == <<tree, stamp>>
kernelCache == <<vmlinuz, manifest>>
private == <<args, staged, key, pending, got>>

Active == {"fingerprint", "check", "hitTools", "tools", "hitMkosi", "mkosi",
           "hitStamp", "stamp", "extract", "configure", "snapshot", "compile",
           "finish", "write"}
Ended == {"hit", "built", "failed"}

TypeOK ==
    /\ src \in [Files -> Versions]
    /\ snapshot \in [Frags -> Snapshot \cup {None, Torn}]
    /\ tree \in ToolsTree \cup {None, Torn}
    /\ stamp \in ToolsTree \cup {None, Torn}
    /\ build \in Source \cup {None}
    /\ vmlinuz \in Kernel \cup {None, Torn}
    /\ manifest \in Manifest \cup {None, Torn}
    /\ pc \in [Runs -> {"idle"} \cup Active \cup Ended]
    /\ args \in [Runs -> Args \cup {None}]
    /\ staged \in [Runs -> Fingerprint \cup {None}]
    /\ key \in [Runs -> ToolsTree \cup {None}]
    /\ pending \in [Runs -> Manifest \cup {None}]
    /\ got \in [Runs -> Kernel \cup {None, Torn}]
    /\ last \in Args \cup {None}

Init ==
    /\ src = [f \in Files |-> 0]
    /\ snapshot = [f \in Frags |-> None]
    /\ tree = None /\ stamp = None /\ build = None
    /\ vmlinuz = None /\ manifest = None
    /\ pc = [r \in Runs |-> "idle"]
    /\ args = [r \in Runs |-> None]
    /\ staged = [r \in Runs |-> None]
    /\ key = [r \in Runs |-> None]
    /\ pending = [r \in Runs |-> None]
    /\ got = [r \in Runs |-> None]
    /\ last = None

Quiet == \A r \in Runs : pc[r] \notin Active
Goto(r, from, to) == pc[r] = from /\ pc' = [pc EXCEPT ![r] = to]

\* The process ends, by an error or a kill; its memory is gone.  What it leaves in
\* output/kernel/build is never read: the next build wipes it first.
Quit(r) ==
    /\ build' = None
    /\ pc' = [pc EXCEPT ![r] = "failed"]
    /\ args' = [args EXCEPT ![r] = None]
    /\ staged' = [staged EXCEPT ![r] = None]
    /\ key' = [key EXCEPT ![r] = None]
    /\ pending' = [pending EXCEPT ![r] = None]
    /\ got' = [got EXCEPT ![r] = None]

\* compute_fingerprint, of the files as they are now.
ComputeFingerprint(frag) ==
    [patch |-> src["patch"], config |-> src["config"], tools |-> src["tools"],
     frag |-> frag, snapshot |-> snapshot[frag]]

\* A run with other arguments, or a touched file, ends "nothing changed".
Touch == last' = None

-----------------------------------------------------------------------------
(* Entry and the cache check                                               *)

Start(r) ==
    /\ Quiet
    /\ pc' = [pc EXCEPT ![r] = "fingerprint"]
    /\ \E a \in Args : args' = [args EXCEPT ![r] = a]
    /\ staged' = [staged EXCEPT ![r] = None]
    /\ got' = [got EXCEPT ![r] = None]
    /\ UNCHANGED <<inputs, toolsCache, build, kernelCache, key, pending, last>>

StageFingerprint(r) ==
    /\ Goto(r, "fingerprint", "check")
    /\ staged' = [staged EXCEPT ![r] = ComputeFingerprint(args[r].frag)]
    /\ UNCHANGED <<inputs, toolsCache, build, kernelCache, args, key, pending,
                   got, last>>

\* Is there a manifest that parses, with this run's fingerprint?
SameInputs(r) ==
    /\ ~args[r].force
    /\ manifest \notin {None, Torn} /\ vmlinuz # None
    /\ manifest.inputs = staged[r]

\* Mutant: the file is not hashed again.
CheckHitUnhashed(r) ==
    /\ Goto(r, "check", IF args[r].ensure THEN "hitTools" ELSE "hit")
    /\ SameInputs(r)
    /\ got' = [got EXCEPT ![r] = vmlinuz]
    /\ UNCHANGED <<inputs, toolsCache, build, kernelCache, args, staged, key,
                   pending, last>>

\* The file is trusted only if it still has the recorded hash.
CheckHit(r) ==
    /\ Goto(r, "check", IF args[r].ensure THEN "hitTools" ELSE "hit")
    /\ SameInputs(r)
    /\ vmlinuz = manifest.vmlinuz
    /\ got' = [got EXCEPT ![r] = vmlinuz]
    /\ UNCHANGED <<inputs, toolsCache, build, kernelCache, args, staged, key,
                   pending, last>>

CheckCorrupt(r) ==
    /\ pc[r] = "check"
    /\ SameInputs(r)
    /\ vmlinuz # manifest.vmlinuz
    /\ Quit(r)
    /\ UNCHANGED <<inputs, toolsCache, kernelCache, last>>

CheckMiss(r) ==
    /\ Goto(r, "check", "tools")
    /\ ~SameInputs(r)
    /\ UNCHANGED <<inputs, toolsCache, build, kernelCache, private, last>>

-----------------------------------------------------------------------------
(* ensure_tools_tree, on the way to a build and after a cache hit           *)

After(r, hit, miss) ==
    \/ pc[r] \in {"hitTools", "hitMkosi", "hitStamp"}
       /\ pc' = [pc EXCEPT ![r] = hit]
    \/ pc[r] \in {"tools", "mkosi", "stamp"}
       /\ pc' = [pc EXCEPT ![r] = miss]

\* Mutant: the stale stamp stays while mkosi rebuilds the tree.
ToolsCheckKeepsStamp(r) ==
    /\ pc[r] \in {"hitTools", "tools"}
    /\ LET k == [conf |-> src["tools"], packages |-> args[r].packages]
           forced == pc[r] = "tools" /\ args[r].force
           hit == ~forced /\ tree # None /\ stamp = k
       IN  \/ hit /\ After(r, "hit", "extract") /\ UNCHANGED key
           \/ ~hit /\ After(r, "hitMkosi", "mkosi") /\ key' = [key EXCEPT ![r] = k]
    /\ UNCHANGED <<inputs, toolsCache, build, kernelCache, args, staged, pending,
                   got, last>>

\* On a cache hit the tools are ensured without --force.
ToolsCheck(r) ==
    /\ pc[r] \in {"hitTools", "tools"}
    /\ LET k == [conf |-> src["tools"], packages |-> args[r].packages]
           forced == pc[r] = "tools" /\ args[r].force
       IN  \/ /\ ~forced /\ tree # None /\ stamp = k
              /\ After(r, "hit", "extract")
              /\ UNCHANGED <<stamp, key>>
           \/ /\ forced \/ tree = None \/ stamp # k
              /\ After(r, "hitMkosi", "mkosi")
              /\ stamp' = None
              /\ key' = [key EXCEPT ![r] = k]
    /\ UNCHANGED <<inputs, tree, build, kernelCache, args, staged, pending, got,
                   last>>

\* mkosi reads its configuration now.
ToolsBuild(r) ==
    /\ pc[r] \in {"hitMkosi", "mkosi"}
    /\ After(r, "hitStamp", "stamp")
    /\ tree' = [conf |-> src["tools"], packages |-> args[r].packages]
    /\ UNCHANGED <<inputs, stamp, build, kernelCache, private, last>>

ToolsStamp(r) ==
    /\ pc[r] \in {"hitStamp", "stamp"}
    /\ After(r, "hit", "extract")
    /\ stamp' = key[r]
    /\ key' = [key EXCEPT ![r] = None]
    /\ UNCHANGED <<inputs, tree, build, kernelCache, args, staged, pending, got,
                   last>>

-----------------------------------------------------------------------------
(* The build                                                               *)

\* The build directory is wiped, the verified tarball extracted and patched.
Extracted(r) ==
    build' = [patch |-> src["patch"], config |-> None, frag |-> args[r].frag]

\* Mutant: the configure phase is skipped.
ExtractUnconfigured(r) ==
    /\ Goto(r, "extract", "snapshot")
    /\ Extracted(r)
    /\ UNCHANGED <<inputs, toolsCache, kernelCache, private, last>>

Extract(r) ==
    /\ Goto(r, "extract", "configure")
    /\ Extracted(r)
    /\ UNCHANGED <<inputs, toolsCache, kernelCache, private, last>>

Configure(r) ==
    /\ Goto(r, "configure", "snapshot")
    /\ build # None
    /\ build' = [build EXCEPT !.config = src["config"], !.frag = args[r].frag]
    /\ UNCHANGED <<inputs, toolsCache, kernelCache, private, last>>

\* update_snapshot: the resolved config becomes the lineage's lockfile.
UpdateSnapshot(r) ==
    /\ Goto(r, "snapshot", "compile")
    /\ build # None
    /\ snapshot' = [snapshot EXCEPT ![args[r].frag] =
                      [config |-> build.config, frag |-> build.frag]]
    /\ Touch
    /\ UNCHANGED <<src, toolsCache, build, kernelCache, private>>

Compile(r) ==
    /\ Goto(r, "compile", "finish")
    /\ build # None /\ build.config # None /\ tree \notin {None, Torn}
    /\ vmlinuz' = [patch |-> build.patch, config |-> build.config,
                   frag |-> build.frag, tools |-> tree]
    /\ build' = None
    /\ Touch
    /\ UNCHANGED <<inputs, toolsCache, manifest, private>>

\* Mutant: the config fragments are not compared either.
UnchangedButConfig(r) ==
    LET now == ComputeFingerprint(args[r].frag)
    IN  now = [staged[r] EXCEPT !.snapshot = now.snapshot, !.config = now.config]

\* verify_inputs_unchanged: all but the snapshot must hash as staged.
InputsUnchanged(r) ==
    LET now == ComputeFingerprint(args[r].frag)
    IN  now = [staged[r] EXCEPT !.snapshot = now.snapshot]

FinishWith(r, fp) ==
    /\ Goto(r, "finish", "write")
    /\ vmlinuz # None
    /\ pending' = [pending EXCEPT ![r] = [inputs |-> fp, vmlinuz |-> vmlinuz]]
    /\ last' = args[r]
    /\ UNCHANGED <<inputs, toolsCache, build, kernelCache, args, staged, key, got>>

\* Mutant: the fingerprint from before the snapshot was rewritten is recorded.
FinishRecordsStaged(r) ==
    /\ pc[r] = "finish"
    /\ InputsUnchanged(r)
    /\ FinishWith(r, staged[r])

\* The fingerprint recorded is the second one, with the new snapshot.
Finish(r) ==
    /\ pc[r] = "finish"
    /\ InputsUnchanged(r)
    /\ FinishWith(r, ComputeFingerprint(args[r].frag))

FinishChanged(r) ==
    /\ pc[r] = "finish"
    /\ ~InputsUnchanged(r)
    /\ Quit(r)
    /\ UNCHANGED <<inputs, toolsCache, kernelCache, last>>

WriteManifest(r) ==
    /\ Goto(r, "write", "built")
    /\ manifest' = pending[r]
    /\ got' = [got EXCEPT ![r] = pending[r].vmlinuz]
    /\ pending' = [pending EXCEPT ![r] = None]
    /\ UNCHANGED <<inputs, toolsCache, build, vmlinuz, args, staged, key, last>>

-----------------------------------------------------------------------------
(* Failures, kills and edits                                               *)

\* The file a step was writing is left as it was, or cut short.
HalfWritten(r) ==
    /\ IF pc[r] \in {"hitMkosi", "mkosi"} THEN tree' \in {tree, None, Torn}
                                          ELSE UNCHANGED tree
    /\ IF pc[r] \in {"hitStamp", "stamp"} THEN stamp' \in {stamp, Torn}
                                          ELSE UNCHANGED stamp
    /\ IF pc[r] = "snapshot"
         THEN snapshot' \in {snapshot, [snapshot EXCEPT ![args[r].frag] = Torn]}
         ELSE UNCHANGED snapshot
    /\ IF pc[r] = "compile" THEN vmlinuz' \in {vmlinuz, Torn}
                            ELSE UNCHANGED vmlinuz
    /\ IF pc[r] = "write" THEN manifest' \in {manifest, Torn}
                          ELSE UNCHANGED manifest

\* A step fails, or the process is killed in the middle of it.
Stop(r) ==
    /\ pc[r] \in Active
    /\ HalfWritten(r)
    /\ Quit(r)
    /\ Touch
    /\ UNCHANGED src

\* Someone edits an input, or checks an earlier version out again.
Edit(f) ==
    /\ \E v \in Versions :
         /\ \/ v = src[f] + 1
            \/ f \in Reverted /\ Quiet /\ v < src[f]
         /\ src' = [src EXCEPT ![f] = v]
    /\ Touch
    /\ UNCHANGED <<snapshot, toolsCache, build, kernelCache, pc, private>>

\* Someone deletes a snapshot lockfile.
DeleteSnapshot(f) ==
    /\ Quiet
    /\ snapshot[f] # None
    /\ snapshot' = [snapshot EXCEPT ![f] = None]
    /\ Touch
    /\ UNCHANGED <<src, toolsCache, build, kernelCache, pc, private>>

-----------------------------------------------------------------------------

Step(r) ==
    \/ StageFingerprint(r) \/ CheckHit(r) \/ CheckCorrupt(r) \/ CheckMiss(r)
    \/ ToolsCheck(r) \/ ToolsBuild(r) \/ ToolsStamp(r)
    \/ Extract(r) \/ Configure(r) \/ UpdateSnapshot(r) \/ Compile(r)
    \/ Finish(r) \/ FinishChanged(r) \/ WriteManifest(r)

Next ==
    \/ \E r \in Runs : Start(r) \/ Step(r) \/ Stop(r)
    \/ \E f \in Edited : Edit(f)
    \/ \E f \in Frags : DeleteSnapshot(f)

Spec == Init /\ [][Next]_vars

-----------------------------------------------------------------------------
(* Properties                                                              *)

\* Kernel k is what a build from the inputs with fingerprint fp produces.
BuiltFrom(k, fp) ==
    /\ k \notin {None, Torn}
    /\ k.patch = fp.patch /\ k.config = fp.config /\ k.frag = fp.frag
    /\ k.tools.conf = fp.tools

\* A run that succeeds, whether it built or reused, hands out a kernel built
\* from the inputs it fingerprinted: an edit during the build fails it, and
\* half a file, an older kernel or another lineage's is never a cache hit.
KernelIsCurrent ==
    \A r \in Runs : pc[r] \in {"hit", "built"} => BuiltFrom(got[r], staged[r])

\* The manifest never describes bytes that were not built from its inputs
\* (kernel.rs verify_inputs_unchanged), also after failed and killed runs.
ManifestIsHonest ==
    manifest \notin {None, Torn} => BuiltFrom(manifest.vmlinuz, manifest.inputs)

\* A stamp the next run would accept (tools_tree.rs ensure_tools_tree) is that of
\* a tree built, completely, from the configuration and package list it names:
\* neither a half-failed rebuild nor an edit during one is picked up as a hit.
StampIsHonest ==
    stamp \notin {None, Torn} /\ stamp.conf = src["tools"] => tree = stamp

\* Whatever failed, was killed or is left over from earlier runs, a run that gets
\* past the tools tree finds it whole, not what half a rebuild left behind; the
\* source and its configuration are there until the compile has read them
\* (kernel.rs run_with_tools, tools_tree.rs ensure_tools_tree).
StepsFindWhole ==
    \A r \in Runs :
        /\ pc[r] \in {"extract", "configure", "snapshot", "compile"} => tree \in ToolsTree
        /\ pc[r] \in {"configure", "snapshot", "compile"} => build \in Source
        /\ pc[r] \in {"snapshot", "compile"} => build.config \in Versions

\* The cache converges although a build rewrites one of its own inputs: a
\* second run with the same arguments, nothing touched, never rebuilds.
SecondRunHits ==
    \A r \in Runs : pc[r] = "tools" /\ ~args[r].force => last # args[r]

\* Claimed of the fingerprint: it covers all inputs that determine the output.
HitUsedMyPackages ==
    \A r \in Runs : pc[r] = "hit" => got[r].tools.packages = args[r].packages
=============================================================================
