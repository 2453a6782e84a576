# TLA+ models of confidential-os-builder

`confos` builds VM images for SEV-SNP and TDX whose launch measurements are
known in advance. What a relying party believes rests on a chain of files, of
computations and of small protocols: the checkout a build stages its inputs in,
the configuration and the cache its kernel comes from, the two crates that predict
what SEV-SNP and TDX will measure, the output directory sealed with a manifest,
and, in the guest, the registers that carry run-time measurements into
attestation reports. This directory models those seven, checks them with TLC and
proves their safety, wholly or in part, with TLAPS.

Paths below are relative to the repository: `src/commands/build.rs` and so on.

## 1. The system

| Part | State | Operations | Interacts with |
|---|---|---|---|
| **Checkout staging** (`commands/build.rs`) | `.confos-build.lock`, `mkosi.profiles/`, `mkosi.local/` with `.confos-sync-inputs`, `mkosi.output/` | lock, sweep, clear and write sync inputs, stage overlay and profiles, run mkosi, collect, drop guards | mkosi (child process), operator's `bin/confos-fetch-*`, kernel step, sealed output |
| **Kernel cache** (`commands/kernel.rs`, `commands/kernel/tools_tree.rs`, `kernel/*.rs`) | `output/kernel/{vmlinuz,manifest.json,build}`, tools tree and stamp, snapshot lockfiles | fingerprint, check, ensure tools, extract, configure, update snapshot, compile, verify, write | editors of its inputs, other `confos kernel` runs, `confos build` |
| **Sealed output** (`commands/{build,igvm,run}.rs`, `manifest.rs`) | `output/<name>`: UKI, disk, firmware copies, IGVM files, `manifest.json` | build seals, igvm derives variants, run boots | the firmware files it is given, push and pull |
| **Measurement registers** (`kernel/patches/0002-*.patch`) | 16 registers, event log, count, one spinlock | extend, read the log, commit a report request | user space in the guest, SNP firmware |
| push, pull | registry and a directory | publish, fetch | sealed output |
| mkosi runner (`tools.rs`) | child process, two reader threads | run, scan the output for live-mirror fetches, fail | every mkosi call |
| **IGVM builder** (`crates/igvm-tools`) | the builder's directives; IGVM file, manifest | parse OVMF metadata, lay out pages, contexts and HOBs, sort, walk as QEMU+KVM does, write | build, igvm, `ukify`, the kernel file |
| **TDX measurement** (`crates/tdx-measure`), **rtmr3-hook** (`crates/rtmr3-hook`) | CCEL copies, extracted platform files; RTMR[3] in the guest | measure, verify, extract-platform, rtmr3-from-images; the hook extends | build, TDVF, systemd-stub, kata-agent |
| initrd (`mkosi/initrd/mkosi.extra/init`) | mounts, device mapper | verity root, encrypted scratch, state binds, switch_root | kernel command line |
| Trusted AML (`kernel/patches/0001-*.patch`, `kernel/aml.rs`) | the loaded ACPI tables | accept the measured DSDT, reject others | kernel build |
| Attest endpoint, OCI workload | configfs-tsm, containers | quote, extend then start | measurement registers |
| **Kernel configuration merge** (`kernel/config.rs`, `verify_config` of `kernel/aml.rs`) | copies of the fragments, `.config` | stage, merge, resolve, check every request and the policy | kernel cache, Kconfig |
| GPU scripts, apt mirror, CLI, QEMU arguments, CI | files | fetch, verify, format | host |

What is hard here, and hardly reached by a test:

* a hard kill skips every destructor, so the *next* command recovers, and it has
  only the file system to tell a leftover from something it must not touch;
* mkosi is a child process and may outlive the process that holds the lock;
* inputs are read at several moments of commands that run for minutes;
* `confos kernel`, `confos igvm` and `confos run` take no lock;
* one build rewrites one of its own inputs (the snapshot lockfile);
* log readers in the kernel copy entries without the lock;
* report requests are resent from a buffer that was overwritten in between;
* Kconfig drops and adds symbols without a word, and the check reads fragments
  that the merge did not;
* the launch digest depends on the order in which QEMU flushes its batches, and on
  where a firmware happens to put its regions;
* predictions for TDX are made from a log of another boot, copied, perhaps damaged,
  perhaps half extracted;
* containers of one pod are created concurrently, and extends do not commute.

`PROJECT.json` lists each such hazard at its line with the properties aimed at it.

## 2. Modules

| Module | What it is |
|---|---|
| `Checkout` | staging protocol of `confos build` in one checkout |
| `KernelCache` | kernel cache and tools tree |
| `SealedOutput` | build, igvm and run on one output directory |
| `ConfigMerge` | the configure phase of a kernel build |
| `IgvmLaunch` | building and measuring an IGVM file |
| `TdxMeasure` | predicting and checking TDX measurements, and the RTMR[3] hook |
| `MeasurementRegisters` | the registers of kernel patch 0002 |
| `CommittedLog` | abstract specification: what those registers promise their users |
| `RegistersRefinement` | the refinement mapping from the one to the other |
| `MC…` | the instances for TLC: symmetry, firmware layouts, fragments, machines, a concrete `Hash` |
| `CheckoutProofs`, `KernelCacheProofs`, `SealedOutputProofs`, `ConfigMergeProofs`, `IgvmLaunchProofs`, `TdxMeasureProofs`, `MeasurementRegistersProofs` | theorems about the module of that name; the last one also that `MeasurementRegisters` implements `CommittedLog` |
| `Filters` | filters of sequences that proofs can expand |
| `SequenceInduction` | lemmas on sequences and induction shared by the proofs |

Definitions marked `Mutant:` are plausible bugs, each a variant of the
definition that follows it. They take part in no specification; each shows that
a property would notice such a bug.

### Checkout

One element of `Builds` is one `confos build` process; `pc` follows `run` in
program order, `Locked` being the steps under the flock. A profile directory is
who made it, whether the marker is in it and whether its content is complete.
Removing a tree is one step that may fail or be cut short half way
(`Remnants`): while the lock is held nobody observes the states in between.
`Kill` may hit anywhere and takes mkosi along (`"group"`) or not (`"process"`);
in the latter case `OrphanHook` and `OrphanEnds` are what mkosi still does.
`Prep` is the operator staging files by hand at any time.
`torn` (directories that lost their marker) and `swallowed` (builds whose drop
ignored an error) are ghost variables, needed to state what is promised to
whom. `result` tells an error before the guard of `mkosi.local` exists (`"early"`)
from a later one (`"err"`): only the later ones wipe the sync inputs. The mkosi run
that builds the initrd works in `mkosi/initrd`, on none of this state, and is part of
`StartMkosi`.

### KernelCache

A file is its content, and a hash is the content it is the hash of, so hash
comparison is equality. The thirteen hashed inputs are grouped by *when they are
read*: `patch` (patches, DSDT; at extraction), `config` (fragments, seed,
certificate; at configuration), `tools` (`mkosi/kernel-builder`; by mkosi).
A lineage (`Frags`) has a snapshot lockfile of its own; all lineages share the
build directory, `vmlinuz` and the manifest, as in the code. `HalfWritten` is what
a kill in the middle of a step leaves. Inputs are edited at any moment; the ones
in `Reverted` are also taken back to an earlier version while no command runs.
One command runs at a time (`Start` waits for `Quiet`), which the code assumes and
does not enforce.

### SealedOutput

Commands run one after another or (`Overlap`) concurrently on one directory; a
build is never concurrent with a build, since it holds the checkout lock. An
IGVM file is the triple (firmware, UKI, vCPU count), and so is its launch digest.
`mem` is the manifest a command holds in memory between reading and writing it.
The firmware is read (`ReadFirmware`), copied (`CopyFirmware`) and hashed again
(`MeasureTdx`, `ComposeManifest`) in the places the code does each. `run`
compares no hash, so `LaunchIsSealed` excepts files cut short by a kill.

### MeasurementRegisters

An extend is split at each store an unlocked reader could see: register, log
entry, count. On a full log an extend takes the lock, finds the log full and gives the lock
back (`ExtendRefused`, `ReturnRefused`). A commit runs under the lock in one step, since all it reads is
written under the lock. `buf` is the caller's request buffer, overwritten by
`Commit` and put back by `Restore`. `trail` is a ghost: the verifier's replay.

`CommittedLog` says the same without locks, copies and buffers: events append and
change the registers in one step, a commitment is one look at length and
registers, a report is of one commitment. `RegistersRefinement` maps an event's
arrival to the increment of the count, the last store of an extend; the
abstract register file is `trail[count]`, so that the registers may run ahead
while the lock is held; a held commitment is a buffer with a commitment in it.

### ConfigMerge

A fragment is the sequence of its lines and a line what it asks of one symbol.
`StageFragment` copies, `Configure` is `merge_config.sh` (last line wins),
`mod2yesconfig` and `olddefconfig`, all external: a symbol has the value asked
for unless something enabled selects it, a dependency is missing or it has no
prompt. `ReadFragment` reads the originals back. `Scan` is the loop of
`check_fragment_options` with its four maps, `CheckFragments` the checks after it
in the code's order, `PolicyHolds` what no fragment can waive
(`check_builder_invariants`, `check_lockdown` and `aml::verify_config`). The many
spellings the code calls ineffective are one kind of line.

### IgvmLaunch

Memory is counted in pages, a blob is the sequence of its pages, and the launch
digest, a hash chain, is the sequence of the records hashed. `step` follows
`do_build` and `build`; each `Add…` action is one call on the `Builder`, `Finalize`
the stable sort in which everything that is no page counts as address 0.
`MeasureNext` takes one directive of the walk of `measure_snp`: pages are
batched, a parameter area is measured at once and without flushing, contexts
are kept for the end. `Kill` may leave a torn IGVM file or manifest; `EditKernel`
replaces the kernel file at any moment. A vCPU's registers are its mode, code
segment base and offset; more vCPUs than have an index in 16 bits are refused.

### TdxMeasure

SHA-384 is taken to be injective: a digest is what was hashed, a register the
sequence of digests. The TD is external: `FirmwareEvents` and `ImageEvents` are
what TDVF, systemd-boot, systemd-stub and the kernel's EFI stub extend, in the
order the code's comments and golden tests record, and `MemoryMap` states the
memory map directly where `measure_td_hob` computes it by cutting ranges. On the
host a CCEL copy is whole or of another boot, or damaged: its header, cut between
records, torn inside one, a record lost, two exchanged, one without its SHA-384
digest, with other event data, or with data that cannot be read. A record has its digest and its
data apart, since a replay looks at the one and boot variables are predicted from the
other; nothing compares them. Of TD_HOB sections `measure` takes the last, of TD_CFV the
first. `extract-platform` writes its files one
at a time and may be killed between any two, in a directory used before. The walk
down the firmware's GUID table is one step per entry, because it is the one loop of
the crate whose end is not obvious. The hook of `rtmr3-hook` is three actions:
skip, refuse (or fail, at the write too), extend. `orderly` and the `of` fields are ghosts.

## 3. Runs

| Run | Shows |
|---|---|
| `checkout_profiles` | 2 builds, a shipped and two external profile names, both kinds of kill: mkosi merges this build's profiles only, shipped ones survive, collisions are real |
| `checkout_group` | 2 builds, a profile, a sync input and operator's prep, kills that take mkosi along: no stale sync input is read, images are a build's own, prep survives entry, cleanup leaves nothing, and every build ends (weak fairness) |
| `registers` | 2 tasks, a log of 2 entries that fills up, two digests, registers enabled: replay, reports, reads, growth, refinement of `CommittedLog`, and every call returns (weak fairness) |
| `kernel_cache` | 2 lineages, configuration and tools edited at any moment, configuration also taken back, kills everywhere: neither kernel, stamp nor manifest is mislabelled, every step finds the tools tree and the source whole, an unchanged second run hits |
| `sealed_serial` | build, igvm, run in sequence, firmware replaced in between, kills everywhere |
| `config` | 273 combinations of four fragments under 16 Kconfig worlds, the extra fragment edited at any moment |
| `igvm` | two commands out of some sixty command lines: six firmware layouts, three platforms, both boot modes, 1 and 3 vCPUs, four sets of blobs, kernel wrapped or not and replaced at any moment, kills everywhere |
| `tdx` | two machines (small, and large enough for split memory), a UKI and a direct-kernel image, eight kinds of damage, four sources of platform data, two containers at a time; any four operations interleaved |
| `checkout_marker`, `checkout_orphan`, `kernel_packages`, `sealed_platform` | counterexamples to statements the repository makes; see section 6 |

**Bounds.** Two builds are the one that dies and the one that recovers. With one
out-of-tree profile staged and one not, and one shipped, every case of the sweep and of
the collision check occurs. A log of two entries has an empty, a partly full and
a full state, and an extend can run in each while a reader copies. Two versions
of an input are enough for "same" and "changed"; `MaxVersion` bounds edits
during a command, not the number of commands, which is unbounded in
`KernelCache` and `SealedOutput`. Two counts in `--smp` make order and
replacement visible, and a list with 0 the refusal half way. One register is enough
for the registers, which share one lock, one log and one count, and two digests
tell orders apart. Fragments are varied around one symbol that is selected,
needed, without prompt, or on by default, as each world says, since the check
treats symbols independently of each other; the other symbols carry the policy. The firmwares of `igvm`
have parameter and HOB areas inside and outside of declared memory, memory from
page 0, special pages, empty entries, no metadata and no reset address. `tdx` puts
its faults where an extraction changes its meaning: at the separator, among the
ACPI events and the boot variables, and in RTMR[2]. `MaxOperations = 4` is a log
saved, extracted, a measure command and the boot it predicts, or any other four
of boots, copies, commands and containers. The theorems of section 5 do not depend
on any of these bounds.

**Deadlock** is not checked where the system may stop: a checkout in which every
build has ended, a machine on which nobody starts a command (`KernelCache`,
`IgvmLaunch`, `TdxMeasure`), a configure phase that has its verdict.

**Fairness.** `Fairness` of `Checkout` and of `MeasurementRegisters` is weak
fairness of what the program does next, per process or task: a running process
is scheduled, and a task in a system call runs on. No failure, kill, edit, start
or operator's action is fair. mkosi is taken to end, which the code relies on
too (it waits without a timeout). The kernel's spinlocks queue their waiters, hence strong
fairness of `Commit`, the only step of a call under way that waits for the lock: extends that a
full log refuses may take and release it forever. (An extend that waits has not begun
in the model.) `FairSpec` of `TdxMeasure` is weak
fairness of a measure command's own next step (`MeasureStep`), nothing else.

**Symmetry** permutes processes, package lists, firmwares and images, none of
which is named in a specification; it is not used with liveness properties.

## 4. Properties

*Checkout.* `ProfilesAreMine`, `SyncInputsAreMine`: what mkosi reads belongs to
the build it runs for, whatever died before. `InTreeIntact`: recovery never
removes a shipped profile. `CollisionIsReal`: a refusal is never for a leftover
the sweep could have taken. `OwnImage`: no mixed image. `PrepSurvivesEntry`,
`ExitLeavesNothing`: however a build ends, short of a kill or an ignored error, its
staged profiles and overlay are gone, and its sync inputs too unless the sweep or the
writing of them was what failed. `EveryBuildEnds`.

*KernelCache.* `KernelIsCurrent`, `ManifestIsHonest`: neither the kernel handed
out nor the manifest is mislabelled. `StampIsHonest`: a stamped tools tree is
whole. `StepsFindWhole`: what a run has passed over, reused or rebuilt is whole when a
later step reads it, whatever a killed run left. `SecondRunHits`: the cache converges.

*SealedOutput.* `SnpMeasuredAsRecorded`, `TdxMeasuredAsRecorded`: digests are of
the inputs the same manifest names. `LaunchIsSealed`: what run boots is what the
manifest describes. `EveryVariantHasEntry`, `DeriveKeepsSeal`, `DeriveDelivers`:
igvm extends and repairs, and takes nothing away.

*MeasurementRegisters.* `RegistersAreReplay`, `ReportsVerify`, `ReadsArePrefix`,
`NothingTakenBack`, `CallsReturn`, and `ImplementsCommittedLog`: seen from outside an
extend and a commit are atomic. With the registers off (`Enabled = FALSE`)
`ReportsVerify` says that a report carries the caller's own bytes; the theorem covers both values.

*ConfigMerge.* `RequestsAreHonoured`: whatever lines of other fragments come after
it, an accepted configuration honours the last boolean request. `ForcingIsReal`: a
forced marker passes only when Kconfig itself keeps the symbol on, never because of
a pin or a default. `MarkerPlaceIsFree`: moving markers changes no verdict.

*IgvmLaunch.* `MeasuredInOrder`, `MeasuredMemory`: the digest covers what the firmware
declares, once, with its type and in the order of the launch, and nothing else.
`HobsPointAtBlobs`: the list the firmware reads leads to the blobs.
`ManifestIsHonest`: a manifest that names the file on disk names its digest and,
unless it was wrapped, its kernel.

*TdxMeasure.* `PredictionMatchesBoot`: a prediction made with platform data and the disk
equals what a boot measures, if the platform data came from a log that shows that
machine (`Shows`: it holds what the boot extends into RTMR[0], and every boot variable
record the data its digest was taken of; `measure` checks neither).
`VerdictIsRight`: verify passes what it should and nothing else.
`WorkloadsAreMeasured`: nothing runs that RTMR[3] does not hold, and for containers
created one at a time the register is the computed one. `EveryMeasureEnds`.

## 5. Proofs

A proof module extends its component and `TLAPS`; every leaf is checked by SMT,
Zenon or, for the last temporal step, LS4. A theorem holds for every value of the
constants that satisfies the component's assumptions, so for any number of
processes, files, versions, lines or containers, where a run has two or three.

**MeasurementRegistersProofs**, for every set of tasks, registers, digests and
user data, every log size and every `Hash` that maps register contents to
register contents (`RegistersAssumption`, `NoEventAssumption`; `Hash` need not
be injective). `RegistersAreReplay` is not inductive: during an extend the register is ahead of
the log. `LockInv` says that only the lock holder is in an extend and that there is
room in the log; `AheadInv` says by exactly which event the registers, and then the log, are
ahead. `ReportsVerify` needs `RequestInv`: a buffer about to be committed holds
the caller's bytes, one about to be sent a commitment to the registers as
they were. `ReadsArePrefix` needs `SizeInv`: a reader's size never exceeds
the count. Theorems: `TypeCorrect`, `RegistersReplay`, `ReportsAlwaysVerify`,
`ReadersSeePrefix`, `LogOnlyGrows`.

The same module proves `DriverImplementsLog`, the refinement, from these invariants and `WantInv` (a request under way is for bytes of its caller).
Init maps to Init; `ExtendCount` maps to the event's arrival, `Commit` to the look at
length and registers, `SendRequest` to a report or, when the firmware refuses or the
registers are off, to none, `Restore` and a new `Request` to dropping the commitment, and
all other steps, resends among them, to none.
That the commitment mapped to is the right one is `AheadInv` with the lock free: the registers
are `trail[count]`. `NoCommitmentAssumption` says that the value for "no event" is no
commitment.

**CheckoutProofs**, for every set of builds, profiles and inputs
(`CheckoutAssumption`). `LockInv`: a build in a locked step holds the lock, so at
most one is. `WritingInv`: while inputs are written only this build's are there.
`ProfileInv` classifies every directory: absent, shipped, staged with its marker,
being made by the build in `stage`, or torn; each sweep and drop keeps
the classification, from which `InTreeIntact` and `ProfilesAreMine` follow and, with
`FreshInv`, `CollisionIsReal`. `ImageInv`: while the lock is held,
what lies in `mkosi.output` after this build's mkosi finished is this build's. `ImagesStayOwn`
assumes `KillScopes \subseteq {"group"}`, and `checkout_orphan` shows why.
`ExitLeavesNothing` needs `ExitInv`, which accounts for each thing a build put into
the checkout at every point of its run: a guard still to be dropped, a wipe still to
come, a kill, or a swallowed error. Theorems: `TypeCorrect`, `SyncInputsStayMine`,
`ShippedProfilesStay`, `ProfilesStayMine`, `CollisionsAreReal`, `PrepSurvives`,
`ImagesStayOwn`, `ExitIsClean`.

**KernelCacheProofs**, for every set of runs, lineages and package lists and any number of
edits (`KernelCacheAssumption`, `EditedAssumption`, and `WholeAssumption`: missing and
torn files are told from whole ones). `StepsAlwaysFindWhole` follows from `NeedsInv`, which
says for each step what it needs and that the stamp is gone while the tree is rebuilt. A kernel is assembled from inputs that are read
at several moments of a run, so `KernelIsCurrent` needs an interval: `RunInv` says of every
intermediate product that it was made from a version between the fingerprinted and
the present one. When the fingerprint taken at the end equals the first one, the
interval is a point, which is why `inputs_unchanged` is enough for edits that go
forwards, and for reverted ones while no command runs. The tools tree lives longer than a
run, so `KernelStaysCurrent`, `ManifestStaysHonest` and `StampStaysHonest` assume
`"tools" \notin Reverted`; section 6 has what happens otherwise. `CacheConverges` needs
`FreshInv`: as long as nothing was touched after a build, the manifest it wrote or is
about to write names the inputs as they are, the lockfile it rewrote included.

**SealedOutputProofs** (`SealedOutputAssumption`, `WholeAssumption`). `TypeCorrect` holds
without conditions. All others assume `~Overlap` and `EditMode = "between"`, the two
conditions section 6 explains: one command at a time, firmware replaced between commands.
`SerialInv` has one part per command: `BuildInv` (the directory is unsealed; the bytes
held are those of the source, the UKI and each IGVM file written so far), `DeriveInv`
(the manifest in memory extends the one on disk and passed the firmware check),
`RunInv` and `LaunchInv`; and `SealInv` for the directory between commands: whatever a kill
left, each file is missing, torn or the recorded one. The theorems are
`SnpStaysMeasured`, `TdxStaysMeasured`, `LaunchStaysSealed`, `EntriesStay` and, as
action properties, `DeriveExtends` and `DeriveSucceeds`.

**ConfigMergeProofs**, for every Kconfig, all texts of the fragments and all edits
between copying and checking. `ConfigAssumption` types the texts; `KconfigAssumption` says
that defaults are values and that a symbol of type string does not default to `y` or `m`.
`PhaseInv` says that a `.config` under check is one Kconfig resolves the copies to and
that a verdict is the judgement on what was read. The work is in what the loop of
`check_fragment_options` computes for sequences of any length: `ScannedAbout` says of each
of its maps which lines decide it (for `onoff` the last boolean line about the symbol),
by induction on the number of lines, and `MarkersFirstScanned` that moving the
markers to the front gives the same maps. Theorems: `RequestsStayHonoured`,
`ForcingStaysReal`, `MarkerPlaceStaysFree`.

**TdxMeasureProofs** proves `WorkloadsStayMeasured`, for pods of any size
(`ContainerAssumption`: what a reference consists of). That each running container was
measured *for itself* counts: `CountInv` says that RTMR[3] holds every hash exactly as
often as a hook extended it, failed containers included, which the property leaves out.
`OrderInv` says that without overlap only the last container is not yet done, so that an
extend appends to the register what the container appends to the references.
`VerdictStaysRight` is about logs. `VerdictInv` says that a verdict is that on the saved log and
on the TD that runs; the rest is what reading and replaying compute. `ReplayIsOf`: the
fold of `replay_rtmrs` and a filter by register are the same. `FileRight` goes through the faults: a
torn record is refused, a swap shows in a register or in none, and a log that lacks one
extend replays to no boot at all (`OneExtendShort`), because a boot makes a fixed number of
events and the boot order tells how many load options follow it. That needs
`PlatformAssumption` (boot orders list options there are, and no load option has the bytes of a
boot order) and `LogAssumption` (logs are no longer than `parse_ccel` takes).

`PredictionStaysRight` of the same module is about `measure`. Its invariant, `PredictInv`, says of the directory that
the files there are those of the log whose extraction completed last, of an extraction under way
that the first k variables are written, and of a prediction that it is right for the boot it
was made for. What the parts of a prediction compute is proved for all machines and images:

* *the TD HOB* (`HobIsMap`): cutting accepted ranges out of free ones, one section after the
  other in any order, gives the accepted sections and the gaps between them by rising
  address. `MemoryMap` states that without an order of cutting; the induction is over the
  sections cut so far;
* *MRTD, RTMR[1], RTMR[2]* (`MrtdIsLaunch`, `ImageRegisters`): page by page, and section by
  section in the stub's order, with the newlines a command line ends in;
* *what a damaged log tells* (`ShownData`): a log that reads as whole and replays to RTMR[0] of
  the boot is the log itself, a prefix, one event short or swapped, or the log with one
  record's data changed; in every case its ACPI digests are those of the platform, and so are its
  boot variables if their data are what the digests were taken of. A swap of two load
  options keeps digests and exchanges names, so that the files on disk depend on it; this is
  where two options with the same bytes are harmless and `PlatformAssumption` excludes two
  machines that differ in such an exchange;
* *RTMR[0]* (`Rtmr0IsRight`): from digests in the order of the log or of `BootOrder.bin`.

It needs `MachineAssumption` (sections that are accepted are disjoint, below the end of memory),
`ImageAssumption` (no section of a UKI twice, newlines at the end of a command line only) and
`MeasureAssumption` (what a command line can ask for).

**IgvmLaunchProofs**, for every firmware layout, every set of blobs, any number of vCPUs and
every way the kernel file is replaced and the command killed. `BuildInv` says what
the directives are after each call on the builder, `WalkInv` that the walk so far is the
walk over the directives before `at`, `ManifestInv` that file, digest and manifest belong to one
build. The work is in what the operators compute:

* *address by address* (`FileAt`): which page a finished file has at an address, from the
  order in which firmware, regions, HOBs and blobs are placed and removed. `PlaceBlobs` is a
  recursion over blobs, and placing one leaves the addresses of the others alone;
* *the sort* (`SortPages` is stable): the elements that pass a test come out in the order in
  which they went in when they share an address, so what is no page stays in front, in its order;
* *the walk* (`WalkHolds`): log and batch together are the parameters and then the pages met
  so far, although parameters are measured at once and pages are batched. Nothing was
  flushed before the parameters, because at most the page at address 0 precedes them.

Theorems: `HobsStayRight`, `ManifestStaysHonest`, `OrderStaysRight`, `MemoryStaysRight`.
`InputAssumption` says that no file is empty and that blobs, variables and firmware
fit in memory, `FirmwareAssumption` that the regions a firmware declares are below the
blobs and apart where the code puts pages; neither is checked by the code (section 6).

**SequenceInduction.** The induction theorems of the library take an operator as a
parameter, which the installed provers cannot instantiate. `SetInduction` is the same
principle about a *set* of numbers, from the least element of its complement; with
it the lemmas about `FlattenSeq` here, and those about `FoldLeft` in `ConfigMergeProofs`,
are first-order.

**Only model-checked.**

* `EveryBuildEnds`, `CallsReturn`, `EveryMeasureEnds`: liveness under fairness is
  outside what the proof system supports.
* The four runs that end in a counterexample, and the constants under which the
  conditional theorems fail.

## 6. What the code does and its comments do not say

Four statements have a run that ends in a counterexample; `PROJECT.json` quotes them.

* `checkout_marker`: the marker is written after the directory is created, and
  may be unlinked before the rest; a kill in between leaves a directory that
  every later build reports as an in-tree profile.
* `checkout_orphan`: the lock is confos's, the readers of the staged files are
  mkosi's.
* `kernel_packages`: the package list is in the stamp and not in the fingerprint.
* `sealed_platform`: igvm writes `both`, run knows `multi`.

The passing runs hold under assumptions that the code does not enforce, and that
the constants or the statements make explicit:

* one command at a time: neither `output/kernel` nor an output directory is locked
  by `confos kernel` and `confos igvm`. With `Overlap = TRUE` and two concurrent
  igvm commands `EveryVariantHasEntry` of `SealedOutput` fails (the second write of
  the manifest drops the first command's entry); overlapping kernel commands are not
  modelled;
* no edit of `mkosi/kernel-builder` during a tools build that is taken back later:
  the stamp is not verified after the build, and with `Reverted = {"tools"}`
  `StampIsHonest` fails;
* firmware replaced between commands only: a build measures the bytes of one
  read and records the hash of another, and with `EditMode = "any"`
  `TdxMeasuredAsRecorded` fails;
* fragments not edited between their copy and their check (`read = staged` in
  `ForcingIsReal`, which fails without it);
* a kernel file not replaced while it is wrapped: `igvm-tools` hashes `--kernel` for
  the manifest and `ukify` reads it again (`~m.cmdline` in its `ManifestIsHonest`,
  which fails without it);
* regions of a firmware that lie below the blobs and do not overlap, blobs that are not empty and
  do not reach the firmware at the top of memory (`FirmwareAssumption`, `InputAssumption`):
  `build` places pages without comparing addresses, and two directives for one page are
  both measured;
* no entry of length 0 in a firmware's GUID table (`TableAssumption`): `Tdvf::parse`
  would not move on;
* one TD_HOB and one TD_CFV section, accepted sections that are disjoint and end below
  the end of low memory, and
  measured sections without a tail of zeros (`MachineAssumption`): overlapping ranges are
  only a `debug_assert`, the last range is always reported as unaccepted, and
  `mrtd` hashes what follows in the file where the module hashes zeros;
* UKI sections with different names, and command lines in which newlines only end the text
  (`ImageAssumption`): of two sections with a name `precompute_rtmr2_digests` hashes the
  last, whatever the stub loads, and only newlines at the end are dropped before hashing;
* copies of a log in which each boot variable record still has the data of its digest
  (`Shows` in `PredictionMatchesBoot`): `BootVars::extract_from_ccel` takes the data, passes over
  what it cannot read, and never compares it with the digest, which is all that `verify`
  replays. The faults `data` and `unreadable` are in the run, and without the premise
  `PredictionMatchesBoot` fails;
* damage to a record's type or register number, and to a variable's name, is left out of
  the faults; so are control characters inside a command line;
* no two machines whose logs are the same but for an exchange of two load options
  (`PlatformAssumption`): the name of a variable is in the log and not in a digest, and
  `extract-platform` names files after it.

Noted while modelling, without a run of their own: `parse_ccel` says it rejects a log
that "ends without a proper terminator record" and accepts one cut between two
records (the comment at its end says so; `VerdictIsRight` holds because
such a log no longer replays); `parse_blk`'s result is ignored, so a metadata block that
breaks off keeps what was read before; `--platform native` always ends at the
measurement, for which an SNP platform is required; a zero-length blob removes the
first page at its address, which belongs to the blob after it; the JSON output of
`measure` does not say that RTMR[1] lacks the disk events when `--disk` was not given, as
the text output does, so that property excludes those predictions by how they were made and not
by what they say of themselves; a tools stamp that cannot be removed is ignored
(`tools_tree.rs:63`), which the model takes not to happen.

## 7. Not modelled

* *Formatting and parsing*: QEMU arguments, JSON, clap, the byte layouts of PE, GPT,
  FAT, CPIO, VMSA and HOB structures, the spelling rules of fragments and of path
  validators. Models say which bytes are hashed in which order, not where they lie.
* *Arithmetic widths*: the measurement crates use checked arithmetic and refuse on
  overflow; no property depends on a wrap.
* *push and pull*: each is a call of `oras`, and what can be said of them depends on
  its atomicity. `run --scratch` creates a file no other command reads.
* *The tee threads* of the mkosi runner: a thread that stops reading closes its pipe,
  and what follows is mkosi's reaction to EPIPE.
* *inspect* and `verify --uki` print; `igvm-tools measure` is the walk of `IgvmLaunch`
  over a file.
* *initrd, attest endpoint, OCI workload, GPU scripts, apt mirror, CI*: shell scripts that
  are sequential in themselves and whose concurrency is systemd's or a driver's.
* *The trusted AML patch*: which tables the kernel loads; its configuration
  is checked in `ConfigMerge`.

`PROJECT.json` has the reason per component.

## 8. What could follow

1. `Registry`: push and pull over the directory of `SealedOutput`, against the
   specification that a published image is a sealed one.
2. `GuestMeasure`: OCI workload and attest endpoint composed with `CommittedLog`.
3. `InitrdBoot`, `TrustedAml`.
