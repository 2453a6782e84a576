---------------------------- MODULE SealedOutput ----------------------------
(***************************************************************************)
(* One sealed output directory, output/<name>, and the commands that share *)
(* it: `confos build` resets it and writes the manifest last, `confos igvm`*)
(* derives more IGVM variants into it, `confos run` boots from it          *)
(* (src/src/commands/build.rs, igvm.rs, run.rs; src/src/manifest.rs).      *)
(*                                                                         *)
(* A build holds the checkout lock; igvm and run hold none.  The firmware  *)
(* files the commands are given may be replaced, any command may fail or   *)
(* be killed in the middle of a write.                                     *)
(*                                                                         *)
(* A file is its content; a hash is the content it is the hash of.  An     *)
(* IGVM file is the firmware, the UKI and the vCPU count it bundles, and   *)
(* its launch digest is that same triple.                                  *)
(***************************************************************************)
EXTENDS Naturals

CONSTANTS
    Cmds,       \* processes, each running one command after another
    Smps,       \* vCPU counts, all at least 1
    SmpLists,   \* the --smp lists someone passes, with or without 0
    Firmwares,  \* contents of firmware files
    Images,     \* what mkosi builds: a UKI and its disk
    EditMode,   \* firmware is replaced "between" commands, or at "any" time
    Overlap,    \* may a command start while another is active?
    None, Torn  \* a missing file or value; half a file

ASSUME SealedOutputAssumption ==
    /\ Smps \subseteq Nat \ {0}
    /\ SmpLists \subseteq SUBSET (Smps \cup {0})
    /\ EditMode \in {"between", "any"}
    /\ Overlap \in BOOLEAN
    /\ None # Torn

Sides == {"snp", "tdx"}
Platforms == {"snp", "tdx", "both"}
NeedsSnp(p) == p \in {"snp", "both"}
NeedsTdx(p) == p \in {"tdx", "both"}
Needs(p, side) == IF side = "snp" THEN NeedsSnp(p) ELSE NeedsTdx(p)

\* run.rs ALLOWED_PLATFORMS, and the tags build and igvm write.
AllowedPlatforms == {"snp", "tdx", "multi", "generic"}
PlatformTag(p) == IF p = "both" THEN "multi" ELSE p
Tags == AllowedPlatforms \cup {"both"}

Igvm == [fw : Firmwares, uki : Images, smp : Smps]
Variant == [file : Igvm, digest : Igvm]
Tdx == [fw : Firmwares, mrtd : Firmwares, uki : Images, disk : Images]
Manifest == [platform : Tags, uki : Images \cup {None}, disk : Images \cup {None},
             fw : Firmwares \cup {None}, variants : [Smps -> Variant \cup {None}],
             tdx : Tdx \cup {None}]
Bytes == [snp : Firmwares \cup {None}, tdx : Firmwares \cup {None},
          uki : Images \cup {None}]

\* What is whole is neither missing nor torn.
ASSUME WholeAssumption ==
    /\ {None, Torn} \cap Images = {} /\ {None, Torn} \cap Firmwares = {}
    /\ {None, Torn} \cap Manifest = {} /\ None \notin Variant

BuildArgs == [cmd : {"build"}, platform : Platforms, smps : SmpLists]
DeriveArgs == [cmd : {"igvm"}, smps : SmpLists \ {{}}]
RunArgs == [cmd : {"run"}, tier : {"snp", "kvm"}, smp : Smps \cup {None},
            override : BOOLEAN]
Launch == [tier : {"snp"}, file : Igvm \cup {Torn}, digest : Igvm]
          \cup [tier : {"kvm"}, uki : Images \cup {Torn},
                fw : Firmwares \cup {Torn}, override : BOOLEAN]

VARIABLES
    source,    \* the firmware files given to the commands, one per side
    uki, disk, \* uki.efi and disk.raw
    ovmf,      \* OVMF.fd and OVMF.tdx.fd
    igvm,      \* guest-smp<N>.igvm
    manifest,  \* manifest.json
    pc, args,  \* each command's progress and arguments
    mem,       \* the manifest it holds in memory
    bytes,     \* the firmware and UKI bytes it read
    todo,      \* the vCPU counts it has still to build
    launched,  \* what it handed to QEMU
    derived    \* ghost: vCPU counts built by commands that succeeded

vars == <<source, uki, disk, ovmf, igvm, manifest, pc, args, mem, bytes, todo,
          launched, derived>>

directory == <<uki, disk, ovmf, igvm, manifest>>
private == <<args, mem, bytes, todo, launched>>

Building == {"reset", "uki", "read", "igvm", "firmware", "disk", "tdx", "seal",
             "write"}
Active == Building \cup {"dRead", "dCheck", "dOvmf", "dBytes", "dIgvm", "dWrite",
                         "rRead", "rLaunch"}
Ended == {"sealed", "derived", "launched", "failed"}

TypeOK ==
    /\ source \in [Sides -> Firmwares]
    /\ uki \in Images \cup {None, Torn}
    /\ disk \in Images \cup {None, Torn}
    /\ ovmf \in [Sides -> Firmwares \cup {None, Torn}]
    /\ igvm \in [Smps -> Igvm \cup {None, Torn}]
    /\ manifest \in Manifest \cup {None, Torn}
    /\ pc \in [Cmds -> {"idle"} \cup Active \cup Ended]
    /\ args \in [Cmds -> BuildArgs \cup DeriveArgs \cup RunArgs \cup {None}]
    /\ mem \in [Cmds -> Manifest \cup {None}]
    /\ bytes \in [Cmds -> Bytes \cup {None}]
    /\ todo \in [Cmds -> SUBSET (Smps \cup {0})]
    /\ launched \in [Cmds -> Launch \cup {None}]
    /\ derived \in SUBSET Smps

Init ==
    /\ source \in [Sides -> Firmwares]
    /\ uki = None /\ disk = None /\ manifest = None
    /\ ovmf = [s \in Sides |-> None]
    /\ igvm = [n \in Smps |-> None]
    /\ pc = [c \in Cmds |-> "idle"]
    /\ args = [c \in Cmds |-> None]
    /\ mem = [c \in Cmds |-> None]
    /\ bytes = [c \in Cmds |-> None]
    /\ todo = [c \in Cmds |-> {}]
    /\ launched = [c \in Cmds |-> None]
    /\ derived = {}

Quiet == \A c \in Cmds : pc[c] \notin Active
Goto(c, from, to) == pc[c] = from /\ pc' = [pc EXCEPT ![c] = to]
NoVariants == [n \in Smps |-> None]
Sealed(m) == m \notin {None, Torn}

Enter(c, to, a, n) ==
    /\ pc[c] \notin Active
    /\ Overlap \/ Quiet
    /\ pc' = [pc EXCEPT ![c] = to]
    /\ args' = [args EXCEPT ![c] = a]
    /\ todo' = [todo EXCEPT ![c] = n]
    /\ mem' = [mem EXCEPT ![c] = None]
    /\ bytes' = [bytes EXCEPT ![c] = None]
    /\ launched' = [launched EXCEPT ![c] = None]

\* The process ends; its memory is gone.
Exit(c, to) ==
    /\ pc' = [pc EXCEPT ![c] = to]
    /\ args' = [args EXCEPT ![c] = None]
    /\ todo' = [todo EXCEPT ![c] = {}]
    /\ mem' = [mem EXCEPT ![c] = None]
    /\ bytes' = [bytes EXCEPT ![c] = None]
    /\ UNCHANGED launched

-----------------------------------------------------------------------------
(* confos build, from the moment it owns the directory                     *)

\* One build at a time: it holds the checkout lock.
BuildStart(c) ==
    /\ \A d \in Cmds : pc[d] \notin Building
    /\ \E a \in BuildArgs : Enter(c, "reset", a, a.smps)
    /\ UNCHANGED <<source, directory, derived>>

ResetOutput(c) ==
    /\ Goto(c, "reset", "uki")
    /\ uki' = None /\ disk' = None /\ manifest' = None
    /\ ovmf' = [s \in Sides |-> None]
    /\ igvm' = [n \in Smps |-> None]
    /\ derived' = {}
    /\ UNCHANGED <<source, private>>

\* mkosi is done and its UKI is moved into the directory.
MoveUki(c) ==
    /\ Goto(c, "uki", "read")
    /\ \E i \in Images : uki' = i
    /\ UNCHANGED <<source, disk, ovmf, igvm, manifest, private, derived>>

\* The firmware of each platform and the UKI are read once.
ReadFirmware(c) ==
    LET p == args[c].platform
        of(side) == IF Needs(p, side) THEN source[side] ELSE None
    IN  /\ Goto(c, "read", IF NeedsSnp(p) THEN "igvm" ELSE "firmware")
        /\ uki \in Images
        /\ bytes' = [bytes EXCEPT ![c] =
                       [snp |-> of("snp"), tdx |-> of("tdx"), uki |-> uki]]
        /\ mem' = [mem EXCEPT ![c] =
                     [platform |-> PlatformTag(p), uki |-> None, disk |-> None,
                      fw |-> None, variants |-> NoVariants, tdx |-> None]]
        /\ UNCHANGED <<source, directory, args, todo, launched, derived>>

\* igvm::invoke::build_snp on the bytes in memory; its measurement.
BuildSnp(c, n) == [fw |-> bytes[c].snp, uki |-> bytes[c].uki, smp |-> n]

\* The file is written and hashed, its entry replaced or appended.
PutVariant(c, n) ==
    LET f == BuildSnp(c, n)
    IN  /\ igvm' = [igvm EXCEPT ![n] = f]
        /\ mem' = [mem EXCEPT ![c].variants[n] = [file |-> f, digest |-> f]]

\* The counts are sorted: the smallest is next, and 0 stops the build.
BuildVariant(c) ==
    /\ pc[c] = "igvm"
    /\ \E n \in todo[c] \ {0} :
         /\ \A m \in todo[c] : n <= m
         /\ PutVariant(c, n)
         /\ todo' = [todo EXCEPT ![c] = @ \ {n}]
         /\ pc' = [pc EXCEPT ![c] = IF todo[c] = {n} THEN "firmware" ELSE @]
    /\ UNCHANGED <<source, uki, disk, ovmf, manifest, args, bytes, launched,
                   derived>>

\* --smp empty, or 0 in it.
BuildRefuses(c) ==
    /\ pc[c] = "igvm"
    /\ todo[c] = {} \/ 0 \in todo[c]
    /\ Exit(c, "failed")
    /\ UNCHANGED <<source, directory, derived>>

CopyFirmware(c) ==
    /\ Goto(c, "firmware", "disk")
    /\ ovmf' = [s \in Sides |-> IF Needs(args[c].platform, s) THEN source[s]
                                                            ELSE ovmf[s]]
    /\ UNCHANGED <<source, uki, disk, igvm, manifest, private, derived>>

MoveDisk(c) ==
    /\ Goto(c, "disk", IF NeedsTdx(args[c].platform) THEN "tdx" ELSE "seal")
    /\ disk' = bytes[c].uki
    /\ UNCHANGED <<source, uki, ovmf, igvm, manifest, private, derived>>

\* Mutant: the SNP firmware is recorded, both files being named OVMF.fd.
MeasureTdxSnpFirmware(c) ==
    /\ Goto(c, "tdx", "seal")
    /\ disk \in Images
    /\ mem' = [mem EXCEPT ![c].tdx =
                 [fw |-> source["snp"], mrtd |-> bytes[c].tdx,
                  uki |-> bytes[c].uki, disk |-> disk]]
    /\ UNCHANGED <<source, directory, args, bytes, todo, launched, derived>>

\* Measured from the bytes read; the firmware file itself is hashed now.
MeasureTdx(c) ==
    /\ Goto(c, "tdx", "seal")
    /\ disk \in Images
    /\ mem' = [mem EXCEPT ![c].tdx =
                 [fw |-> source["tdx"], mrtd |-> bytes[c].tdx,
                  uki |-> bytes[c].uki, disk |-> disk]]
    /\ UNCHANGED <<source, directory, args, bytes, todo, launched, derived>>

\* The UKI in the directory and the SNP firmware file are hashed; the disk's
\* checksum is mkosi's.
ComposeManifest(c) ==
    /\ Goto(c, "seal", "write")
    /\ uki \in Images
    /\ mem' = [mem EXCEPT ![c].uki = uki, ![c].disk = bytes[c].uki,
                          ![c].fw = IF NeedsSnp(args[c].platform)
                                      THEN source["snp"] ELSE None]
    /\ UNCHANGED <<source, directory, args, bytes, todo, launched, derived>>

WriteManifest(c) ==
    /\ pc[c] = "write"
    /\ Exit(c, "sealed")
    /\ manifest' = mem[c]
    /\ derived' = {n \in Smps : mem[c].variants[n] # None}
    /\ UNCHANGED <<source, uki, disk, ovmf, igvm>>

-----------------------------------------------------------------------------
(* confos igvm                                                             *)

DeriveStart(c) ==
    /\ \E a \in DeriveArgs : Enter(c, "dRead", a, a.smps)
    /\ UNCHANGED <<source, directory, derived>>

DeriveRead(c) ==
    /\ Goto(c, "dRead", "dCheck")
    /\ uki # None /\ Sealed(manifest)
    /\ mem' = [mem EXCEPT ![c] = manifest]
    /\ UNCHANGED <<source, directory, args, bytes, todo, launched, derived>>

\* Mutant: an intact IGVM file is enough, whatever firmware is supplied.
CheckUkiOnly(c) ==
    /\ Goto(c, "dCheck", "dOvmf")
    /\ uki = mem[c].uki
    /\ mem' = [mem EXCEPT ![c].fw = source["snp"]]
    /\ UNCHANGED <<source, directory, args, bytes, todo, launched, derived>>

\* prepare_inputs: the UKI and the supplied firmware are the sealed ones.
CheckInputs(c) ==
    /\ Goto(c, "dCheck", "dOvmf")
    /\ uki = mem[c].uki
    /\ \/ mem[c].fw = source["snp"]
       \/ mem[c].fw = None /\ mem[c].variants = NoVariants
    /\ mem' = [mem EXCEPT ![c].fw = source["snp"]]
    /\ UNCHANGED <<source, directory, args, bytes, todo, launched, derived>>

\* Mutant: whatever OVMF.fd is there is used.
PrepareOvmfUnchecked(c) ==
    /\ Goto(c, "dOvmf", "dBytes")
    /\ \/ ovmf["snp"] # None /\ UNCHANGED ovmf
       \/ ovmf["snp"] = None /\ ovmf' = [ovmf EXCEPT !["snp"] = source["snp"]]
    /\ UNCHANGED <<source, uki, disk, igvm, manifest, private, derived>>

\* OVMF.fd must be that firmware; it is copied from the source if missing.
PrepareOvmf(c) ==
    /\ Goto(c, "dOvmf", "dBytes")
    /\ \/ ovmf["snp"] = mem[c].fw /\ UNCHANGED ovmf
       \/ ovmf["snp"] = None /\ ovmf' = [ovmf EXCEPT !["snp"] = source["snp"]]
    /\ UNCHANGED <<source, uki, disk, igvm, manifest, private, derived>>

ReadInputs(c) ==
    /\ Goto(c, "dBytes", "dIgvm")
    /\ ovmf["snp"] \in Firmwares /\ uki \in Images
    /\ bytes' = [bytes EXCEPT ![c] =
                   [snp |-> ovmf["snp"], tdx |-> None, uki |-> uki]]
    /\ UNCHANGED <<source, directory, args, mem, todo, launched, derived>>

\* Mutant: the entry is trusted although its file is missing or changed.
UnchangedByEntry(c, n) == mem[c].variants[n] # None

\* The manifest has the variant and its file still has the recorded hash.
VariantUnchanged(c, n) ==
    mem[c].variants[n] # None /\ igvm[n] = mem[c].variants[n].file

\* Mutant: a count of 0 is skipped, not refused.
DeriveSkipsZero(c) ==
    /\ pc[c] = "dIgvm"
    /\ \E n \in todo[c] :
         /\ \/ n = 0 /\ UNCHANGED <<igvm, mem>>
            \/ n # 0 /\ VariantUnchanged(c, n) /\ UNCHANGED <<igvm, mem>>
            \/ n # 0 /\ ~VariantUnchanged(c, n) /\ PutVariant(c, n)
         /\ todo' = [todo EXCEPT ![c] = @ \ {n}]
         /\ pc' = [pc EXCEPT ![c] = IF todo[c] = {n} THEN "dWrite" ELSE @]
    /\ UNCHANGED <<source, uki, disk, ovmf, manifest, args, bytes, launched,
                   derived>>

\* One count of --smp, in whatever order they were given.
DeriveVariant(c) ==
    /\ pc[c] = "dIgvm"
    /\ \E n \in todo[c] \ {0} :
         /\ \/ VariantUnchanged(c, n) /\ UNCHANGED <<igvm, mem>>
            \/ ~VariantUnchanged(c, n) /\ PutVariant(c, n)
         /\ todo' = [todo EXCEPT ![c] = @ \ {n}]
         /\ pc' = [pc EXCEPT ![c] = IF todo[c] = {n} THEN "dWrite" ELSE @]
    /\ UNCHANGED <<source, uki, disk, ovmf, manifest, args, bytes, launched,
                   derived>>

\* Mutant: only the variants asked for now are kept.
DeriveWriteOnlyMine(c) ==
    /\ pc[c] = "dWrite"
    /\ Exit(c, "derived")
    /\ manifest' = [mem[c] EXCEPT
                      !.variants = [n \in Smps |-> IF n \in args[c].smps
                                                     THEN @[n] ELSE None],
                      !.platform = IF mem[c].tdx # None THEN "both" ELSE "snp"]
    /\ derived' = derived \cup args[c].smps
    /\ UNCHANGED <<source, uki, disk, ovmf, igvm>>

DeriveWrite(c) ==
    /\ pc[c] = "dWrite"
    /\ Exit(c, "derived")
    /\ manifest' = [mem[c] EXCEPT
                      !.platform = IF mem[c].tdx # None THEN "both" ELSE "snp"]
    /\ derived' = derived \cup args[c].smps
    /\ UNCHANGED <<source, uki, disk, ovmf, igvm>>

\* Every early return of `confos igvm`: nothing is written but what the steps
\* before it wrote.
DeriveRefuses(c) ==
    /\ \/ pc[c] = "dRead" /\ (uki = None \/ ~Sealed(manifest))
       \/ pc[c] = "dCheck" /\ uki # mem[c].uki
       \/ pc[c] = "dCheck" /\ mem[c].fw \notin {None, source["snp"]}
       \/ pc[c] = "dCheck" /\ mem[c].fw = None /\ mem[c].variants # NoVariants
       \/ pc[c] = "dOvmf" /\ ovmf["snp"] \notin {None, mem[c].fw}
       \/ pc[c] = "dIgvm" /\ 0 \in todo[c]
    /\ Exit(c, "failed")
    /\ UNCHANGED <<source, directory, derived>>

-----------------------------------------------------------------------------
(* confos run                                                              *)

RunStart(c) ==
    /\ \E a \in RunArgs : Enter(c, "rRead", a, {})
    /\ UNCHANGED <<source, directory, derived>>

\* read_manifest and validate_manifest_fields.
RunRead(c) ==
    /\ Goto(c, "rRead", "rLaunch")
    /\ Sealed(manifest)
    /\ manifest.platform \in AllowedPlatforms
    /\ mem' = [mem EXCEPT ![c] = manifest]
    /\ UNCHANGED <<source, directory, args, bytes, todo, launched, derived>>

\* The variant for --smp, or the first one: variants are sorted.
SelectVariant(c) ==
    {n \in Smps : /\ mem[c].variants[n] # None
                  /\ \/ n = args[c].smp
                     \/ /\ args[c].smp = None
                        /\ \A m \in Smps : mem[c].variants[m] # None => n <= m}

\* SEV-SNP: the IGVM is booted as it is found, its recorded digest announced.
RunSnp(c) ==
    /\ Goto(c, "rLaunch", "launched")
    /\ args[c].tier = "snp" /\ disk # None
    /\ \E n \in SelectVariant(c) :
         /\ igvm[n] # None
         /\ launched' = [launched EXCEPT ![c] =
                           [tier |-> "snp", file |-> igvm[n],
                            digest |-> mem[c].variants[n].digest]]
    /\ UNCHANGED <<source, directory, args, mem, bytes, todo, derived>>

\* Mutant: OVMF.fd is used if it exists, recorded or not.
RunKvmFoundFirmware(c) ==
    /\ Goto(c, "rLaunch", "launched")
    /\ args[c].tier = "kvm" /\ disk # None /\ uki # None
    /\ LET f == IF args[c].override THEN source["snp"] ELSE ovmf["snp"]
       IN  /\ f # None
           /\ launched' = [launched EXCEPT ![c] =
                             [tier |-> "kvm", uki |-> uki, fw |-> f,
                              override |-> args[c].override]]
    /\ UNCHANGED <<source, directory, args, mem, bytes, todo, derived>>

\* KVM: UKI and OVMF.fd, used only if the manifest records a firmware, unless
\* --firmware overrides it.
RunKvm(c) ==
    /\ Goto(c, "rLaunch", "launched")
    /\ args[c].tier = "kvm" /\ disk # None /\ uki # None
    /\ args[c].override \/ mem[c].fw # None
    /\ LET f == IF args[c].override THEN source["snp"] ELSE ovmf["snp"]
       IN  /\ f # None
           /\ launched' = [launched EXCEPT ![c] =
                             [tier |-> "kvm", uki |-> uki, fw |-> f,
                              override |-> args[c].override]]
    /\ UNCHANGED <<source, directory, args, mem, bytes, todo, derived>>

\* No usable manifest, no such variant, or a file it names is missing.  What run
\* rejects for fields that are not modelled (disk format, memory, more than 1024
\* vCPUs, --host-data outside SNP) is a step of Stop.
RunRefuses(c) ==
    /\ \/ pc[c] = "rRead" /\ ~(Sealed(manifest)
                               /\ manifest.platform \in AllowedPlatforms)
       \/ pc[c] = "rLaunch" /\ disk = None
       \/ pc[c] = "rLaunch" /\ args[c].tier = "snp"
          /\ \A n \in SelectVariant(c) : igvm[n] = None
       \/ pc[c] = "rLaunch" /\ args[c].tier = "kvm"
          /\ \/ uki = None
             \/ ~args[c].override /\ (mem[c].fw = None \/ ovmf["snp"] = None)
    /\ Exit(c, "failed")
    /\ UNCHANGED <<source, directory, derived>>

-----------------------------------------------------------------------------
(* Failures, kills and replaced firmware                                   *)

\* What a step may leave of the files it was removing or writing.
Or(cond, x, ys) == IF cond THEN ys \cup {x} ELSE {x}

HalfDone(c) ==
    LET resetting == pc[c] = "reset"
        fwSide(s) == \/ pc[c] = "firmware" /\ Needs(args[c].platform, s)
                     \/ pc[c] = "dOvmf" /\ s = "snp" /\ ovmf["snp"] = None
        writing(n) == /\ pc[c] \in {"igvm", "dIgvm"}
                      /\ n \in todo[c]
                      /\ pc[c] = "igvm" => \A m \in todo[c] : n <= m
                      /\ pc[c] = "dIgvm" => ~VariantUnchanged(c, n)
    IN  /\ uki' \in Or(resetting, uki, {None})
                      \cup Or(pc[c] = "uki", uki, {Torn})
        /\ disk' \in Or(resetting, disk, {None})
                       \cup Or(pc[c] = "disk", disk, {Torn})
        /\ manifest' \in Or(resetting, manifest, {None})
                           \cup Or(pc[c] \in {"write", "dWrite"}, manifest, {Torn})
        /\ ovmf' \in {o \in [Sides -> Firmwares \cup {None, Torn}] :
                        \A s \in Sides :
                          o[s] \in Or(resetting, ovmf[s], {None})
                                     \cup Or(fwSide(s), ovmf[s], {source[s], Torn})}
        /\ \/ UNCHANGED igvm
           \/ resetting /\ \E lost \in SUBSET Smps :
                igvm' = [n \in Smps |-> IF n \in lost THEN None ELSE igvm[n]]
           \/ \E n \in Smps : writing(n) /\ igvm' = [igvm EXCEPT ![n] = Torn]

\* A step fails, or the process is killed in the middle of it.
Stop(c) ==
    /\ pc[c] \in Active
    /\ HalfDone(c)
    /\ Exit(c, "failed")
    /\ UNCHANGED <<source, derived>>

\* Someone replaces a firmware file.
ReplaceFirmware(s) ==
    /\ EditMode = "between" => Quiet
    /\ \E f \in Firmwares \ {source[s]} : source' = [source EXCEPT ![s] = f]
    /\ UNCHANGED <<directory, pc, private, derived>>

Step(c) ==
    \/ BuildStart(c) \/ ResetOutput(c) \/ MoveUki(c) \/ ReadFirmware(c)
    \/ BuildVariant(c) \/ BuildRefuses(c) \/ CopyFirmware(c) \/ MoveDisk(c)
    \/ MeasureTdx(c) \/ ComposeManifest(c) \/ WriteManifest(c)
    \/ DeriveStart(c) \/ DeriveRead(c) \/ CheckInputs(c) \/ PrepareOvmf(c)
    \/ ReadInputs(c) \/ DeriveVariant(c) \/ DeriveWrite(c) \/ DeriveRefuses(c)
    \/ RunStart(c) \/ RunRead(c) \/ RunSnp(c) \/ RunKvm(c) \/ RunRefuses(c)

Next ==
    \/ \E c \in Cmds : Step(c) \/ Stop(c)
    \/ \E s \in Sides : ReplaceFirmware(s)

Spec == Init /\ [][Next]_vars

-----------------------------------------------------------------------------
(* Properties                                                              *)

\* Every SNP launch digest in the manifest is of the firmware and the UKI the
\* same manifest records, for the vCPU count of its entry: igvm never reuses a
\* variant measured with other inputs.
SnpMeasuredAsRecorded ==
    Sealed(manifest) =>
        \A n \in Smps : manifest.variants[n] # None =>
            manifest.variants[n].digest =
              [fw |-> manifest.fw, uki |-> manifest.uki, smp |-> n]

\* tdx.firmware is the binary the TDX measurements were computed against, and
\* they are of the recorded UKI and disk.
TdxMeasuredAsRecorded ==
    Sealed(manifest) /\ manifest.tdx # None =>
        /\ manifest.tdx.mrtd = manifest.tdx.fw
        /\ manifest.tdx.uki = manifest.uki
        /\ manifest.tdx.disk = manifest.disk

\* What run boots is what the manifest it read describes, or was cut short by a
\* kill: on SEV-SNP the IGVM file measures to the announced digest, on KVM it
\* is the recorded UKI and firmware.  run itself hashes nothing.
LaunchIsSealed ==
    \A c \in Cmds : pc[c] = "launched" =>
        LET l == launched[c]
        IN  \/ l.tier = "snp" /\ l.file \in {Torn, l.digest}
            \/ /\ l.tier = "kvm" /\ l.uki = mem[c].uki
               /\ l.override \/ l.fw \in {Torn, mem[c].fw}

\* A vCPU count that build or igvm reported as built has an entry.
EveryVariantHasEntry ==
    Quiet /\ Sealed(manifest) =>
        \A n \in derived : manifest.variants[n] # None

\* When igvm succeeds, each count it was asked for has an entry and a file
\* that is whole and measures to the digest of that entry, whatever earlier
\* interrupted commands left behind.
DeriveDelivers ==
    [][ \A c \in Cmds : pc[c] = "dWrite" /\ pc'[c] = "derived" =>
          \A n \in args[c].smps :
            /\ manifest'.variants[n] # None
            /\ igvm'[n] = manifest'.variants[n].digest
      ]_vars

\* igvm extends a sealed manifest: the image, its TDX measurements and a
\* recorded firmware stay, no variant is dropped and no digest changes.
DeriveKeepsSeal ==
    [][ Sealed(manifest) /\ Sealed(manifest') =>
          /\ manifest'.uki = manifest.uki /\ manifest'.disk = manifest.disk
          /\ manifest'.tdx = manifest.tdx
          /\ manifest.fw \in {None, manifest'.fw}
          /\ \A n \in Smps : manifest.variants[n] # None
               => manifest'.variants[n] # None
                  /\ manifest'.variants[n].digest = manifest.variants[n].digest
      ]_vars

\* Claimed of build.platform: its values are those run accepts.
RunKnowsPlatform == Sealed(manifest) => manifest.platform \in AllowedPlatforms
=============================================================================
