------------------------- MODULE SealedOutputProofs -------------------------
(***************************************************************************)
(* Proofs about a sealed output directory and the commands that share it,  *)
(* for any number of commands, vCPU counts, firmware files and images.     *)
(***************************************************************************)
EXTENDS SealedOutput, TLAPS

-----------------------------------------------------------------------------
(* What a command has in memory, whoever runs beside it                    *)

Deriving == {"dRead", "dCheck", "dOvmf", "dBytes", "dIgvm", "dWrite"}
\* Build steps after the firmware was read, igvm steps after the manifest was.
Holding == {"igvm", "firmware", "disk", "tdx", "seal", "write"}
Extending == Deriving \ {"dRead"}

\* Its own arguments.
ArgsInv(c) ==
    /\ pc[c] \in Building => args[c] \in BuildArgs
    /\ pc[c] \in Deriving => args[c] \in DeriveArgs
    /\ pc[c] \in {"rRead", "rLaunch"} => args[c] \in RunArgs

\* A manifest in the making, or the one it read.
MemInv(c) ==
    pc[c] \in Holding \cup Extending \cup {"rLaunch", "launched"} => mem[c] \in Manifest

\* The bytes of the firmware its platforms need, and of a UKI.
BytesInv(c) ==
    /\ pc[c] \in Holding \cup {"dIgvm"} => bytes[c] \in Bytes /\ bytes[c].uki \in Images
    /\ pc[c] \in Holding =>
         /\ NeedsSnp(args[c].platform) => bytes[c].snp \in Firmwares
         /\ NeedsTdx(args[c].platform) => bytes[c].tdx \in Firmwares
    /\ pc[c] = "igvm" => NeedsSnp(args[c].platform)
    /\ pc[c] = "tdx" => NeedsTdx(args[c].platform)
    /\ pc[c] = "dIgvm" => bytes[c].snp \in Firmwares

\* The counts igvm has dealt with are counts; at the end they are all.
LoopInv(c) ==
    /\ pc[c] \in Deriving \ {"dIgvm", "dWrite"} => todo[c] = args[c].smps
    /\ pc[c] = "dIgvm" => args[c].smps \ todo[c] \subseteq Smps
    /\ pc[c] = "dWrite" => args[c].smps \subseteq Smps /\ todo[c] = {}

\* It has launched something.
LaunchedInv(c) == pc[c] = "launched" => launched[c] \in Launch

HeldInv(c) == ArgsInv(c) /\ MemInv(c) /\ BytesInv(c) /\ LoopInv(c) /\ LaunchedInv(c)

ShapeInv == TypeOK /\ \A c \in Cmds : HeldInv(c)

-----------------------------------------------------------------------------
(* What the directory holds, if commands do not overlap and firmware is not *)
(* replaced while one runs                                                  *)

OneActive == \A c, d \in Cmds : pc[c] \in Active /\ pc[d] \in Active => c = d

\* The launch digest of firmware f and UKI u with n vCPUs.
DigestOf(f, u, n) == [fw |-> f, uki |-> u, smp |-> n]

\* Every variant of manifest m is measured from what m records, and its file is
\* the one measured, missing or torn.
VariantsOK(m) ==
    \A n \in Smps : m.variants[n] # None =>
        /\ m.variants[n].digest = DigestOf(m.fw, m.uki, n)
        /\ m.variants[n].file = m.variants[n].digest
        /\ igvm[n] \in {None, Torn, m.variants[n].digest}

TdxOK(m) ==
    m.tdx # None => /\ m.tdx.mrtd = m.tdx.fw
                    /\ m.tdx.uki = m.uki
                    /\ m.tdx.disk = m.disk

\* The UKI and the firmware beside it are the recorded ones, missing or torn.
FilesOK(m) ==
    /\ uki \in {None, m.uki}
    /\ m.fw # None => ovmf["snp"] \in {None, Torn, m.fw}

SealInv ==
    Sealed(manifest) =>
        /\ VariantsOK(manifest) /\ TdxOK(manifest) /\ FilesOK(manifest)
        /\ \A n \in derived : manifest.variants[n] # None

\* A build works on an unsealed directory, with the firmware it read.
BuildInv(c) ==
    /\ pc[c] \in Building \ {"reset"} => manifest = None
    /\ pc[c] \in Holding =>
         /\ uki = bytes[c].uki
         /\ NeedsSnp(args[c].platform) => bytes[c].snp = source["snp"]
         /\ NeedsTdx(args[c].platform) => bytes[c].tdx = source["tdx"]
         /\ \A n \in Smps : mem[c].variants[n] # None =>
              /\ NeedsSnp(args[c].platform)
              /\ mem[c].variants[n].digest = DigestOf(bytes[c].snp, bytes[c].uki, n)
              /\ mem[c].variants[n].file = mem[c].variants[n].digest
              /\ igvm[n] = mem[c].variants[n].digest
         /\ mem[c].tdx # None =>
              /\ mem[c].tdx.mrtd = mem[c].tdx.fw
              /\ mem[c].tdx.uki = bytes[c].uki /\ mem[c].tdx.disk = bytes[c].uki
    /\ pc[c] \in {"disk", "tdx", "seal", "write"} /\ NeedsSnp(args[c].platform) =>
         ovmf["snp"] = source["snp"]
    /\ pc[c] \in {"tdx", "seal", "write"} => disk = bytes[c].uki
    /\ pc[c] = "write" =>
         /\ mem[c].uki = bytes[c].uki /\ mem[c].disk = bytes[c].uki
         /\ mem[c].fw = IF NeedsSnp(args[c].platform) THEN source["snp"] ELSE None

\* igvm extends the manifest it read, with the firmware it checked.
DeriveInv(c) ==
    /\ pc[c] = "dCheck" => mem[c] = manifest
    /\ pc[c] \in Extending =>
         /\ manifest \in Manifest
         /\ mem[c].uki = manifest.uki /\ mem[c].disk = manifest.disk
         /\ mem[c].tdx = manifest.tdx
         /\ manifest.fw \in {None, mem[c].fw}
         /\ \A n \in Smps : manifest.variants[n] # None =>
              manifest.fw = mem[c].fw /\ mem[c].variants[n] # None
         /\ VariantsOK(mem[c]) /\ TdxOK(mem[c])
    /\ pc[c] \in Extending \ {"dCheck"} => mem[c].fw = source["snp"] /\ uki = mem[c].uki
    /\ pc[c] \in {"dBytes", "dIgvm", "dWrite"} => ovmf["snp"] = mem[c].fw
    /\ pc[c] = "dIgvm" => bytes[c].snp = mem[c].fw /\ bytes[c].uki = mem[c].uki
    /\ pc[c] \in {"dIgvm", "dWrite"} =>
         \A n \in args[c].smps \ todo[c] :
           mem[c].variants[n] # None /\ igvm[n] = mem[c].variants[n].digest

\* run boots from the manifest it read.
RunInv(c) == pc[c] = "rLaunch" => mem[c] = manifest /\ manifest \in Manifest

LaunchInv(c) ==
    pc[c] = "launched" =>
        \/ launched[c].tier = "snp" /\ launched[c].file \in {Torn, launched[c].digest}
        \/ /\ launched[c].tier = "kvm" /\ launched[c].uki = mem[c].uki
           /\ launched[c].override \/ launched[c].fw \in {Torn, mem[c].fw}

CommandInv(c) == BuildInv(c) /\ DeriveInv(c) /\ RunInv(c) /\ LaunchInv(c)

SerialInv == ShapeInv /\ OneActive /\ SealInv /\ \A c \in Cmds : CommandInv(c)

-----------------------------------------------------------------------------
(* Types and frames                                                        *)

\* Initially every variable has its type.
LEMMA TypeInit == Init => TypeOK
  BY DEF Init, TypeOK, Active, Building

\* An IGVM file of the bytes in memory, and the manifest with its entry.
LEMMA PutVariantType ==
    ASSUME TypeOK, NEW c \in Cmds, NEW n \in Smps, mem[c] \in Manifest,
           bytes[c].snp \in Firmwares, bytes[c].uki \in Images, PutVariant(c, n)
    PROVE  /\ BuildSnp(c, n) \in Igvm
           /\ [file |-> BuildSnp(c, n), digest |-> BuildSnp(c, n)] \in Variant
           /\ igvm' = [igvm EXCEPT ![n] = BuildSnp(c, n)]
           /\ mem' = [mem EXCEPT ![c] = mem'[c]]
           /\ mem'[c] = [mem[c] EXCEPT !.variants =
                [mem[c].variants EXCEPT
                   ![n] = [file |-> BuildSnp(c, n), digest |-> BuildSnp(c, n)]]]
           /\ mem'[c] \in Manifest
<1> DEFINE f == BuildSnp(c, n)
           v == [file |-> f, digest |-> f]
<1>1. f \in Igvm
  BY DEF BuildSnp, Igvm
<1>2. v \in Variant
  BY <1>1 DEF Variant
<1> HIDE DEF f, v
<1>3. mem' = [mem EXCEPT ![c] = [mem[c] EXCEPT !.variants = [mem[c].variants EXCEPT ![n] = v]]]
  BY DEF PutVariant, f, v
<1>4. mem[c].variants \in [Smps -> Variant \cup {None}]
  BY DEF Manifest
<1>5. [mem[c].variants EXCEPT ![n] = v] \in [Smps -> Variant \cup {None}]
  BY <1>2, <1>4
<1>6. [mem[c] EXCEPT !.variants = [mem[c].variants EXCEPT ![n] = v]] \in Manifest
  BY <1>5 DEF Manifest
<1>7. mem'[c] = [mem[c] EXCEPT !.variants = [mem[c].variants EXCEPT ![n] = v]]
  BY <1>3 DEF TypeOK
<1> QED
  BY <1>1, <1>2, <1>3, <1>6, <1>7 DEF PutVariant, f, v

\* A command's steps keep the types.
LEMMA TypeRun ==
    ASSUME ShapeInv, NEW c \in Cmds, Step(c) \/ Stop(c)
    PROVE  TypeOK'
<1> USE SealedOutputAssumption
        DEF TypeOK, Goto, directory, private, Active, Ended, Building
<1>1. TypeOK /\ HeldInv(c)
  BY DEF ShapeInv
<1>2. /\ pc[c] \in Holding \cup Extending \cup {"rLaunch"} => mem[c] \in Manifest
      /\ pc[c] \in Building => args[c] \in BuildArgs /\ args[c].platform \in Platforms
  BY <1>1 DEF HeldInv, MemInv, ArgsInv, BuildArgs
<1>3. CASE BuildStart(c)
  <2>1. PICK a \in BuildArgs : Enter(c, "reset", a, a.smps)
    BY <1>3 DEF BuildStart
  <2>2. a.smps \subseteq Smps \cup {0}
    BY <2>1 DEF BuildArgs
  <2> QED
    BY <1>1, <1>3, <2>1, <2>2 DEF BuildStart, Enter
<1>4. CASE DeriveStart(c)
  <2>1. PICK a \in DeriveArgs : Enter(c, "dRead", a, a.smps)
    BY <1>4 DEF DeriveStart
  <2>2. a.smps \subseteq Smps \cup {0}
    BY <2>1 DEF DeriveArgs
  <2> QED
    BY <1>1, <1>4, <2>1, <2>2 DEF DeriveStart, Enter
<1>5. CASE RunStart(c)
  BY <1>1, <1>5 DEF RunStart, Enter
<1>6. CASE ResetOutput(c) \/ MoveUki(c)
  BY <1>1, <1>6 DEF ResetOutput, MoveUki
<1>7. CASE ReadFirmware(c)
  <2> DEFINE p == args[c].platform
             of(side) == IF Needs(p, side) THEN source[side] ELSE None
             b == [snp |-> of("snp"), tdx |-> of("tdx"), uki |-> uki]
             m == [platform |-> PlatformTag(p), uki |-> None, disk |-> None,
                   fw |-> None, variants |-> NoVariants, tdx |-> None]
  <2>1. b \in Bytes
    BY <1>1, <1>7 DEF ReadFirmware, Bytes, Sides
  <2>2. m \in Manifest
    <3>1. PlatformTag(p) \in Tags
      BY <1>2, <1>7 DEF ReadFirmware, PlatformTag, Tags, AllowedPlatforms, Platforms
    <3>2. NoVariants \in [Smps -> Variant \cup {None}]
      BY DEF NoVariants
    <3> QED
      BY <3>1, <3>2 DEF Manifest
  <2>3. bytes' = [bytes EXCEPT ![c] = b] /\ mem' = [mem EXCEPT ![c] = m]
    BY <1>7 DEF ReadFirmware
  <2> HIDE DEF b, m
  <2> QED
    BY <1>1, <1>7, <2>1, <2>2, <2>3 DEF ReadFirmware
<1>8. CASE BuildVariant(c)
  <2>1. PICK n \in todo[c] \ {0} :
          /\ PutVariant(c, n) /\ todo' = [todo EXCEPT ![c] = @ \ {n}]
          /\ pc' = [pc EXCEPT ![c] = IF todo[c] = {n} THEN "firmware" ELSE @]
    BY <1>8 DEF BuildVariant
  <2>2. n \in Smps
    BY <1>1, <2>1
  <2>3. mem[c] \in Manifest /\ bytes[c].snp \in Firmwares /\ bytes[c].uki \in Images
    BY <1>1, <1>2, <1>8 DEF BuildVariant, Holding, HeldInv, BytesInv
  <2>4. BuildSnp(c, n) \in Igvm /\ igvm' = [igvm EXCEPT ![n] = BuildSnp(c, n)]
        /\ mem' = [mem EXCEPT ![c] = mem'[c]] /\ mem'[c] \in Manifest
    BY <1>1, <2>1, <2>2, <2>3, PutVariantType
  <2>5. igvm' \in [Smps -> Igvm \cup {None, Torn}] /\ mem' \in [Cmds -> Manifest \cup {None}]
    BY <1>1, <2>4
  <2> QED
    BY <1>1, <1>8, <2>1, <2>5 DEF BuildVariant
<1>9. CASE BuildRefuses(c) \/ DeriveRefuses(c) \/ RunRefuses(c)
  BY <1>1, <1>9 DEF BuildRefuses, DeriveRefuses, RunRefuses, Exit
<1>10. CASE CopyFirmware(c)
  BY <1>1, <1>10 DEF CopyFirmware
<1>11. CASE MoveDisk(c)
  <2>1. bytes[c].uki \in Images
    BY <1>1, <1>11 DEF MoveDisk, Holding, HeldInv, BytesInv
  <2> QED
    BY <1>1, <1>11, <2>1 DEF MoveDisk
<1>12. CASE MeasureTdx(c)
  <2>1. mem[c] \in Manifest /\ bytes[c].tdx \in Firmwares /\ bytes[c].uki \in Images
    BY <1>1, <1>2, <1>12 DEF MeasureTdx, Holding, HeldInv, BytesInv
  <2> DEFINE t == [fw |-> source["tdx"], mrtd |-> bytes[c].tdx,
                   uki |-> bytes[c].uki, disk |-> disk]
  <2>2. t \in Tdx
    BY <1>1, <1>12, <2>1 DEF MeasureTdx, Tdx, Sides
  <2> HIDE DEF t
  <2>3. mem' = [mem EXCEPT ![c] = [mem[c] EXCEPT !.tdx = t]]
    BY <1>12 DEF MeasureTdx, t
  <2>4. [mem[c] EXCEPT !.tdx = t] \in Manifest
    BY <2>1, <2>2 DEF Manifest
  <2> QED
    BY <1>1, <1>12, <2>3, <2>4 DEF MeasureTdx
<1>13. CASE ComposeManifest(c)
  <2>1. mem[c] \in Manifest /\ bytes[c].uki \in Images
    BY <1>1, <1>2, <1>13 DEF ComposeManifest, Holding, HeldInv, BytesInv
  <2> DEFINE f == IF NeedsSnp(args[c].platform) THEN source["snp"] ELSE None
             m == [mem[c] EXCEPT !.uki = uki, !.disk = bytes[c].uki, !.fw = f]
  <2>2. m \in Manifest
    BY <1>1, <1>13, <2>1 DEF ComposeManifest, Manifest, Sides
  <2>3. /\ pc' = [pc EXCEPT ![c] = "write"] /\ mem' = [mem EXCEPT ![c] = m]
        /\ UNCHANGED <<source, directory, args, bytes, todo, launched, derived>>
    BY <1>1, <1>13 DEF ComposeManifest
  <2> HIDE DEF m
  <2> QED
    BY <1>1, <2>2, <2>3
<1>14. CASE WriteManifest(c)
  BY <1>1, <1>2, <1>14 DEF WriteManifest, Exit, Holding
<1>15. CASE DeriveRead(c) \/ RunRead(c)
  <2>1. manifest \in Manifest /\ mem' = [mem EXCEPT ![c] = manifest]
    BY <1>1, <1>15 DEF DeriveRead, RunRead, Sealed
  <2>2. /\ pc' \in [Cmds -> {"idle"} \cup Active \cup Ended]
        /\ UNCHANGED <<source, directory, args, bytes, todo, launched, derived>>
    BY <1>1, <1>15 DEF DeriveRead, RunRead
  <2> QED
    BY <1>1, <2>1, <2>2
<1>16. CASE CheckInputs(c)
  <2>1. [mem[c] EXCEPT !.fw = source["snp"]] \in Manifest
    BY <1>1, <1>2, <1>16 DEF CheckInputs, Extending, Deriving, Manifest, Sides
  <2> QED
    BY <1>1, <1>16, <2>1 DEF CheckInputs
<1>17. CASE PrepareOvmf(c)
  BY <1>1, <1>17 DEF PrepareOvmf, Sides
<1>18. CASE ReadInputs(c)
  <2>1. [snp |-> ovmf["snp"], tdx |-> None, uki |-> uki] \in Bytes
    BY <1>18 DEF ReadInputs, Bytes
  <2> QED
    BY <1>1, <1>18, <2>1 DEF ReadInputs
<1>19. CASE DeriveVariant(c)
  <2>1. PICK n \in todo[c] \ {0} :
          /\ PutVariant(c, n) \/ UNCHANGED <<igvm, mem>>
          /\ todo' = [todo EXCEPT ![c] = @ \ {n}]
          /\ pc' = [pc EXCEPT ![c] = IF todo[c] = {n} THEN "dWrite" ELSE @]
    BY <1>19 DEF DeriveVariant
  <2>2. n \in Smps
    BY <1>1, <2>1
  <2>3. mem[c] \in Manifest /\ bytes[c].snp \in Firmwares /\ bytes[c].uki \in Images
    BY <1>1, <1>2, <1>19 DEF DeriveVariant, Extending, Deriving, HeldInv, BytesInv
  <2>4. ASSUME PutVariant(c, n)
        PROVE  BuildSnp(c, n) \in Igvm /\ igvm' = [igvm EXCEPT ![n] = BuildSnp(c, n)]
               /\ mem' = [mem EXCEPT ![c] = mem'[c]] /\ mem'[c] \in Manifest
    BY <1>1, <2>2, <2>3, <2>4, PutVariantType
  <2>5. igvm' \in [Smps -> Igvm \cup {None, Torn}] /\ mem' \in [Cmds -> Manifest \cup {None}]
    BY <1>1, <2>1, <2>4
  <2> QED
    BY <1>1, <1>19, <2>1, <2>5 DEF DeriveVariant
<1>20. CASE DeriveWrite(c)
  <2>1. mem[c] \in Manifest /\ args[c].smps \subseteq Smps
    BY <1>1, <1>2, <1>20 DEF DeriveWrite, Extending, Deriving, HeldInv, LoopInv
  <2>2. manifest' \in Manifest
    BY <1>20, <2>1 DEF DeriveWrite, Manifest, Tags, AllowedPlatforms
  <2> QED
    BY <1>1, <1>20, <2>1, <2>2 DEF DeriveWrite, Exit
<1>21. CASE RunSnp(c)
  <2>1. PICK n \in Smps : /\ mem[c].variants[n] # None /\ igvm[n] # None
                          /\ launched' = [launched EXCEPT ![c] =
                               [tier |-> "snp", file |-> igvm[n],
                                digest |-> mem[c].variants[n].digest]]
    BY <1>21 DEF RunSnp, SelectVariant
  <2>2. mem[c].variants[n] \in Variant
    BY <1>2, <1>21, <2>1 DEF RunSnp, Manifest
  <2>3. [tier |-> "snp", file |-> igvm[n], digest |-> mem[c].variants[n].digest] \in Launch
    BY <1>1, <2>1, <2>2 DEF Launch, Variant
  <2> QED
    BY <1>1, <1>21, <2>1, <2>3 DEF RunSnp
<1>22. CASE RunKvm(c)
  <2> DEFINE f == IF args[c].override THEN source["snp"] ELSE ovmf["snp"]
             l == [tier |-> "kvm", uki |-> uki, fw |-> f, override |-> args[c].override]
  <2>1. args[c] \in RunArgs
    BY <1>1, <1>22 DEF RunKvm, HeldInv, ArgsInv
  <2>2. uki \in Images \cup {Torn} /\ f \in Firmwares \cup {Torn} /\ args[c].override \in BOOLEAN
    BY <1>1, <1>22, <2>1 DEF RunKvm, RunArgs, Sides
  <2>3. l \in Launch
    BY <2>2 DEF Launch
  <2>4. launched' = [launched EXCEPT ![c] = l]
    BY <1>22 DEF RunKvm
  <2> HIDE DEF l
  <2> QED
    BY <1>1, <1>22, <2>3, <2>4 DEF RunKvm
<1>23. CASE Stop(c)
  <2>1. source' = source /\ derived' = derived /\ launched' = launched
        /\ pc' = [pc EXCEPT ![c] = "failed"] /\ args' = [args EXCEPT ![c] = None]
        /\ todo' = [todo EXCEPT ![c] = {}] /\ mem' = [mem EXCEPT ![c] = None]
        /\ bytes' = [bytes EXCEPT ![c] = None]
    BY <1>23 DEF Stop, Exit
  <2>2. uki' \in {uki, None, Torn} /\ disk' \in {disk, None, Torn}
        /\ manifest' \in {manifest, None, Torn}
        /\ ovmf' \in [Sides -> Firmwares \cup {None, Torn}]
    BY <1>23 DEF Stop, HalfDone, Or
  <2>3. igvm' \in [Smps -> Igvm \cup {None, Torn}]
    BY <1>1, <1>23 DEF Stop, HalfDone
  <2> QED
    BY <1>1, <2>1, <2>2, <2>3
<1> QED
  BY <1>3, <1>4, <1>5, <1>6, <1>7, <1>8, <1>9, <1>10, <1>11, <1>12, <1>13, <1>14, <1>15,
     <1>16, <1>17, <1>18, <1>19, <1>20, <1>21, <1>22, <1>23 DEF Step

\* What a command has in memory is its own.
LEMMA OthersStay ==
    ASSUME TypeOK, NEW c \in Cmds, Step(c) \/ Stop(c), NEW d \in Cmds, d # c
    PROVE  /\ pc'[d] = pc[d] /\ args'[d] = args[d] /\ mem'[d] = mem[d]
           /\ bytes'[d] = bytes[d] /\ todo'[d] = todo[d] /\ launched'[d] = launched[d]
<1> USE DEF TypeOK, Goto, private, Enter, Exit
<1>1. CASE \/ BuildStart(c) \/ ResetOutput(c) \/ MoveUki(c) \/ ReadFirmware(c)
           \/ BuildRefuses(c) \/ CopyFirmware(c) \/ MoveDisk(c)
  BY <1>1 DEF BuildStart, ResetOutput, MoveUki, ReadFirmware, BuildRefuses, CopyFirmware, MoveDisk
<1>2. CASE MeasureTdx(c) \/ ComposeManifest(c) \/ WriteManifest(c)
  BY <1>2 DEF MeasureTdx, ComposeManifest, WriteManifest
<1>3. CASE BuildVariant(c) \/ DeriveVariant(c)
  BY <1>3 DEF BuildVariant, DeriveVariant, PutVariant
<1>4. CASE \/ DeriveStart(c) \/ DeriveRead(c) \/ CheckInputs(c) \/ PrepareOvmf(c)
           \/ ReadInputs(c) \/ DeriveWrite(c) \/ DeriveRefuses(c)
  BY <1>4 DEF DeriveStart, DeriveRead, CheckInputs, PrepareOvmf, ReadInputs, DeriveWrite,
              DeriveRefuses
<1>5. CASE RunStart(c) \/ RunRead(c) \/ RunSnp(c) \/ RunKvm(c) \/ RunRefuses(c)
  BY <1>5 DEF RunStart, RunRead, RunSnp, RunKvm, RunRefuses
<1>6. CASE Stop(c)
  BY <1>6 DEF Stop
<1> QED
  BY <1>1, <1>2, <1>3, <1>4, <1>5, <1>6 DEF Step

\* A command's steps keep what it holds in shape.
LEMMA HeldRun ==
    ASSUME ShapeInv, NEW c \in Cmds, Step(c) \/ Stop(c)
    PROVE  HeldInv(c)'
<1> USE DEF Goto, private, Holding, Extending, Deriving, Building
<1>1. TypeOK /\ HeldInv(c) /\ TypeOK'
  BY TypeRun DEF ShapeInv
<1>2. ArgsInv(c) /\ MemInv(c) /\ BytesInv(c) /\ LoopInv(c) /\ LaunchedInv(c)
  BY <1>1 DEF HeldInv
<1> DEFINE Done == pc'[c] \in {"failed", "sealed", "derived"}
<1>3. ASSUME Done PROVE HeldInv(c)'
  BY <1>3 DEF HeldInv, ArgsInv, MemInv, BytesInv, LoopInv, LaunchedInv
<1>4. CASE BuildStart(c)
  BY <1>1, <1>4 DEF BuildStart, Enter, TypeOK, HeldInv, ArgsInv, MemInv, BytesInv, LoopInv,
                    LaunchedInv
<1>5. CASE DeriveStart(c)
  BY <1>1, <1>5 DEF DeriveStart, Enter, TypeOK, HeldInv, ArgsInv, MemInv, BytesInv, LoopInv,
                    LaunchedInv
<1>6. CASE RunStart(c)
  BY <1>1, <1>6 DEF RunStart, Enter, TypeOK, HeldInv, ArgsInv, MemInv, BytesInv, LoopInv,
                    LaunchedInv
<1>7. CASE ResetOutput(c) \/ MoveUki(c)
  BY <1>1, <1>2, <1>7 DEF ResetOutput, MoveUki, TypeOK, HeldInv, ArgsInv, MemInv, BytesInv,
                          LoopInv, LaunchedInv
<1>8. CASE ReadFirmware(c)
  <2> DEFINE p == args[c].platform
  <2>1. args[c] \in BuildArgs /\ args'[c] = args[c] /\ p \in Platforms
    BY <1>2, <1>8 DEF ReadFirmware, ArgsInv, BuildArgs
  <2>2. pc'[c] \in {"igvm", "firmware"} /\ (pc'[c] = "igvm" => NeedsSnp(p))
    BY <1>1, <1>8 DEF ReadFirmware, TypeOK
  <2>3. bytes'[c] = [snp |-> IF Needs(p, "snp") THEN source["snp"] ELSE None,
                     tdx |-> IF Needs(p, "tdx") THEN source["tdx"] ELSE None, uki |-> uki]
        /\ uki \in Images
    BY <1>1, <1>8 DEF ReadFirmware, TypeOK
  <2>4. bytes'[c] \in Bytes /\ bytes'[c].uki \in Images
        /\ (NeedsSnp(p) => bytes'[c].snp \in Firmwares)
        /\ (NeedsTdx(p) => bytes'[c].tdx \in Firmwares)
    BY <1>1, <2>3 DEF TypeOK, Bytes, Sides, Needs
  <2>5. mem'[c] # None /\ mem'[c] \in Manifest
    <3>1. PlatformTag(p) \in Tags
      BY <2>1 DEF PlatformTag, Tags, AllowedPlatforms, Platforms
    <3>2. NoVariants \in [Smps -> Variant \cup {None}]
      BY DEF NoVariants
    <3>3. mem'[c] = [platform |-> PlatformTag(p), uki |-> None, disk |-> None,
                     fw |-> None, variants |-> NoVariants, tdx |-> None]
      BY <1>1, <1>8 DEF ReadFirmware, TypeOK
    <3> QED
      BY <3>1, <3>2, <3>3, WholeAssumption DEF Manifest
  <2> QED
    BY <2>1, <2>2, <2>4, <2>5 DEF HeldInv, ArgsInv, MemInv, BytesInv, LoopInv, LaunchedInv
<1>9. CASE BuildVariant(c)
  <2>1. PICK n \in todo[c] \ {0} : PutVariant(c, n)
    BY <1>9 DEF BuildVariant
  <2>2. n \in Smps
    BY <1>1, <2>1 DEF TypeOK
  <2>3. mem[c] \in Manifest /\ bytes[c].snp \in Firmwares /\ bytes[c].uki \in Images
    BY <1>2, <1>9 DEF BuildVariant, MemInv, BytesInv
  <2>4. mem'[c] \in Manifest
    BY <1>1, <2>1, <2>2, <2>3, PutVariantType
  <2>5. pc[c] = "igvm" /\ pc'[c] \in {"igvm", "firmware"} /\ UNCHANGED <<args, bytes>>
    BY <1>1, <1>9 DEF BuildVariant, TypeOK
  <2> QED
    BY <1>2, <2>4, <2>5 DEF HeldInv, ArgsInv, MemInv, BytesInv, LoopInv, LaunchedInv
<1>10. CASE BuildRefuses(c) \/ DeriveRefuses(c) \/ RunRefuses(c) \/ Stop(c)
            \/ WriteManifest(c) \/ DeriveWrite(c)
  BY <1>1, <1>3, <1>10 DEF BuildRefuses, DeriveRefuses, RunRefuses, Stop, WriteManifest,
                           DeriveWrite, Exit, TypeOK
<1>11. CASE CopyFirmware(c) \/ MoveDisk(c)
  <2>1. pc[c] \in {"firmware", "disk"} /\ pc'[c] \in {"disk", "tdx", "seal"}
        /\ (pc'[c] = "tdx" => NeedsTdx(args[c].platform)) /\ UNCHANGED private
    BY <1>1, <1>11 DEF CopyFirmware, MoveDisk, TypeOK
  <2> QED
    BY <1>2, <2>1 DEF HeldInv, ArgsInv, MemInv, BytesInv, LoopInv, LaunchedInv
<1>12. CASE MeasureTdx(c) \/ ComposeManifest(c)
  <2>1. pc[c] \in {"tdx", "seal"} /\ pc'[c] \in {"seal", "write"}
        /\ UNCHANGED <<args, bytes>>
    BY <1>1, <1>12 DEF MeasureTdx, ComposeManifest, TypeOK
  <2>2. mem[c] \in Manifest /\ bytes[c].uki \in Images
    BY <1>2, <2>1 DEF MemInv, BytesInv
  <2>3. mem'[c] \in Manifest
    <3>1. CASE MeasureTdx(c)
      <4> DEFINE t == [fw |-> source["tdx"], mrtd |-> bytes[c].tdx,
                       uki |-> bytes[c].uki, disk |-> disk]
      <4>1. t \in Tdx
        BY <1>1, <1>2, <2>2, <3>1 DEF MeasureTdx, Tdx, Sides, TypeOK, BytesInv
      <4>2. mem'[c] = [mem[c] EXCEPT !.tdx = t]
        BY <1>1, <3>1 DEF MeasureTdx, TypeOK
      <4> HIDE DEF t
      <4> QED
        BY <2>2, <4>1, <4>2 DEF Manifest
    <3>2. CASE ComposeManifest(c)
      <4> DEFINE f == IF NeedsSnp(args[c].platform) THEN source["snp"] ELSE None
      <4>1. mem'[c] = [mem[c] EXCEPT !.uki = uki, !.disk = bytes[c].uki, !.fw = f]
        BY <1>1, <3>2 DEF ComposeManifest, TypeOK
      <4>2. f \in Firmwares \cup {None} /\ uki \in Images
        BY <1>1, <3>2 DEF ComposeManifest, TypeOK, Sides
      <4> HIDE DEF f
      <4> QED
        BY <2>2, <4>1, <4>2 DEF Manifest
    <3> QED
      BY <1>12, <3>1, <3>2
  <2> QED
    BY <1>2, <2>1, <2>3 DEF HeldInv, ArgsInv, MemInv, BytesInv, LoopInv, LaunchedInv
<1>13. CASE DeriveRead(c) \/ RunRead(c)
  <2>1. /\ \/ pc[c] = "dRead" /\ pc'[c] = "dCheck"
           \/ pc[c] = "rRead" /\ pc'[c] = "rLaunch"
        /\ manifest \in Manifest /\ mem'[c] = manifest
        /\ UNCHANGED <<args, todo>>
    BY <1>1, <1>13 DEF DeriveRead, RunRead, Sealed, TypeOK
  <2> QED
    BY <1>2, <2>1 DEF HeldInv, ArgsInv, MemInv, BytesInv, LoopInv, LaunchedInv
<1>14. CASE CheckInputs(c)
  <2>1. pc[c] = "dCheck" /\ pc'[c] = "dOvmf" /\ UNCHANGED <<args, todo>>
        /\ mem'[c] = [mem[c] EXCEPT !.fw = source["snp"]]
    BY <1>1, <1>14 DEF CheckInputs, TypeOK
  <2>2. mem[c] \in Manifest
    BY <1>2, <2>1 DEF MemInv
  <2>3. mem'[c] \in Manifest
    BY <1>1, <2>1, <2>2 DEF TypeOK, Sides, Manifest
  <2> QED
    BY <1>2, <2>1, <2>3 DEF HeldInv, ArgsInv, MemInv, BytesInv, LoopInv, LaunchedInv
<1>15. CASE PrepareOvmf(c)
  BY <1>1, <1>2, <1>15 DEF PrepareOvmf, TypeOK, HeldInv, ArgsInv, MemInv, BytesInv, LoopInv,
                           LaunchedInv
<1>16. CASE ReadInputs(c)
  <2>1. /\ pc[c] = "dBytes" /\ pc'[c] = "dIgvm" /\ UNCHANGED <<args, mem, todo>>
        /\ bytes'[c] = [snp |-> ovmf["snp"], tdx |-> None, uki |-> uki]
        /\ ovmf["snp"] \in Firmwares /\ uki \in Images
    BY <1>1, <1>16 DEF ReadInputs, TypeOK
  <2>2. bytes'[c] \in Bytes /\ bytes'[c].uki \in Images /\ bytes'[c].snp \in Firmwares
    BY <2>1 DEF Bytes
  <2> QED
    BY <1>2, <2>1, <2>2 DEF HeldInv, ArgsInv, MemInv, BytesInv, LoopInv, LaunchedInv
<1>17. CASE DeriveVariant(c)
  <2>1. PICK n \in todo[c] \ {0} :
          /\ PutVariant(c, n) \/ UNCHANGED <<igvm, mem>>
          /\ todo' = [todo EXCEPT ![c] = @ \ {n}]
          /\ pc' = [pc EXCEPT ![c] = IF todo[c] = {n} THEN "dWrite" ELSE @]
    BY <1>17 DEF DeriveVariant
  <2>2. n \in Smps
    BY <1>1, <2>1 DEF TypeOK
  <2>3. mem[c] \in Manifest /\ bytes[c].snp \in Firmwares /\ bytes[c].uki \in Images
    BY <1>2, <1>17 DEF DeriveVariant, MemInv, BytesInv
  <2>4. mem'[c] \in Manifest
    BY <1>1, <2>1, <2>2, <2>3, PutVariantType
  <2>5. /\ pc[c] = "dIgvm" /\ UNCHANGED <<args, bytes>>
        /\ todo'[c] = todo[c] \ {n}
        /\ pc'[c] = IF todo[c] = {n} THEN "dWrite" ELSE "dIgvm"
    BY <1>1, <1>17, <2>1 DEF DeriveVariant, TypeOK
  <2>6. args[c].smps \ todo[c] \subseteq Smps
    BY <1>2, <2>5 DEF LoopInv
  <2>7. LoopInv(c)'
    BY <2>2, <2>5, <2>6 DEF LoopInv
  <2> QED
    BY <1>2, <2>4, <2>5, <2>7 DEF HeldInv, ArgsInv, MemInv, BytesInv, LaunchedInv
<1>18. CASE RunSnp(c) \/ RunKvm(c)
  <2>1. pc[c] = "rLaunch" /\ pc'[c] = "launched" /\ UNCHANGED mem
    BY <1>1, <1>18 DEF RunSnp, RunKvm, TypeOK
  <2>2. launched'[c] \in Launch
    <3>1. CASE RunSnp(c)
      <4>1. PICK n \in Smps : /\ mem[c].variants[n] # None /\ igvm[n] # None
                              /\ launched'[c] = [tier |-> "snp", file |-> igvm[n],
                                                 digest |-> mem[c].variants[n].digest]
        BY <1>1, <3>1 DEF RunSnp, SelectVariant, TypeOK
      <4>2. mem[c].variants[n] \in Variant
        BY <1>2, <2>1, <4>1 DEF MemInv, Manifest
      <4> QED
        BY <1>1, <4>1, <4>2 DEF Launch, Variant, TypeOK
    <3>2. CASE RunKvm(c)
      <4> DEFINE f == IF args[c].override THEN source["snp"] ELSE ovmf["snp"]
      <4>1. args[c].override \in BOOLEAN
        BY <1>2, <2>1 DEF ArgsInv, RunArgs
      <4>2. /\ f \in Firmwares \cup {Torn} /\ uki \in Images \cup {Torn}
            /\ launched'[c] = [tier |-> "kvm", uki |-> uki, fw |-> f,
                               override |-> args[c].override]
        BY <1>1, <3>2 DEF RunKvm, TypeOK, Sides
      <4> HIDE DEF f
      <4> QED
        BY <4>1, <4>2 DEF Launch
    <3> QED
      BY <1>18, <3>1, <3>2
  <2> QED
    BY <1>2, <2>1, <2>2 DEF HeldInv, ArgsInv, MemInv, BytesInv, LoopInv, LaunchedInv
<1> QED
  BY <1>4, <1>5, <1>6, <1>7, <1>8, <1>9, <1>10, <1>11, <1>12, <1>13, <1>14, <1>15, <1>16,
     <1>17, <1>18 DEF Step

\* Every step keeps types and shapes, whatever overlaps.
LEMMA ShapeStep == ShapeInv /\ [Next]_vars => ShapeInv'
<1> SUFFICES ASSUME ShapeInv, [Next]_vars PROVE ShapeInv'
  OBVIOUS
<1>1. ASSUME NEW c \in Cmds, Step(c) \/ Stop(c) PROVE ShapeInv'
  <2>1. TypeOK' /\ HeldInv(c)'
    BY <1>1, TypeRun, HeldRun
  <2>2. ASSUME NEW d \in Cmds, d # c PROVE HeldInv(d)'
    <3>1. TypeOK /\ HeldInv(d)
      BY DEF ShapeInv
    <3>2. /\ pc'[d] = pc[d] /\ args'[d] = args[d] /\ mem'[d] = mem[d]
          /\ bytes'[d] = bytes[d] /\ todo'[d] = todo[d] /\ launched'[d] = launched[d]
      BY <1>1, <2>2, <3>1, OthersStay
    <3> QED
      BY <3>1, <3>2 DEF HeldInv, ArgsInv, MemInv, BytesInv, LoopInv, LaunchedInv
  <2> QED
    BY <2>1, <2>2 DEF ShapeInv
<1>2. ASSUME NEW s \in Sides, ReplaceFirmware(s) PROVE ShapeInv'
  BY <1>2 DEF ShapeInv, ReplaceFirmware, directory, private, TypeOK, HeldInv, ArgsInv, MemInv,
              BytesInv, LoopInv, LaunchedInv
<1>3. ASSUME UNCHANGED vars PROVE ShapeInv'
  BY <1>3 DEF ShapeInv, vars, TypeOK, HeldInv, ArgsInv, MemInv, BytesInv, LoopInv, LaunchedInv
<1> QED
  BY <1>1, <1>2, <1>3 DEF Next

\* Initially no command holds anything.
LEMMA ShapeInit == Init => ShapeInv
  BY TypeInit DEF Init, ShapeInv, HeldInv, ArgsInv, MemInv, BytesInv, LoopInv, LaunchedInv,
                  Building, Deriving, Holding, Extending

\* build, igvm and run keep every file and every value in memory in shape, even
\* if they overlap and firmware files are replaced under them: nothing is written
\* or measured from a manifest or firmware that is missing.
THEOREM TypeCorrect == Spec => []TypeOK
<1>1. Init => ShapeInv
  BY ShapeInit
<1>2. ShapeInv /\ [Next]_vars => ShapeInv'
  BY ShapeStep
<1>3. ShapeInv => TypeOK
  BY DEF ShapeInv
<1> QED
  BY <1>1, <1>2, <1>3, PTL DEF Spec

-----------------------------------------------------------------------------
(* The seal, if commands do not overlap                                    *)

\* A manifest is sealed; a missing one is not.
LEMMA SealedManifest ==
    /\ \A m \in Manifest : Sealed(m)
    /\ \A m \in Manifest \cup {None, Torn} : Sealed(m) => m \in Manifest
    /\ ~Sealed(None) /\ ~Sealed(Torn)
  BY WholeAssumption DEF Sealed

\* The parts of the invariant a step of c needs.
LEMMA SerialParts ==
    ASSUME SerialInv, NEW c \in Cmds
    PROVE  /\ TypeOK /\ ArgsInv(c) /\ MemInv(c) /\ BytesInv(c) /\ LoopInv(c)
           /\ SealInv /\ BuildInv(c) /\ DeriveInv(c) /\ RunInv(c) /\ LaunchInv(c)
  BY DEF SerialInv, ShapeInv, HeldInv, CommandInv

\* The seal is about files, the manifest and the counts already built.
LEMMA SealKept ==
    ASSUME SealInv, UNCHANGED <<uki, ovmf, igvm, manifest, derived>>
    PROVE  SealInv'
  BY DEF SealInv, Sealed, VariantsOK, TdxOK, FilesOK

\* A command that steps is the only active one.
LEMMA Alone ==
    ASSUME SerialInv, ~Overlap, NEW c \in Cmds, Step(c) \/ Stop(c), NEW d \in Cmds, d # c
    PROVE  pc[d] \notin Active
<1>1. CASE BuildStart(c) \/ DeriveStart(c) \/ RunStart(c)
  BY <1>1 DEF BuildStart, DeriveStart, RunStart, Enter, Quiet
<1>2. CASE ~(BuildStart(c) \/ DeriveStart(c) \/ RunStart(c))
  <2>1. pc[c] \in Active
    BY <1>2 DEF Step, Stop, ResetOutput, MoveUki, ReadFirmware, BuildVariant, BuildRefuses,
                CopyFirmware, MoveDisk, MeasureTdx, ComposeManifest, WriteManifest, DeriveRead,
                CheckInputs, PrepareOvmf, ReadInputs, DeriveVariant, DeriveWrite, DeriveRefuses,
                RunRead, RunSnp, RunKvm, RunRefuses, Goto, Active, Building
  <2> QED
    BY <2>1 DEF SerialInv, OneActive
<1> QED
  BY <1>1, <1>2

\* A command that just started has promised nothing; nor has one that ended.
LEMMA NothingPromised ==
    ASSUME NEW c \in Cmds,
           pc'[c] \in {"reset", "dRead", "rRead", "failed", "sealed", "derived"}
    PROVE  CommandInv(c)'
  BY DEF CommandInv, BuildInv, DeriveInv, RunInv, LaunchInv, Building, Holding, Extending,
         Deriving

\* Starting a command, and every refusal, leave the directory alone.
LEMMA SerialStarts ==
    ASSUME SerialInv, NEW c \in Cmds,
           \/ BuildStart(c) \/ DeriveStart(c) \/ RunStart(c)
           \/ BuildRefuses(c) \/ DeriveRefuses(c) \/ RunRefuses(c)
    PROVE  SealInv' /\ CommandInv(c)'
<1>1. TypeOK /\ SealInv
  BY SerialParts
<1>2. UNCHANGED <<uki, ovmf, igvm, manifest, derived>>
  BY DEF BuildStart, DeriveStart, RunStart, BuildRefuses, DeriveRefuses, RunRefuses, directory
<1>3. pc'[c] \in {"reset", "dRead", "rRead", "failed"}
  BY <1>1 DEF BuildStart, DeriveStart, RunStart, BuildRefuses, DeriveRefuses, RunRefuses,
              Enter, Exit, TypeOK
<1> QED
  BY <1>1, <1>2, <1>3, SealKept, NothingPromised

\* A build empties the directory first and seals it last; what it measured is
\* what it then records.
LEMMA SerialBuild ==
    ASSUME SerialInv, NEW c \in Cmds,
           \/ ResetOutput(c) \/ MoveUki(c) \/ ReadFirmware(c) \/ BuildVariant(c)
           \/ CopyFirmware(c) \/ MoveDisk(c) \/ MeasureTdx(c) \/ ComposeManifest(c)
           \/ WriteManifest(c)
    PROVE  SealInv' /\ CommandInv(c)'
<1> USE DEF Goto, directory, private, Holding, Building
<1>1. TypeOK /\ ArgsInv(c) /\ MemInv(c) /\ BytesInv(c) /\ BuildInv(c)
  BY SerialParts
<1>2. ASSUME manifest' = None, BuildInv(c)', pc'[c] \in Building PROVE SealInv' /\ CommandInv(c)'
  <2>1. SealInv'
    BY <1>2, SealedManifest DEF SealInv
  <2> QED
    BY <1>2, <2>1 DEF CommandInv, DeriveInv, RunInv, LaunchInv, Extending, Deriving
<1>3. pc[c] \in Building \ {"reset"} => manifest = None
  BY <1>1 DEF BuildInv
<1>4. CASE ResetOutput(c)
  <2>1. manifest' = None /\ pc'[c] = "uki"
    BY <1>1, <1>4 DEF ResetOutput, TypeOK
  <2> QED
    BY <1>2, <2>1 DEF BuildInv
<1>5. CASE MoveUki(c)
  <2>1. manifest' = None /\ pc'[c] = "read"
    BY <1>1, <1>3, <1>5 DEF MoveUki, TypeOK
  <2> QED
    BY <1>2, <2>1 DEF BuildInv
<1>6. CASE ReadFirmware(c)
  <2> DEFINE p == args[c].platform
  <2>1. manifest' = None /\ pc'[c] \in {"igvm", "firmware"} /\ UNCHANGED <<source, uki, args>>
    BY <1>1, <1>3, <1>6 DEF ReadFirmware, TypeOK
  <2>2. bytes'[c] = [snp |-> IF Needs(p, "snp") THEN source["snp"] ELSE None,
                     tdx |-> IF Needs(p, "tdx") THEN source["tdx"] ELSE None, uki |-> uki]
    BY <1>1, <1>6 DEF ReadFirmware, TypeOK
  <2>3. mem'[c].tdx = None /\ \A n \in Smps : mem'[c].variants[n] = None
    BY <1>1, <1>6 DEF ReadFirmware, TypeOK, NoVariants
  <2> QED
    BY <1>2, <2>1, <2>2, <2>3 DEF BuildInv, Needs
<1>7. CASE BuildVariant(c)
  <2>1. PICK n \in todo[c] \ {0} : PutVariant(c, n)
    BY <1>7 DEF BuildVariant
  <2>2. n \in Smps /\ pc[c] = "igvm"
    BY <1>1, <1>7, <2>1 DEF BuildVariant, TypeOK
  <2>3. mem[c] \in Manifest /\ bytes[c].snp \in Firmwares /\ bytes[c].uki \in Images
        /\ NeedsSnp(args[c].platform)
    BY <1>1, <2>2 DEF MemInv, BytesInv
  <2> DEFINE f == DigestOf(bytes[c].snp, bytes[c].uki, n)
             v == [file |-> f, digest |-> f]
  <2>4. /\ igvm' = [igvm EXCEPT ![n] = f]
        /\ mem'[c] = [mem[c] EXCEPT !.variants = [mem[c].variants EXCEPT ![n] = v]]
    BY <1>1, <2>1, <2>2, <2>3, PutVariantType DEF BuildSnp, DigestOf
  <2> HIDE DEF f
  <2>5. /\ mem'[c].tdx = mem[c].tdx
        /\ \A k \in Smps : mem'[c].variants[k] = IF k = n THEN v ELSE mem[c].variants[k]
        /\ \A k \in Smps : igvm'[k] = IF k = n THEN f ELSE igvm[k]
    BY <1>1, <2>2, <2>3, <2>4 DEF Manifest, TypeOK
  <2>6. manifest' = None /\ pc'[c] \in {"igvm", "firmware"}
        /\ UNCHANGED <<source, uki, args, bytes>>
    BY <1>1, <1>3, <1>7 DEF BuildVariant, TypeOK
  <2>7. \A k \in Smps : mem'[c].variants[k] # None =>
          /\ mem'[c].variants[k].digest = DigestOf(bytes[c].snp, bytes[c].uki, k)
          /\ mem'[c].variants[k].file = mem'[c].variants[k].digest
          /\ igvm'[k] = mem'[c].variants[k].digest
    BY <1>1, <2>2, <2>5 DEF BuildInv, f
  <2> QED
    BY <1>1, <1>2, <2>2, <2>3, <2>5, <2>6, <2>7 DEF BuildInv
<1>8. CASE CopyFirmware(c)
  <2>1. pc[c] = "firmware" /\ manifest' = None /\ pc'[c] = "disk"
        /\ UNCHANGED <<source, uki, igvm, private>>
        /\ (NeedsSnp(args[c].platform) => ovmf'["snp"] = source["snp"])
    BY <1>1, <1>3, <1>8 DEF CopyFirmware, TypeOK, Needs, Sides
  <2> QED
    BY <1>1, <1>2, <2>1 DEF BuildInv
<1>9. CASE MoveDisk(c)
  <2>1. pc[c] = "disk" /\ manifest' = None /\ pc'[c] \in {"tdx", "seal"}
        /\ disk' = bytes[c].uki /\ UNCHANGED <<source, uki, ovmf, igvm, private>>
    BY <1>1, <1>3, <1>9 DEF MoveDisk, TypeOK
  <2> QED
    BY <1>1, <1>2, <2>1 DEF BuildInv
<1>10. CASE MeasureTdx(c)
  <2>1. pc[c] = "tdx" /\ manifest' = None /\ pc'[c] = "seal" /\ mem[c] \in Manifest
        /\ NeedsTdx(args[c].platform)
        /\ UNCHANGED <<source, uki, disk, ovmf, igvm, args, bytes>>
    BY <1>1, <1>3, <1>10 DEF MeasureTdx, TypeOK, MemInv, BytesInv
  <2> DEFINE t == [fw |-> source["tdx"], mrtd |-> bytes[c].tdx,
                   uki |-> bytes[c].uki, disk |-> disk]
  <2>2. mem'[c] = [mem[c] EXCEPT !.tdx = t]
    BY <1>1, <1>10 DEF MeasureTdx, TypeOK
  <2>3. mem'[c].tdx = t /\ mem'[c].variants = mem[c].variants
    BY <2>1, <2>2 DEF Manifest
  <2> QED
    BY <1>1, <1>2, <2>1, <2>3 DEF BuildInv
<1>11. CASE ComposeManifest(c)
  <2>1. pc[c] = "seal" /\ manifest' = None /\ pc'[c] = "write" /\ mem[c] \in Manifest
        /\ UNCHANGED <<source, uki, disk, ovmf, igvm, args, bytes>>
    BY <1>1, <1>3, <1>11 DEF ComposeManifest, TypeOK, MemInv
  <2> DEFINE f == IF NeedsSnp(args[c].platform) THEN source["snp"] ELSE None
  <2>2. mem'[c] = [mem[c] EXCEPT !.uki = uki, !.disk = bytes[c].uki, !.fw = f]
    BY <1>1, <1>11 DEF ComposeManifest, TypeOK
  <2> HIDE DEF f
  <2>3. mem'[c].tdx = mem[c].tdx /\ mem'[c].variants = mem[c].variants
        /\ mem'[c].uki = uki /\ mem'[c].disk = bytes[c].uki /\ mem'[c].fw = f
    BY <2>1, <2>2 DEF Manifest
  <2> QED
    BY <1>1, <1>2, <2>1, <2>3 DEF BuildInv, f
<1>12. CASE WriteManifest(c)
  <2>1. /\ pc[c] = "write" /\ pc'[c] = "sealed" /\ mem[c] \in Manifest
        /\ manifest' = mem[c] /\ UNCHANGED <<uki, ovmf, igvm>>
        /\ derived' = {n \in Smps : mem[c].variants[n] # None}
    BY <1>1, <1>12 DEF WriteManifest, Exit, TypeOK, MemInv
  <2>2. VariantsOK(manifest)' /\ TdxOK(manifest)' /\ FilesOK(manifest)'
    BY <1>1, <2>1 DEF BuildInv, VariantsOK, TdxOK, FilesOK
  <2>3. SealInv'
    BY <2>1, <2>2 DEF SealInv
  <2> QED
    BY <2>1, <2>3, NothingPromised
<1> QED
  BY <1>4, <1>5, <1>6, <1>7, <1>8, <1>9, <1>10, <1>11, <1>12

\* What holds of the manifest igvm read stays true of the one it extends, and
\* files it writes agree with both.
LEMMA SerialDerive ==
    ASSUME SerialInv, NEW c \in Cmds,
           \/ DeriveRead(c) \/ CheckInputs(c) \/ PrepareOvmf(c) \/ ReadInputs(c)
           \/ DeriveVariant(c) \/ DeriveWrite(c)
    PROVE  SealInv' /\ CommandInv(c)'
<1> USE DEF Goto, directory, private, Extending, Deriving
<1>1. TypeOK /\ MemInv(c) /\ BytesInv(c) /\ LoopInv(c) /\ SealInv /\ DeriveInv(c)
  BY SerialParts
<1>2. ASSUME DeriveInv(c)', pc'[c] \in Extending PROVE CommandInv(c)'
  BY <1>2 DEF CommandInv, BuildInv, RunInv, LaunchInv, Building, Holding
<1>3. ASSUME pc[c] \in Extending
      PROVE  /\ mem[c] \in Manifest /\ manifest \in Manifest /\ Sealed(manifest)
             /\ VariantsOK(manifest) /\ TdxOK(manifest) /\ FilesOK(manifest)
             /\ \A n \in derived : manifest.variants[n] # None
  BY <1>1, <1>3, SealedManifest DEF MemInv, DeriveInv, SealInv
<1>4. CASE DeriveRead(c)
  <2>1. /\ pc'[c] = "dCheck" /\ manifest \in Manifest /\ mem'[c] = manifest
        /\ UNCHANGED <<uki, ovmf, igvm, manifest, derived>>
    BY <1>1, <1>4, SealedManifest DEF DeriveRead, TypeOK
  <2>2. VariantsOK(manifest) /\ TdxOK(manifest)
    BY <1>1, <2>1, SealedManifest DEF SealInv
  <2>3. VariantsOK(mem[c])' /\ TdxOK(mem[c])'
    BY <2>1, <2>2 DEF VariantsOK, TdxOK
  <2>4. DeriveInv(c)'
    BY <2>1, <2>3 DEF DeriveInv
  <2> QED
    BY <1>1, <1>2, <2>1, <2>4, SealKept
<1>5. CASE CheckInputs(c)
  <2>1. /\ pc[c] = "dCheck" /\ pc'[c] = "dOvmf" /\ uki = mem[c].uki
        /\ \/ mem[c].fw = source["snp"]
           \/ mem[c].fw = None /\ mem[c].variants = NoVariants
        /\ mem'[c] = [mem[c] EXCEPT !.fw = source["snp"]]
        /\ UNCHANGED <<source, uki, ovmf, igvm, manifest, derived>>
    BY <1>1, <1>5 DEF CheckInputs, TypeOK
  <2>2. mem[c] = manifest /\ manifest \in Manifest /\ VariantsOK(manifest) /\ TdxOK(manifest)
    BY <1>1, <1>3, <2>1 DEF DeriveInv
  <2>3. /\ mem'[c].uki = manifest.uki /\ mem'[c].disk = manifest.disk
        /\ mem'[c].tdx = manifest.tdx /\ mem'[c].variants = manifest.variants
        /\ mem'[c].fw = source["snp"]
    BY <2>1, <2>2 DEF Manifest
  <2>4. \A n \in Smps : manifest.variants[n] # None => manifest.fw = source["snp"]
    BY <2>1, <2>2 DEF NoVariants
  <2>5. VariantsOK(mem[c])'
    BY <2>1, <2>2, <2>3, <2>4 DEF VariantsOK
  <2>6. TdxOK(mem[c])'
    BY <2>1, <2>2, <2>3 DEF TdxOK
  <2>7. DeriveInv(c)'
    BY <2>1, <2>2, <2>3, <2>4, <2>5, <2>6 DEF DeriveInv
  <2> QED
    BY <1>1, <1>2, <2>1, <2>7, SealKept
<1>6. CASE PrepareOvmf(c)
  <2>1. /\ pc[c] = "dOvmf" /\ pc'[c] = "dBytes" /\ ovmf'["snp"] = mem[c].fw
        /\ mem[c].fw = source["snp"]
        /\ UNCHANGED <<source, uki, igvm, manifest, args, mem, bytes, todo, derived>>
    BY <1>1, <1>6 DEF PrepareOvmf, TypeOK, Sides, DeriveInv
  <2>2. manifest.fw \in {None, mem[c].fw}
    BY <1>1, <2>1 DEF DeriveInv
  <2>3. SealInv'
    BY <1>3, <2>1, <2>2 DEF SealInv, VariantsOK, TdxOK, FilesOK
  <2>4. DeriveInv(c)'
    BY <1>1, <2>1 DEF DeriveInv, VariantsOK, TdxOK
  <2> QED
    BY <1>2, <2>1, <2>3, <2>4
<1>7. CASE ReadInputs(c)
  <2>1. /\ pc[c] = "dBytes" /\ pc'[c] = "dIgvm"
        /\ bytes'[c] = [snp |-> ovmf["snp"], tdx |-> None, uki |-> uki]
        /\ UNCHANGED <<source, uki, ovmf, igvm, manifest, args, mem, todo, derived>>
    BY <1>1, <1>7 DEF ReadInputs, TypeOK
  <2>2. args[c].smps \ todo[c] = {}
    BY <1>1, <2>1 DEF LoopInv
  <2>3. DeriveInv(c)'
    BY <1>1, <2>1, <2>2 DEF DeriveInv, VariantsOK, TdxOK
  <2> QED
    BY <1>1, <1>2, <2>1, <2>3, SealKept
<1>8. CASE DeriveVariant(c)
  <2>1. PICK n \in todo[c] \ {0} :
          /\ \/ VariantUnchanged(c, n) /\ UNCHANGED <<igvm, mem>>
             \/ PutVariant(c, n)
          /\ todo' = [todo EXCEPT ![c] = @ \ {n}]
    BY <1>8 DEF DeriveVariant
  <2>2. /\ n \in Smps /\ pc[c] = "dIgvm" /\ pc'[c] \in {"dIgvm", "dWrite"}
        /\ todo'[c] = todo[c] \ {n}
        /\ UNCHANGED <<source, uki, ovmf, manifest, args, bytes, derived>>
    BY <1>1, <1>8, <2>1 DEF DeriveVariant, TypeOK
  <2>3. /\ mem[c] \in Manifest /\ manifest \in Manifest
        /\ bytes[c].snp \in Firmwares /\ bytes[c].uki \in Images
        /\ VariantsOK(manifest) /\ TdxOK(manifest) /\ FilesOK(manifest)
        /\ \A k \in derived : manifest.variants[k] # None
    BY <1>1, <1>3, <2>2 DEF BytesInv
  <2>4. /\ bytes[c].snp = mem[c].fw /\ bytes[c].uki = mem[c].uki
        /\ mem[c].uki = manifest.uki /\ VariantsOK(mem[c]) /\ TdxOK(mem[c])
        /\ \A k \in Smps : manifest.variants[k] # None =>
             manifest.fw = mem[c].fw /\ mem[c].variants[k] # None
        /\ \A k \in args[c].smps \ todo[c] :
             mem[c].variants[k] # None /\ igvm[k] = mem[c].variants[k].digest
        /\ args[c].smps \ todo[c] \subseteq Smps
    BY <1>1, <2>2 DEF DeriveInv, LoopInv
  <2> DEFINE f == DigestOf(mem[c].fw, mem[c].uki, n)
             v == [file |-> f, digest |-> f]
  <2>5. CASE VariantUnchanged(c, n) /\ UNCHANGED <<igvm, mem>>
    <3>1. igvm[n] = mem[c].variants[n].digest /\ mem[c].variants[n] # None
      BY <2>2, <2>4, <2>5 DEF VariantUnchanged, VariantsOK
    <3>2. VariantsOK(mem[c])' /\ TdxOK(mem[c])'
      BY <2>4, <2>5 DEF VariantsOK, TdxOK
    <3>3. DeriveInv(c)'
      BY <1>1, <2>2, <2>3, <2>4, <2>5, <3>1, <3>2 DEF DeriveInv
    <3> QED
      BY <1>1, <1>2, <2>2, <2>5, <3>3, SealKept
  <2>6. CASE PutVariant(c, n)
    <3>1. /\ igvm' = [igvm EXCEPT ![n] = f]
          /\ mem'[c] = [mem[c] EXCEPT !.variants = [mem[c].variants EXCEPT ![n] = v]]
          /\ v \in Variant
      BY <1>1, <2>2, <2>3, <2>4, <2>6, PutVariantType DEF BuildSnp, DigestOf
    <3>2. /\ f = DigestOf(mem[c].fw, mem[c].uki, n) /\ v # None
          /\ v.file = f /\ v.digest = f
      BY <3>1, WholeAssumption
    <3> HIDE DEF f, v
    <3>3. /\ mem'[c].tdx = mem[c].tdx /\ mem'[c].uki = mem[c].uki
          /\ mem'[c].disk = mem[c].disk /\ mem'[c].fw = mem[c].fw
          /\ \A k \in Smps : mem'[c].variants[k] = IF k = n THEN v ELSE mem[c].variants[k]
          /\ \A k \in Smps : igvm'[k] = IF k = n THEN f ELSE igvm[k]
      BY <1>1, <2>2, <2>3, <3>1 DEF Manifest, TypeOK
    <3>4. VariantsOK(mem[c])'
      BY <2>2, <2>4, <3>2, <3>3 DEF VariantsOK
    <3>5. TdxOK(mem[c])'
      BY <2>4, <3>3 DEF TdxOK
    <3>6. \A k \in args'[c].smps \ todo'[c] :
             mem'[c].variants[k] # None /\ igvm'[k] = mem'[c].variants[k].digest
      BY <2>2, <2>4, <3>2, <3>3
    <3>7. DeriveInv(c)'
      BY <1>1, <2>2, <2>3, <2>4, <3>2, <3>3, <3>4, <3>5, <3>6 DEF DeriveInv
    <3>8. VariantsOK(manifest)'
      BY <2>2, <2>3, <2>4, <3>2, <3>3 DEF VariantsOK
    <3>9. SealInv'
      BY <2>2, <2>3, <3>8 DEF SealInv, TdxOK, FilesOK
    <3> QED
      BY <1>2, <2>2, <3>7, <3>9
  <2> QED
    BY <2>1, <2>5, <2>6
<1>9. CASE DeriveWrite(c)
  <2>1. /\ pc[c] = "dWrite" /\ pc'[c] = "derived" /\ mem[c] \in Manifest
        /\ derived' = derived \cup args[c].smps /\ UNCHANGED <<uki, ovmf, igvm>>
    BY <1>1, <1>9 DEF DeriveWrite, Exit, TypeOK, MemInv
  <2>2. /\ manifest'.tdx = mem[c].tdx /\ manifest'.uki = mem[c].uki
        /\ manifest'.disk = mem[c].disk /\ manifest'.fw = mem[c].fw
        /\ manifest'.variants = mem[c].variants
    BY <1>9, <2>1 DEF DeriveWrite, Manifest
  <2>3. /\ VariantsOK(mem[c]) /\ TdxOK(mem[c]) /\ uki = mem[c].uki /\ ovmf["snp"] = mem[c].fw
        /\ \A k \in Smps : manifest.variants[k] # None => mem[c].variants[k] # None
        /\ \A k \in args[c].smps : mem[c].variants[k] # None
    BY <1>1, <2>1 DEF DeriveInv, LoopInv
  <2>4. \A k \in derived' : manifest'.variants[k] # None
    BY <1>1, <1>3, <2>1, <2>2, <2>3 DEF TypeOK
  <2>5. VariantsOK(manifest)' /\ TdxOK(manifest)' /\ FilesOK(manifest)'
    BY <2>1, <2>2, <2>3 DEF VariantsOK, TdxOK, FilesOK
  <2>6. SealInv'
    BY <2>4, <2>5 DEF SealInv
  <2> QED
    BY <2>1, <2>6, NothingPromised
<1> QED
  BY <1>4, <1>5, <1>6, <1>7, <1>8, <1>9

\* run boots the files beside the manifest it read, which nobody changed since.
LEMMA SerialLaunch ==
    ASSUME SerialInv, NEW c \in Cmds, RunRead(c) \/ RunSnp(c) \/ RunKvm(c)
    PROVE  SealInv' /\ CommandInv(c)'
<1> USE DEF Goto, directory
<1>1. TypeOK /\ SealInv /\ RunInv(c)
  BY SerialParts
<1>2. SealInv'
  BY <1>1, SealKept DEF RunRead, RunSnp, RunKvm
<1>3. ASSUME RunInv(c)', LaunchInv(c)', pc'[c] \in {"rLaunch", "launched"} PROVE CommandInv(c)'
  BY <1>3 DEF CommandInv, BuildInv, DeriveInv, Building, Holding, Extending, Deriving
<1>4. CASE RunRead(c)
  <2>1. pc'[c] = "rLaunch" /\ manifest \in Manifest /\ mem'[c] = manifest /\ manifest' = manifest
    BY <1>1, <1>4, SealedManifest DEF RunRead, TypeOK
  <2> QED
    BY <1>2, <1>3, <2>1 DEF RunInv, LaunchInv
<1>5. ASSUME pc[c] = "rLaunch"
      PROVE  mem[c] = manifest /\ VariantsOK(manifest) /\ FilesOK(manifest)
  BY <1>1, <1>5, SealedManifest DEF RunInv, SealInv
<1>6. CASE RunSnp(c)
  <2>1. pc[c] = "rLaunch" /\ pc'[c] = "launched"
    BY <1>1, <1>6 DEF RunSnp, TypeOK
  <2>2. PICK n \in Smps : /\ mem[c].variants[n] # None /\ igvm[n] # None
                          /\ launched'[c] = [tier |-> "snp", file |-> igvm[n],
                                             digest |-> mem[c].variants[n].digest]
    BY <1>1, <1>6 DEF RunSnp, SelectVariant, TypeOK
  <2>3. igvm[n] \in {Torn, mem[c].variants[n].digest}
    BY <1>5, <2>1, <2>2 DEF VariantsOK
  <2>4. LaunchInv(c)'
    BY <2>1, <2>2, <2>3 DEF LaunchInv
  <2> QED
    BY <1>2, <1>3, <2>1, <2>4 DEF RunInv
<1>7. CASE RunKvm(c)
  <2> DEFINE f == IF args[c].override THEN source["snp"] ELSE ovmf["snp"]
  <2>1. /\ pc[c] = "rLaunch" /\ pc'[c] = "launched" /\ UNCHANGED mem
        /\ uki # None /\ f # None /\ (args[c].override \/ mem[c].fw # None)
        /\ launched'[c] = [tier |-> "kvm", uki |-> uki, fw |-> f,
                           override |-> args[c].override]
    BY <1>1, <1>7 DEF RunKvm, TypeOK
  <2>2. uki = mem[c].uki /\ (args[c].override \/ f \in {Torn, mem[c].fw})
    BY <1>5, <2>1 DEF FilesOK
  <2>3. LaunchInv(c)'
    BY <2>1, <2>2 DEF LaunchInv
  <2> QED
    BY <1>2, <1>3, <2>1, <2>3 DEF RunInv
<1> QED
  BY <1>4, <1>6, <1>7

\* A command cut short leaves what it was writing torn, what it was removing
\* removed, and the seal true of what is left.
LEMMA SerialStop ==
    ASSUME SerialInv, NEW c \in Cmds, Stop(c)
    PROVE  SealInv' /\ CommandInv(c)'
<1>1. TypeOK /\ SealInv /\ BuildInv(c) /\ DeriveInv(c)
  BY SerialParts
<1>2. pc'[c] = "failed" /\ derived' = derived
  BY <1>1 DEF Stop, Exit, TypeOK
<1>3. CommandInv(c)'
  BY <1>2, NothingPromised
<1>4. SUFFICES ASSUME Sealed(manifest)' PROVE SealInv'
  BY <1>3 DEF SealInv
<1>5. manifest' = manifest /\ Sealed(manifest)
  BY <1>4 DEF Stop, HalfDone, Or, Sealed
<1>6. pc[c] \notin Building \ {"reset"}
  BY <1>1, <1>5, SealedManifest DEF BuildInv
<1>7. VariantsOK(manifest) /\ TdxOK(manifest) /\ FilesOK(manifest)
      /\ \A n \in derived : manifest.variants[n] # None
  BY <1>1, <1>5 DEF SealInv
<1>8. uki' \in {uki, None}
  BY <1>6 DEF Stop, HalfDone, Or, Building
<1>9. \A n \in Smps : igvm'[n] \in {igvm[n], None, Torn}
  BY <1>1 DEF Stop, HalfDone, TypeOK
<1>10. manifest.fw # None => ovmf'["snp"] \in {None, Torn, manifest.fw}
  <2>1. \/ ovmf'["snp"] \in {ovmf["snp"], None, Torn}
        \/ pc[c] = "dOvmf" /\ ovmf'["snp"] = source["snp"]
    BY <1>6 DEF Stop, HalfDone, Or, Building, Sides
  <2>2. pc[c] = "dOvmf" => manifest.fw \in {None, source["snp"]}
    BY <1>1 DEF DeriveInv, Extending, Deriving
  <2> QED
    BY <1>7, <2>1, <2>2 DEF FilesOK
<1> QED
  BY <1>2, <1>5, <1>7, <1>8, <1>9, <1>10 DEF SealInv, VariantsOK, TdxOK, FilesOK

\* Every step keeps the seal and what the commands promise, if no command starts
\* while another is active and firmware is replaced only between commands.
LEMMA SerialStep ==
    ASSUME ~Overlap, EditMode = "between"
    PROVE  SerialInv /\ [Next]_vars => SerialInv'
<1> SUFFICES ASSUME SerialInv, [Next]_vars PROVE SerialInv'
  OBVIOUS
<1>1. ShapeInv'
  BY ShapeStep DEF SerialInv
<1>2. ASSUME NEW c \in Cmds, Step(c) \/ Stop(c) PROVE SerialInv'
  <2>1. SealInv' /\ CommandInv(c)'
    BY <1>2, SerialStarts, SerialBuild, SerialDerive, SerialLaunch, SerialStop DEF Step
  <2>2. ASSUME NEW d \in Cmds, d # c
        PROVE  /\ pc[d] \notin Active
               /\ pc'[d] = pc[d] /\ mem'[d] = mem[d] /\ launched'[d] = launched[d]
    BY <1>2, <2>2, Alone, OthersStay DEF SerialInv, ShapeInv
  <2>3. OneActive'
    BY <2>2 DEF OneActive
  <2>4. ASSUME NEW d \in Cmds, d # c PROVE CommandInv(d)'
    <3>1. LaunchInv(d)
      BY DEF SerialInv, CommandInv
    <3>2. /\ pc'[d] \notin Active
          /\ pc'[d] = pc[d] /\ mem'[d] = mem[d] /\ launched'[d] = launched[d]
      BY <2>2, <2>4
    <3> QED
      BY <3>1, <3>2 DEF CommandInv, BuildInv, DeriveInv, RunInv, LaunchInv, Active, Building,
                        Holding, Extending, Deriving
  <2> QED
    BY <1>1, <2>1, <2>3, <2>4 DEF SerialInv
<1>3. ASSUME NEW s \in Sides, ReplaceFirmware(s) PROVE SerialInv'
  <2>1. Quiet /\ UNCHANGED <<directory, pc, private, derived>>
    BY <1>3 DEF ReplaceFirmware
  <2>2. SealInv' /\ OneActive'
    BY <2>1, SealKept DEF SerialInv, directory, OneActive
  <2>3. ASSUME NEW d \in Cmds PROVE CommandInv(d)'
    <3>1. LaunchInv(d) /\ pc'[d] \notin Active /\ pc'[d] = pc[d]
          /\ mem'[d] = mem[d] /\ launched'[d] = launched[d]
      BY <2>1 DEF SerialInv, CommandInv, Quiet, private
    <3> QED
      BY <3>1 DEF CommandInv, BuildInv, DeriveInv, RunInv, LaunchInv, Active, Building,
                  Holding, Extending, Deriving
  <2> QED
    BY <1>1, <2>2, <2>3 DEF SerialInv
<1>4. ASSUME UNCHANGED vars PROVE SerialInv'
  BY <1>1, <1>4 DEF SerialInv, vars, OneActive, SealInv, VariantsOK, TdxOK, FilesOK, Sealed,
                    CommandInv, BuildInv, DeriveInv, RunInv, LaunchInv
<1> QED
  BY <1>2, <1>3, <1>4 DEF Next

\* Initially the directory is empty and nothing runs.
LEMMA SerialInit == Init => SerialInv
  BY ShapeInit, SealedManifest
     DEF Init, SerialInv, OneActive, SealInv, CommandInv, BuildInv, DeriveInv, RunInv,
         LaunchInv, Active, Building, Holding, Extending, Deriving

\* The invariant gives what the runs check.
LEMMA SerialGives ==
    SerialInv => /\ SnpMeasuredAsRecorded /\ TdxMeasuredAsRecorded
                 /\ LaunchIsSealed /\ EveryVariantHasEntry
<1> SUFFICES ASSUME SerialInv
             PROVE  /\ SnpMeasuredAsRecorded /\ TdxMeasuredAsRecorded
                    /\ LaunchIsSealed /\ EveryVariantHasEntry
  OBVIOUS
<1>1. SealInv /\ \A c \in Cmds : LaunchInv(c)
  BY DEF SerialInv, CommandInv
<1>2. SnpMeasuredAsRecorded
  BY <1>1 DEF SealInv, VariantsOK, DigestOf, SnpMeasuredAsRecorded
<1>3. TdxMeasuredAsRecorded
  BY <1>1 DEF SealInv, TdxOK, TdxMeasuredAsRecorded
<1>4. LaunchIsSealed
  BY <1>1 DEF LaunchInv, LaunchIsSealed
<1>5. EveryVariantHasEntry
  BY <1>1 DEF SealInv, EveryVariantHasEntry
<1> QED
  BY <1>2, <1>3, <1>4, <1>5

-----------------------------------------------------------------------------
(* Theorems, for commands that do not overlap                              *)

\* Serial commands keep the invariant.
LEMMA Serial ==
    ASSUME ~Overlap, EditMode = "between"
    PROVE  Spec => []SerialInv
<1>1. Init => SerialInv
  BY SerialInit
<1>2. SerialInv /\ [Next]_vars => SerialInv'
  BY SerialStep
<1> QED
  BY <1>1, <1>2, PTL DEF Spec

\* Every SNP launch digest in a sealed manifest is of the firmware and the UKI
\* that manifest records: build hashes what it measured, and prepare_inputs lets
\* igvm add variants only with the recorded firmware.
THEOREM SnpStaysMeasured ==
    ASSUME ~Overlap, EditMode = "between"
    PROVE  Spec => []SnpMeasuredAsRecorded
<1>1. SerialInv => SnpMeasuredAsRecorded
  BY SerialGives
<1> QED
  BY <1>1, Serial, PTL

\* The TDX entry is measured from the firmware, UKI and disk it is recorded with,
\* through any number of igvm runs after the build.
THEOREM TdxStaysMeasured ==
    ASSUME ~Overlap, EditMode = "between"
    PROVE  Spec => []TdxMeasuredAsRecorded
<1>1. SerialInv => TdxMeasuredAsRecorded
  BY SerialGives
<1> QED
  BY <1>1, Serial, PTL

\* run, which hashes nothing, boots what the manifest it read describes or a file
\* cut short by a kill.
THEOREM LaunchStaysSealed ==
    ASSUME ~Overlap, EditMode = "between"
    PROVE  Spec => []LaunchIsSealed
<1>1. SerialInv => LaunchIsSealed
  BY SerialGives
<1> QED
  BY <1>1, Serial, PTL

\* No later command drops the entry of a vCPU count that build or igvm reported.
THEOREM EntriesStay ==
    ASSUME ~Overlap, EditMode = "between"
    PROVE  Spec => []EveryVariantHasEntry
<1>1. SerialInv => EveryVariantHasEntry
  BY SerialGives
<1> QED
  BY <1>1, Serial, PTL

\* The step of igvm that replaces a sealed manifest keeps what it records.
LEMMA DeriveWriteKeeps ==
    ASSUME SerialInv, NEW c \in Cmds, DeriveWrite(c)
    PROVE  /\ manifest'.uki = manifest.uki /\ manifest'.disk = manifest.disk
           /\ manifest'.tdx = manifest.tdx
           /\ manifest.fw \in {None, manifest'.fw}
           /\ \A n \in Smps : manifest.variants[n] # None
                => manifest'.variants[n] # None
                   /\ manifest'.variants[n].digest = manifest.variants[n].digest
           /\ \A n \in args[c].smps :
                /\ manifest'.variants[n] # None
                /\ igvm'[n] = manifest'.variants[n].digest
<1>1. TypeOK /\ MemInv(c) /\ LoopInv(c) /\ SealInv /\ DeriveInv(c)
  BY SerialParts
<1>2. pc[c] = "dWrite" /\ mem[c] \in Manifest /\ manifest \in Manifest /\ igvm' = igvm
  BY <1>1 DEF DeriveWrite, MemInv, DeriveInv, Extending, Deriving
<1>3. /\ manifest'.tdx = mem[c].tdx /\ manifest'.uki = mem[c].uki
      /\ manifest'.disk = mem[c].disk /\ manifest'.fw = mem[c].fw
      /\ manifest'.variants = mem[c].variants
  BY <1>2 DEF DeriveWrite, Manifest
<1>4. /\ mem[c].uki = manifest.uki /\ mem[c].disk = manifest.disk
      /\ mem[c].tdx = manifest.tdx /\ manifest.fw \in {None, mem[c].fw}
      /\ \A n \in Smps : manifest.variants[n] # None =>
           manifest.fw = mem[c].fw /\ mem[c].variants[n] # None
      /\ VariantsOK(mem[c]) /\ VariantsOK(manifest)
  BY <1>1, <1>2, SealedManifest DEF DeriveInv, Extending, Deriving, SealInv
<1>5. \A n \in Smps : manifest.variants[n] # None =>
        mem[c].variants[n].digest = manifest.variants[n].digest
  BY <1>4 DEF VariantsOK
<1>6. \A n \in args[c].smps :
        mem[c].variants[n] # None /\ igvm[n] = mem[c].variants[n].digest
  BY <1>1, <1>2 DEF DeriveInv, LoopInv
<1> QED
  BY <1>2, <1>3, <1>4, <1>5, <1>6

\* Only igvm replaces a sealed manifest by another; only its last step succeeds.
LEMMA WhoWrites ==
    ASSUME SerialInv, Next
    PROVE  /\ Sealed(manifest) /\ Sealed(manifest') /\ manifest' # manifest =>
                \E c \in Cmds : DeriveWrite(c)
           /\ \A d \in Cmds : pc[d] = "dWrite" /\ pc'[d] = "derived" => DeriveWrite(d)
<1> USE DEF directory, Goto
<1>1. ASSUME NEW s \in Sides, ReplaceFirmware(s) PROVE UNCHANGED <<manifest, pc>>
  BY <1>1 DEF ReplaceFirmware
<1>2. ASSUME NEW c \in Cmds, Step(c) \/ Stop(c), ~DeriveWrite(c)
      PROVE  /\ Sealed(manifest) /\ Sealed(manifest') => manifest' = manifest
             /\ \A d \in Cmds : pc[d] = "dWrite" => pc'[d] # "derived"
  <2>1. TypeOK /\ BuildInv(c)
    BY SerialParts
  <2>2. pc[c] = "dWrite" => pc'[c] # "derived"
    BY <1>2, <2>1 DEF Step, Stop, BuildStart, DeriveStart, RunStart, Enter, Exit, ResetOutput,
            MoveUki, ReadFirmware, BuildVariant, BuildRefuses, CopyFirmware, MoveDisk, MeasureTdx,
            ComposeManifest, WriteManifest, DeriveRead, CheckInputs, PrepareOvmf, ReadInputs,
            DeriveVariant, DeriveRefuses, RunRead, RunSnp, RunKvm, RunRefuses, TypeOK, Active,
            Building
  <2>3. ASSUME NEW d \in Cmds, d # c PROVE pc[d] = "dWrite" => pc'[d] # "derived"
    BY <1>2, <2>1, <2>3, OthersStay
  <2>4. ASSUME Sealed(manifest), Sealed(manifest') PROVE manifest' = manifest
    <3>1. CASE Stop(c)
      BY <2>4, <3>1 DEF Stop, HalfDone, Or, Sealed
    <3>2. CASE ResetOutput(c)
      BY <2>4, <3>2 DEF ResetOutput, Sealed
    <3>3. CASE WriteManifest(c)
      BY <2>1, <2>4, <3>3 DEF WriteManifest, BuildInv, Building, Sealed
    <3>4. CASE ~(Stop(c) \/ ResetOutput(c) \/ WriteManifest(c))
      BY <1>2, <3>4 DEF Step, BuildStart, DeriveStart, RunStart, MoveUki, ReadFirmware,
            BuildVariant, BuildRefuses, CopyFirmware, MoveDisk, MeasureTdx, ComposeManifest,
            DeriveRead, CheckInputs, PrepareOvmf, ReadInputs, DeriveVariant, DeriveRefuses,
            RunRead, RunSnp, RunKvm, RunRefuses
    <3> QED
      BY <3>1, <3>2, <3>3, <3>4
  <2> QED
    BY <2>2, <2>3, <2>4
<1>3. ASSUME NEW c \in Cmds, DeriveWrite(c), NEW d \in Cmds, pc[d] = "dWrite", pc'[d] = "derived"
      PROVE  d = c
  <2>1. Step(c)
    BY <1>3 DEF Step
  <2> QED
    BY <1>3, <2>1, OthersStay DEF SerialInv, ShapeInv
<1> QED
  BY <1>1, <1>2, <1>3 DEF Next

\* igvm extends a sealed manifest and takes nothing back: image, TDX entry and
\* recorded firmware stay, no variant is dropped and no digest changes.
THEOREM DeriveExtends ==
    ASSUME ~Overlap, EditMode = "between"
    PROVE  Spec => DeriveKeepsSeal
<1>1. SerialInv /\ [Next]_vars =>
        [Sealed(manifest) /\ Sealed(manifest') =>
          /\ manifest'.uki = manifest.uki /\ manifest'.disk = manifest.disk
          /\ manifest'.tdx = manifest.tdx
          /\ manifest.fw \in {None, manifest'.fw}
          /\ \A n \in Smps : manifest.variants[n] # None
               => manifest'.variants[n] # None
                  /\ manifest'.variants[n].digest = manifest.variants[n].digest]_vars
  <2> SUFFICES ASSUME SerialInv, Next, Sealed(manifest), Sealed(manifest')
        PROVE
          /\ manifest'.uki = manifest.uki /\ manifest'.disk = manifest.disk
          /\ manifest'.tdx = manifest.tdx
          /\ manifest.fw \in {None, manifest'.fw}
          /\ \A n \in Smps : manifest.variants[n] # None
               => manifest'.variants[n] # None
                  /\ manifest'.variants[n].digest = manifest.variants[n].digest
    OBVIOUS
  <2>1. CASE manifest' = manifest
    BY <2>1
  <2>2. CASE \E c \in Cmds : DeriveWrite(c)
    BY <2>2, DeriveWriteKeeps
  <2> QED
    BY <2>1, <2>2, WhoWrites
<1> QED
  BY <1>1, Serial, PTL DEF Spec, DeriveKeepsSeal

\* When igvm reports success, every count it was asked for has an entry and a whole
\* file that measures to that entry's digest, whatever interrupted commands left.
THEOREM DeriveSucceeds ==
    ASSUME ~Overlap, EditMode = "between"
    PROVE  Spec => DeriveDelivers
<1>1. SerialInv /\ [Next]_vars =>
        [\A c \in Cmds : pc[c] = "dWrite" /\ pc'[c] = "derived" =>
          \A n \in args[c].smps :
            /\ manifest'.variants[n] # None
            /\ igvm'[n] = manifest'.variants[n].digest]_vars
  BY WhoWrites, DeriveWriteKeeps
<1> QED
  BY <1>1, Serial, PTL DEF Spec, DeriveDelivers
=============================================================================
