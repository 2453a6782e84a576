----------------------------- MODULE TdxMeasure -----------------------------
(***************************************************************************)
(* Predicting and checking TDX measurements (src/crates/tdx-measure) and    *)
(* the createContainer hook that extends RTMR[3] (src/crates/rtmr3-hook).   *)
(*                                                                         *)
(* A TD boots: its firmware, boot loader and kernel stub extend RTMR[0..2]  *)
(* and log every extend in the CCEL.  On the host, a log saved from a       *)
(* reference boot is damaged or goes stale; `verify` replays it against a   *)
(* TDREPORT, `extract-platform` turns it into files, and `measure` predicts *)
(* the registers of a boot that has yet to happen.  In a running TD, hooks  *)
(* of containers created concurrently extend RTMR[3], which is not logged.  *)
(*                                                                         *)
(* SHA-384 is injective: a digest is the value it was taken of, a register  *)
(* the sequence of the digests extended into it.  Bytes are sequences of    *)
(* tokens; memory is counted in pages.                                      *)
(***************************************************************************)
EXTENDS Naturals, FiniteSets, Sequences, Filters

CONSTANTS
    Platforms,      \* by name: firmware, memory, ACPI tables, boot variables
    Images,         \* by name: what it boots, in mode "uki" or "direct-kernel"
    Boots,          \* which image a machine boots
    Measures,       \* measure commands: of which boot, where the platform data
                    \* is from, with the disk or not
    Containers,     \* to create: type and image reference
    Faults,         \* what happens to copies of a log, and at which record
    LowEnd,         \* 0x8000_0000: end of low memory when it is split,
    SplitFrom,      \* 0xB000_0000: the smallest memory size that is,
    HighBase,       \* 0x1_0000_0000: where the rest of it goes
    MaxEvents,      \* events parse_ccel takes
    MaxContainers,  \* bound on the containers of a pod
    MaxOperations,  \* bound on boots, copies, commands and containers together
    None

ASSUME MemoryAssumption ==
    /\ {LowEnd, SplitFrom, HighBase} \subseteq Nat
    /\ LowEnd < SplitFrom /\ SplitFrom <= HighBase

\* No entry of a GUID table has length 0, nor do the bytes below one read as such
\* an entry.
ASSUME TableAssumption ==
    \A p \in DOMAIN Platforms : \A i \in DOMAIN Platforms[p].fw.table :
        Platforms[p].fw.table[i].len > 0

\* The machines there are: the TDX entry is in the table, there is one TD HOB and
\* one configuration volume, accepted sections are disjoint and leave the end of
\* low memory free, measured ones are full.
Accepted(s) == s.type \in {"TD_HOB", "TEMP_MEM"} /\ s.pages > 0
ASSUME MachineAssumption ==
    /\ Boots \subseteq [platform : DOMAIN Platforms, image : DOMAIN Images]
    /\ \A p \in {b.platform : b \in Boots} :
         LET sections == Platforms[p].fw.sections
         IN  /\ Platforms[p].memory \in Nat \ {0}
             /\ sections \in Seq(ToSet(sections))
             /\ \A type \in {"TD_HOB", "TD_CFV"} : \E k \in DOMAIN sections :
                  \A i \in DOMAIN sections : sections[i].type = type <=> i = k
             /\ \A i, j \in DOMAIN sections :
                  LET s == sections[i]  t == sections[j]
                  IN  /\ {s.base, s.pages} \subseteq Nat
                      /\ Accepted(s) /\ Accepted(t) /\ i # j =>
                           s.base + s.pages <= t.base \/ t.base + t.pages <= s.base
                      /\ Accepted(s) => s.base + s.pages < LowEnd
                      /\ Accepted(s) => s.base + s.pages < Platforms[p].memory
                      /\ s.extend => s.raw = s.pages

\* Boot orders list load options the platform has; no load option and no ACPI table
\* has the bytes of a boot order.  A log does not hash the names of variables: two
\* machines with one boot order do not have neighbouring options exchanged.
\* Firmware ends a log in one of three ways.
ASSUME PlatformAssumption ==
    \A b, c \in Boots :
        LET p == Platforms[b.platform]  q == Platforms[c.platform]
        IN  /\ p.order \in Seq(DOMAIN p.options) /\ "BootOrder" \notin DOMAIN p.options
            /\ \A i \in DOMAIN p.order : p.options[p.order[i]] # q.order
            /\ p.acpi.tables # q.order
            /\ p.order = q.order =>
                 \A i \in 1 .. Len(p.order) - 1 :
                    LET m == p.order[i]  n == p.order[i + 1]
                    IN  p.options[m] = q.options[n] /\ p.options[n] = q.options[m]
                          => p.options[m] = p.options[n]
            /\ p.fw.logEnd \in {"terminator", "padding", "none"}

\* The images there are: a UKI has each of its sections once; a command line in a
\* file has one newline at most, at its end.
ASSUME ImageAssumption ==
    \A b \in Boots :
        LET im == Images[b.image]
        IN  \/ /\ im.mode = "direct-kernel"
               /\ im.cmdline \in Seq(ToSet(im.cmdline))
               /\ \A i \in DOMAIN im.cmdline : im.cmdline[i] = "\n" => i = Len(im.cmdline)
            \/ /\ im.mode = "uki"
               /\ im.sections \in Seq(ToSet(im.sections))
               /\ \A i, j \in DOMAIN im.sections :
                    im.sections[i].name = im.sections[j].name => i = j
               /\ {".cmdline", ".initrd", ".osrel"} \subseteq {s.name : s \in ToSet(im.sections)}
               /\ \A s \in ToSet(im.sections) :
                    s.name = ".cmdline" => s.data \in Seq(ToSet(s.data))

ASSUME MeasureAssumption ==
    \A m \in Measures :
        m.source \in {"platform-ccel", "files", "raw", "none"} /\ m.disk \in BOOLEAN

ASSUME NoneAssumption == None \notin {"passed", "failed"}

\* An image reference: its form, the hash its digest names and how that is spelled.
ASSUME ContainerAssumption ==
    \A c \in Containers :
        \/ c.ref = None
        \/ c.ref = [form |-> c.ref.form, hash |-> c.ref.hash, upper |-> c.ref.upper]

VARIABLES
    td,         \* what the running TD booted, and RTMR[3]
    pod,        \* its containers, in the order createContainer was called
    orderly,    \* ghost: no call overlapped another one or failed late
    ccel,       \* the event log saved on the host, as damaged since; or None
    dir,        \* the directory extract-platform writes
    cmd,        \* the command running on the host, or None
    verdict,    \* what verify said of ccel and td, until the next command
    predicted,  \* what measure printed, until the next command
    operations  \* boots, copies, commands and containers so far
vars == <<td, pod, orderly, ccel, dir, cmd, verdict, predicted, operations>>

guest == <<td, pod, orderly>>
files == <<ccel, dir>>
host == <<cmd, verdict, predicted>>

Operate == operations < MaxOperations /\ operations' = operations + 1

Digests(events) == [i \in DOMAIN events |-> events[i].digest]
\* The digests of the events of RTMR[i].
Of(i, events) == Digests(Where(events, LAMBDA e : e.mr = i + 1))

-----------------------------------------------------------------------------
(* The TD: firmware, boot loader, kernel stub (external)                    *)

\* An event is logged with the data its digest was taken of.
Record(mr, type, digest, name) ==
    [mr |-> mr, type |-> type, digest |-> digest, data |-> digest, readable |-> TRUE,
     name |-> name, alg |-> "SHA-384", whole |-> TRUE]
Event(mr, type, digest) == Record(mr, type, digest, None)
Variable(name, data) == Record(1, "VARIABLE_BOOT", data, name)

SecureBootVars == <<<<"SecureBoot">>, <<"PK">>, <<"KEK">>, <<"db">>, <<"dbx">>>>
Separator == <<"0000">>
\* UKI_MEASUREMENT_ORDER
SectionOrder == <<".linux", ".osrel", ".cmdline", ".initrd", ".uname", ".splash", ".dtb",
                  ".sbat", ".pcrpkey">>
Padding == 255  \* a register number of 0xFFFF_FFFF

\* The VMM's memory map: accepted sections, the gaps between them, the end of
\* memory moved above 4 GiB on a large machine; in the order of addresses.
MemoryMap(p) ==
    LET acc == {s \in ToSet(p.fw.sections) : Accepted(s)}
        from == {0} \cup {s.base + s.pages : s \in acc}
        to == {p.memory} \cup {s.base : s \in acc}
        free(a, b) == a < b /\ \A s \in acc : s.base + s.pages <= a \/ b <= s.base
        gaps == {g \in from \X to : free(g[1], g[2])}
        hob(type, a, b) == [type |-> type, start |-> a, length |-> b - a]
        large == p.memory >= SplitFrom
        hobs == {hob("SYSTEM", s.base, s.base + s.pages) : s \in acc}
                  \cup {hob("UNACCEPTED", g[1], IF large /\ g[2] = p.memory THEN LowEnd ELSE g[2]) :
                          g \in gaps}
                  \cup (IF large THEN {hob("UNACCEPTED", HighBase, HighBase + p.memory - LowEnd)}
                                 ELSE {})
    IN  CHOOSE m \in SetToSeqs(hobs) : \A i, j \in DOMAIN m : i < j => m[i].start < m[j].start

Section(p, type) == CHOOSE s \in ToSet(p.fw.sections) : s.type = type
Raw(fw, s) == SubSeq(fw.bytes, s.off + 1, s.off + s.raw)

FirmwareEvents(p) ==
    <<Event(0, "NO_ACTION", <<"signature">>),
      Event(1, "PLATFORM_CONFIG_FLAGS", <<"hob", Section(p, "TD_HOB").base, MemoryMap(p)>>),
      Event(1, "FIRMWARE_BLOB2", Raw(p.fw, Section(p, "TD_CFV")))>>
    \o [i \in DOMAIN SecureBootVars |-> Event(1, "VARIABLE_DRIVER_CONFIG", SecureBootVars[i])]
    \o <<Event(1, "SEPARATOR", Separator),
         Event(1, "PLATFORM_CONFIG_FLAGS", p.acpi.loader),
         Event(1, "PLATFORM_CONFIG_FLAGS", p.acpi.rsdp),
         Event(1, "PLATFORM_CONFIG_FLAGS", p.acpi.tables),
         Variable("BootOrder", p.order)>>
    \o [i \in DOMAIN p.order |-> Variable(p.order[i], p.options[p.order[i]])]

\* The firmware hashes a PE as authenticode_sha384 does: all but its certificate
\* table, in file order.
Authenticode(im) ==
    <<"pe">> \o IF im.mode = "uki"
                THEN FlattenSeq([i \in DOMAIN im.sections |-> im.sections[i].data])
                ELSE im.kernel
\* A command line without what is blank at its end.
Line(bytes, blank) ==
    SubSeq(bytes, 1, CHOOSE n \in 0 .. Len(bytes) :
                        /\ n > 0 => bytes[n] \notin blank
                        /\ \A i \in n + 1 .. Len(bytes) : bytes[i] \in blank)
Blank == {"\n", "\r", "NUL", " "}

ImageEvents(im) ==
    LET action(a) == Event(2, "ACTION", <<a>>)
        app(pe) == Event(2, "BOOT_SERVICES_APPLICATION", pe)
        tag(d) == Event(3, "EVENT_TAG", d)
        data(n) == (CHOOSE s \in ToSet(im.sections) : s.name = n).data
        present == Where(SectionOrder, LAMBDA n : \E s \in ToSet(im.sections) : s.name = n)
        exit == <<action("Exit Invocation"), action("Exit Success")>>
    IN  IF im.mode = "direct-kernel"
        THEN <<app(Authenticode(im)), action("Calling"), Event(2, "SEPARATOR", Separator),
               tag(<<"utf16">> \o Line(im.cmdline, {"\n"}))>> \o exit
        ELSE <<action("Calling"), Event(2, "SEPARATOR", Separator),
               Event(2, "GPT", <<"gpt">> \o im.disk.header
                               \o Where(im.disk.slots, LAMBDA s : s # None)),
               app(<<"pe">> \o im.disk.loader), app(Authenticode(im))>>
             \o FlattenSeq([i \in DOMAIN present |->
                  <<Event(3, "IPL", <<"name", present[i]>>), Event(3, "IPL", data(present[i]))>>])
             \o <<tag(<<"utf16">> \o Line(data(".cmdline"), Blank)),
                  tag(data(".initrd") \o <<"cpio">> \o data(".osrel"))>>
             \o exit

\* The VMM loads each section, zeros after its raw data, and the TDX module
\* measures its pages.
Launch(fw) ==
    LET page(s, i) == IF i <= s.raw THEN fw.bytes[s.off + i] ELSE 0
        records(s, i) ==
            (IF s.aug THEN <<>> ELSE <<[add |-> s.base + i - 1]>>)
            \o (IF s.extend THEN <<[extend |-> s.base + i - 1, data |-> page(s, i)]>> ELSE <<>>)
    IN  FlattenSeq([k \in DOMAIN fw.sections |->
            FlattenSeq([i \in 1 .. fw.sections[k].pages |-> records(fw.sections[k], i)])])

\* What a boot of p and im logs, and leaves in RTMR[0..2].
BootLog == [b \in Boots |-> FirmwareEvents(Platforms[b.platform]) \o ImageEvents(Images[b.image])]
BootRegisters == [b \in Boots |-> [i \in 0 .. 2 |-> Of(i, BootLog[b])]]
Registers(t) == [i \in 0 .. 3 |-> IF i = 3 THEN t.rtmr3 ELSE BootRegisters[t.boot][i]]

\* Copies of a CCEL: whole, with a damaged header, or damaged at one record: cut
\* before it or inside it, without it, with it after the next one, with it having
\* no SHA-384 digest, with other event data, or with lengths in its event data
\* that do not fit.
Undamaged == [kind |-> "none", at |-> 0]
CcelFiles == [boot : Boots, fault : Faults \cup {Undamaged}]

\* A TD runs; a log of an earlier boot may be at hand.
Init ==
    /\ td \in [boot : Boots, rtmr3 : {<<>>}]
    /\ pod = <<>> /\ orderly = TRUE
    /\ ccel \in {None} \cup [boot : Boots, fault : {Undamaged}]
    /\ dir = [acpi |-> None, vars |-> <<>>, of |-> None]
    /\ cmd = None /\ verdict = None /\ predicted = None
    /\ operations = 0

Boot(b) ==
    /\ Operate
    /\ td' = [boot |-> b, rtmr3 |-> <<>>]
    /\ pod' = <<>> /\ orderly' = TRUE
    /\ verdict' = None
    /\ UNCHANGED <<files, cmd, predicted>>

\* Someone copies the CCEL out of the TD.
SaveCcel ==
    /\ Operate
    /\ ccel' \in {f \in CcelFiles : f.boot = td.boot}
    /\ verdict' = None
    /\ UNCHANGED <<guest, dir, cmd, predicted>>

\* Firmware ends a log with a terminator, with padding, or not at all.
LogEnd(p) == CASE p.fw.logEnd = "terminator" -> <<Event(0, "0", <<>>)>>
               [] p.fw.logEnd = "padding" -> <<Event(Padding, "FF", <<>>)>>
               [] p.fw.logEnd = "none" -> <<>>

Damaged(log, kind, k) ==
    CASE kind = "cut" -> SubSeq(log, 1, k - 1)
      [] kind = "torn" -> SubSeq([log EXCEPT ![k].whole = FALSE], 1, k)
      [] kind = "lost" -> RemoveAt(log, k)
      [] kind = "swapped" -> [log EXCEPT ![k] = log[k + 1], ![k + 1] = log[k]]
      [] kind = "no SHA-384" -> [log EXCEPT ![k].alg = "SHA-256"]
      [] kind = "data" -> [log EXCEPT ![k].data = <<"garbled">>]
      [] kind = "unreadable" -> [log EXCEPT ![k].readable = FALSE]
      [] OTHER -> log

\* The log as it is in memory, and the records of a file, without the header.
WholeLog(b) == BootLog[b] \o LogEnd(Platforms[b.platform])
Records(file) == Damaged(WholeLog(file.boot), file.fault.kind, file.fault.at)

\* Logs are no longer than parse_ccel takes; what is damaged is a record of them.
ASSUME LogAssumption ==
    /\ MaxEvents \in Nat
    /\ \A b \in Boots : Len(BootLog[b]) <= MaxEvents
    /\ \A b \in Boots, f \in Faults :
         /\ f.kind \in {"cut", "torn", "lost", "no SHA-384", "data", "unreadable"} =>
              f.at \in 1 .. Len(WholeLog(b))
         /\ f.kind = "swapped" => f.at \in 1 .. Len(WholeLog(b)) - 1

-----------------------------------------------------------------------------
(* ccel.rs, and what tdvf.rs takes from a log                               *)

\* parse_ccel stops at padding, at a terminator, inside a torn record or, which
\* it takes for a complete log, where the file ends.
Stops(r) == r.mr = Padding \/ ~r.whole \/ (r.mr = 0 /\ r.type = "0")

\* What is read up to the record it stops at (0: there is none); records without a
\* SHA-384 digest are passed over.
ReadUpTo(records, stop) ==
    [ok |-> stop = 0 \/ records[stop].whole,
     events |-> Where(IF stop = 0 THEN records ELSE SubSeq(records, 1, stop - 1),
                          LAMBDA r : r.alg = "SHA-384")]
ReadRecords(records) == ReadUpTo(records, SelectInSeq(records, Stops))

\* parse_ccel
Accepts(read, file) ==
    [read EXCEPT !.ok = @ /\ file.fault.kind # "header" /\ Len(read.events) <= MaxEvents]
ParseCcel == [file \in CcelFiles |-> Accepts(ReadRecords(Records(file)), file)]

\* replay_rtmrs: other register numbers are skipped.
ReplayRtmrs(events) ==
    FoldLeft(LAMBDA r, e : IF e.mr \in 1 .. 4 THEN [r EXCEPT ![e.mr - 1] = Append(@, e.digest)]
                                              ELSE r,
             [i \in 0 .. 3 |-> <<>>], events)

\* Mutant: the TD HOB, which has the same event type, is not told apart.
AcpiDigestsAnywhere(events) ==
    Digests(Where(events, LAMBDA e : e.mr = 1 /\ e.type = "PLATFORM_CONFIG_FLAGS"))

\* AcpiHashes::extract_from_ccel
AcpiDigests(events) ==
    LET mine == Where(events, LAMBDA e : e.mr = 1)
        separator == SelectInSeq(mine, LAMBDA e : e.type = "SEPARATOR")
        late == IF separator = 0 THEN <<>> ELSE SubSeq(mine, separator, Len(mine))
    IN  Digests(Where(late, LAMBDA e : e.type = "PLATFORM_CONFIG_FLAGS"))

IsBootVar(e) == e.type = "VARIABLE_BOOT" /\ e.mr = 1

\* BootVars::extract_from_ccel: in the order of the log, without those whose data
\* parse_uefi_variable_data cannot read.
BootVarEvents(events) == Where(events, LAMBDA e : IsBootVar(e) /\ e.readable)

\* What a log holds about the platform, if it can be parsed and has three ACPI
\* digests after the separator.
DataOf(parsed, acpi) == [ok |-> parsed.ok /\ Len(acpi) >= 3,
                         acpi |-> [i \in (1 .. 3) \cap DOMAIN acpi |-> acpi[i]],
                         vars |-> BootVarEvents(parsed.events)]
PlatformData == [file \in CcelFiles |-> DataOf(ParseCcel[file], AcpiDigests(ParseCcel[file].events))]

\* BootVars::load_from_dir: in the order BootOrder.bin gives.
Loads(vars_) ==
    /\ "BootOrder" \in DOMAIN vars_
    /\ ToSet(vars_["BootOrder"]) \subseteq DOMAIN vars_
LoadFromDir(vars_) ==
    <<vars_["BootOrder"]>> \o [i \in DOMAIN vars_["BootOrder"] |-> vars_[vars_["BootOrder"][i]]]

-----------------------------------------------------------------------------
(* tdvf.rs and rtmr.rs: what a boot is expected to measure                  *)

\* Tdvf::parse: what is left of the GUID table below the header of entry i.
Room(table, i) == FoldLeft(LAMBDA n, e : n + e.len, 0, SubSeq(table, i, Len(table) - 1))

\* Tdvf::parse: the checks on the section table.
SectionsFit(fw) ==
    \A k \in DOMAIN fw.sections :
        LET s == fw.sections[k]
        IN  /\ s.raw <= s.pages
            /\ s.off + s.raw <= Len(fw.bytes)
            /\ s.extend => s.off + s.pages <= Len(fw.bytes)

\* Tdvf::mrtd: the file's bytes from the section's offset on.
Mrtd(fw) ==
    LET records(s, i) ==
            (IF s.aug THEN <<>> ELSE <<[add |-> s.base + i - 1]>>)
            \o (IF s.extend THEN <<[extend |-> s.base + i - 1, data |-> fw.bytes[s.off + i]]>>
                            ELSE <<>>)
    IN  FlattenSeq([k \in DOMAIN fw.sections |->
            FlattenSeq([i \in 1 .. fw.sections[k].pages |-> records(fw.sections[k], i)])])

\* MemoryAcceptor::accept cuts the accepted range out of the free ones, which
\* are and stay in the order of their addresses.
Cut(r, from, to) ==
    IF r.accepted \/ r.end <= from \/ r.start >= to THEN <<r>>
    ELSE (IF r.start < from THEN <<[r EXCEPT !.end = from]>> ELSE <<>>)
         \o (IF r.end > to THEN <<[r EXCEPT !.start = to]>> ELSE <<>>)
Accept(ranges, from, to) ==
    LET kept == FlattenSeq([i \in DOMAIN ranges |-> Cut(ranges[i], from, to)])
    IN  IF from >= to THEN ranges
        ELSE Where(kept, LAMBDA r : r.start <= from)
             \o <<[accepted |-> TRUE, start |-> from, end |-> to]>>
             \o Where(kept, LAMBDA r : r.start > from)

\* The ranges of a platform's memory when every section is accepted.
Ranges == [p \in DOMAIN Platforms |->
    FoldLeft(LAMBDA r, s : IF s.type \in {"TD_HOB", "TEMP_MEM"}
                             THEN Accept(r, s.base, s.base + s.pages) ELSE r,
             <<[accepted |-> FALSE, start |-> 0, end |-> Platforms[p].memory]>>,
             Platforms[p].fw.sections)]

\* measure_td_hob refuses a large machine whose last range is not across LowEnd.
HobFits(p) ==
    Platforms[p].memory >= SplitFrom =>
        Last(Ranges[p]).start < LowEnd /\ Last(Ranges[p]).end >= LowEnd

ResourceHob(accepted, start, length) ==
    [type |-> IF accepted THEN "SYSTEM" ELSE "UNACCEPTED", start |-> start, length |-> length]

\* measure_td_hob: the last section of the type counts, and there is a default.
DefaultHobBase == 2057  \* 0x809000, in pages
HobBase(fw) ==
    LET k == SelectLastInSeq(fw.sections, LAMBDA s : s.type = "TD_HOB")
    IN  IF k = 0 THEN DefaultHobBase ELSE fw.sections[k].base

\* measure_td_hob: the last range is taken for a free one.
TdHob(p) ==
    LET ranges == Ranges[p]
        last == Last(ranges)
        front == Front(ranges)
    IN  <<"hob", HobBase(Platforms[p].fw),
           [i \in DOMAIN front |->
              ResourceHob(front[i].accepted, front[i].start, front[i].end - front[i].start)]
           \o IF Platforms[p].memory >= SplitFrom
              THEN <<ResourceHob(FALSE, last.start, LowEnd - last.start),
                     ResourceHob(FALSE, HighBase, last.end - LowEnd)>>
              ELSE <<ResourceHob(FALSE, last.start, last.end - last.start)>>>>

\* measure_cfv takes the first section of the type; 0: there is none.
Cfv(fw) == SelectInSeq(fw.sections, LAMBDA s : s.type = "TD_CFV")

\* Tdvf::rtmr0
Rtmr0(platform, acpi, bootVars) ==
    LET fw == Platforms[platform].fw
    IN  <<TdHob(platform), Raw(fw, fw.sections[Cfv(fw)])>> \o SecureBootVars \o <<Separator>>
        \o acpi \o bootVars

\* parse_sections; of two sections with a name the last one counts.
Names(im) == {im.sections[i].name : i \in DOMAIN im.sections}
Data(im, name) == SelectLastInSeq(im.sections, LAMBDA s : s.name = name)

\* compute_gpt_event_hash: the header, then the entries in use.
GptEvent(disk) == <<"gpt">> \o disk.header \o Where(disk.slots, LAMBDA s : s # None)

\* compute_rtmr1_uki, compute_rtmr1_direct_kernel: the disk is optional.
Rtmr1(im, disk) ==
    (IF im.mode = "uki"
       THEN <<<<"Calling">>, Separator>>
            \o (IF disk THEN <<GptEvent(im.disk), <<"pe">> \o im.disk.loader>> ELSE <<>>)
            \o <<Authenticode(im)>>
       ELSE <<Authenticode(im), <<"Calling">>, Separator>>)
    \o <<<<"Exit Invocation">>, <<"Exit Success">>>>

\* LoadOptions, in UTF-16: one newline at the end of a file is dropped, all that is
\* blank at the end of a section.
StripSuffix(bytes) == IF bytes # <<>> /\ Last(bytes) = "\n" THEN Front(bytes) ELSE bytes
TrimEnd(bytes) == SubSeq(bytes, 1, SelectLastInSeq(bytes, LAMBDA t : t \notin Blank))

\* precompute_rtmr2_digests, compute_rtmr2_direct_kernel.
Rtmr2(im) ==
    LET data(n) == im.sections[Data(im, n)].data
        present == Where(SectionOrder, LAMBDA n : n \in Names(im))
    IN  IF im.mode = "direct-kernel" THEN <<<<"utf16">> \o StripSuffix(im.cmdline)>>
        ELSE FlattenSeq([i \in DOMAIN present |-> <<<<"name", present[i]>>, data(present[i])>>])
             \o (IF ".cmdline" \in Names(im) THEN <<<<"utf16">> \o TrimEnd(data(".cmdline"))>>
                                             ELSE <<>>)
             \o (IF {".initrd", ".osrel"} \subseteq Names(im)
                   THEN <<data(".initrd") \o <<"cpio">> \o data(".osrel")>> ELSE <<>>)

-----------------------------------------------------------------------------
(* The commands (main.rs)                                                   *)

Begin(c) == cmd = None /\ Operate /\ cmd' = c /\ predicted' = None

\* Mutant: RTMR[3] decides as well.
MatchesAll(events, hw) == \A i \in 0 .. 3 : ReplayRtmrs(events)[i] = hw[i]

\* cmd_verify decides on RTMR[0..2].
Matches(events, hw) == \A i \in 0 .. 2 : ReplayRtmrs(events)[i] = hw[i]

Verdict(parsed, hw) == IF parsed.ok /\ Matches(parsed.events, hw) THEN "passed" ELSE "failed"

\* The TDREPORT is one of the TD as it runs now.
Verify ==
    /\ ccel # None
    /\ Begin(None)
    /\ verdict' = Verdict(ParseCcel[ccel], Registers(td))
    /\ UNCHANGED <<guest, files>>

\* cmd_extract_platform saves the ACPI hashes, then one file per variable.
StartExtract ==
    /\ ccel # None
    /\ \E data \in {PlatformData[ccel]} :
         /\ data.ok
         /\ Begin([op |-> "extract", log |-> ccel, rest |-> data.vars])
         /\ dir' = [dir EXCEPT !.acpi = data.acpi, !.of = None]
    /\ verdict' = None
    /\ UNCHANGED <<guest, ccel>>

InExtract == cmd # None /\ cmd.op = "extract"

WriteFile(var) == dir' = [dir EXCEPT !.vars = [n \in DOMAIN @ \cup {var.name} |->
                                                IF n = var.name THEN var.data ELSE @[n]]]
ExtractVar ==
    /\ InExtract /\ cmd.rest # <<>>
    /\ WriteFile(Head(cmd.rest))
    /\ cmd' = [cmd EXCEPT !.rest = Tail(@)]
    /\ UNCHANGED <<guest, ccel, verdict, predicted, operations>>

ExtractDone ==
    /\ InExtract /\ cmd.rest = <<>>
    /\ cmd' = None
    /\ dir' = [dir EXCEPT !.of = cmd.log]
    /\ UNCHANGED <<guest, ccel, verdict, predicted, operations>>

\* cmd_measure; a direct-kernel boot uses neither platform data nor a disk.
StartMeasure(m) ==
    /\ Begin([op |-> "measure", boot |-> m.boot, source |-> m.source, disk |-> m.disk, at |-> 1])
    /\ verdict' = None
    /\ UNCHANGED <<guest, files>>

InMeasure(at) == cmd # None /\ cmd.op = "measure" /\ cmd.at \in at
Image == Images[cmd.boot.image]
Platform == Platforms[cmd.boot.platform]
Table == Platform.fw.table
Entry == Table[cmd.at]

\* Mutant: an entry of another kind is not skipped.
WalkTableStays ==
    /\ InMeasure(DOMAIN Table)
    /\ Entry.len <= Room(Table, cmd.at)
    /\ cmd' = IF Entry.guid = "TDX" THEN [cmd EXCEPT !.at = 0] ELSE cmd
    /\ UNCHANGED <<guest, files, verdict, predicted, operations>>

\* Tdvf::parse walks the GUID table downwards, one entry at a time; the last
\* entry here is what the bytes below the table read as.
WalkTable ==
    /\ InMeasure(DOMAIN Table)
    /\ Entry.len <= Room(Table, cmd.at)
    /\ cmd' = [cmd EXCEPT !.at = CASE Entry.guid = "TDX" -> 0
                                   [] Entry.len = 0 -> @
                                   [] OTHER -> @ + 1]
    /\ UNCHANGED <<guest, files, verdict, predicted, operations>>

WalkFails ==
    /\ InMeasure(DOMAIN Table)
    /\ Entry.len > Room(Table, cmd.at)
    /\ cmd' = None
    /\ UNCHANGED <<guest, files, verdict, predicted, operations>>

\* AcpiHashes and BootVars as cmd_measure resolves them; `of` is a ghost, the log
\* they come from.  The ACPI events have no data to hash, so their digests are taken
\* from the log; the data of variables is, and rtmr0 hashes it.
FromCcel(data) == [ok |-> data.ok /\ data.vars # <<>>, acpi |-> data.acpi,
                   vars |-> [i \in DOMAIN data.vars |-> data.vars[i].data], of |-> ccel]
FromDir(acpi) == [ok |-> TRUE, acpi |-> acpi, vars |-> LoadFromDir(dir.vars), of |-> dir.of]
Missing == [ok |-> FALSE]
PlatformGiven ==
    CASE cmd.source = "platform-ccel" -> IF ccel = None THEN Missing ELSE FromCcel(PlatformData[ccel])
      [] cmd.source = "files" ->
           IF dir.acpi = None \/ ~Loads(dir.vars) THEN Missing ELSE FromDir(dir.acpi)
      [] cmd.source = "raw" ->
           IF ~Loads(dir.vars) THEN Missing
           ELSE FromDir(<<Platform.acpi.loader, Platform.acpi.rsdp, Platform.acpi.tables>>)
      [] OTHER -> [ok |-> TRUE, acpi |-> <<>>, vars |-> <<>>, of |-> None]

Computes(given) ==
    /\ SectionsFit(Platform.fw)
    /\ Image.mode = "uki" => given.ok /\ HobFits(cmd.boot.platform) /\ Cfv(Platform.fw) # 0

\* A direct-kernel prediction leaves RTMR[0] out.
MeasureDone ==
    /\ InMeasure({0})
    /\ \E given \in {PlatformGiven} :
         /\ Computes(given)
         /\ predicted' =
              [boot |-> cmd.boot, mrtd |-> Mrtd(Platform.fw),
               rtmr0 |-> IF Image.mode = "uki"
                           THEN Rtmr0(cmd.boot.platform, given.acpi, given.vars) ELSE None,
               rtmr1 |-> Rtmr1(Image, cmd.disk), rtmr2 |-> Rtmr2(Image),
               partial |-> Image.mode = "uki" /\ (cmd.source = "none" \/ ~cmd.disk),
               of |-> given.of]
    /\ cmd' = None
    /\ UNCHANGED <<guest, files, verdict, operations>>

MeasureFails ==
    /\ InMeasure({0})
    /\ ~Computes(PlatformGiven)
    /\ cmd' = None
    /\ UNCHANGED <<guest, files, verdict, predicted, operations>>

Kill ==
    /\ cmd # None
    /\ cmd' = None
    /\ UNCHANGED <<guest, files, verdict, predicted, operations>>

-----------------------------------------------------------------------------
(* Containers of a running TD and their hooks (rtmr3-hook)                  *)

\* kata-agent: a container is created, starts once its hook succeeded, or its
\* creation fails after it (external).
CreateContainer(c) ==
    /\ Images[td.boot.image].mode = "direct-kernel"
    /\ Len(pod) < MaxContainers
    /\ Operate
    /\ pod' = Append(pod, [ref |-> c.ref, type |-> c.type, state |-> "created"])
    /\ orderly' = (orderly /\ \A i \in DOMAIN pod : pod[i].state \in {"running", "refused"})
    /\ UNCHANGED <<td, files, host>>

Move(i, from, to) == pod[i].state = from /\ pod' = [pod EXCEPT ![i].state = to]

\* Only a reference pinned by a digest is content-bound.
Pinned(ref) == ref # None /\ ref.form = "digest"

\* Mutant: the digest is measured as it is spelled.
WorkloadEventDigestAsSpelled(ref) == [sha256 |-> ref.hash, upper |-> ref.upper]

\* workload_event_digest of the hook, canonical_image_digest of the relying
\* party: the repository is dropped and the digest spelled in lower case.
WorkloadEventDigest(ref) == [sha256 |-> ref.hash, upper |-> FALSE]
CanonicalImageDigest(ref) == [sha256 |-> ref.hash, upper |-> FALSE]

\* compute_rtmr3_workloads
Rtmr3Workloads(refs) == [i \in DOMAIN refs |-> CanonicalImageDigest(refs[i])]

HookSkips(i) ==
    /\ pod[i].type # "container"
    /\ Move(i, "created", "hooked")
    /\ UNCHANGED <<td, orderly, files, host, operations>>

\* A tag is refused; any hook may fail on its input, and that of a pinned
\* container when it writes to the register.
HookRefuses(i) ==
    /\ Move(i, "created", "refused")
    /\ UNCHANGED <<td, orderly, files, host, operations>>

HookExtends(i) ==
    /\ pod[i].type = "container" /\ Pinned(pod[i].ref)
    /\ Move(i, "created", "hooked")
    /\ td' = [td EXCEPT !.rtmr3 = Append(@, WorkloadEventDigest(pod[i].ref))]
    /\ UNCHANGED <<orderly, files, host, operations>>

StartContainer(i) ==
    /\ Move(i, "hooked", "running")
    /\ UNCHANGED <<td, orderly, files, host, operations>>

CreationFails(i) ==
    /\ Move(i, "hooked", "failed")
    /\ orderly' = (orderly /\ pod[i].type # "container")
    /\ UNCHANGED <<td, files, host, operations>>

-----------------------------------------------------------------------------

Next ==
    \/ \E b \in Boots : Boot(b)
    \/ SaveCcel
    \/ Verify \/ StartExtract \/ ExtractVar \/ ExtractDone
    \/ \E m \in Measures : StartMeasure(m)
    \/ WalkTable \/ WalkFails \/ MeasureDone \/ MeasureFails \/ Kill
    \/ \E c \in Containers : CreateContainer(c)
    \/ \E i \in DOMAIN pod : \/ HookSkips(i) \/ HookRefuses(i) \/ HookExtends(i)
                             \/ StartContainer(i) \/ CreationFails(i)

Spec == Init /\ [][Next]_vars

\* A measure command is a process the scheduler runs: it takes its next step.  Once
\* the TDX entry is found that step is the last one (MeasureDone or MeasureFails).
MeasureStep == WalkTable \/ WalkFails \/ (InMeasure({0}) /\ cmd' = None)
FairSpec == Spec /\ WF_cmd(MeasureStep)

-----------------------------------------------------------------------------
(* Properties                                                               *)

\* A saved log that holds what boot b extends into RTMR[0], and with each boot
\* variable the data its digest was taken of.
Shows(log, b) ==
    /\ log # None
    /\ Of(0, ParseCcel[log].events) = BootRegisters[b][0]
    /\ \A i \in DOMAIN ParseCcel[log].events :
         LET e == ParseCcel[log].events[i]
         IN  IsBootVar(e) => e.readable /\ e.data = e.digest

\* measure predicts what a later boot of the same machine and image measures,
\* also from a log of another image's boot, from a damaged one that still
\* replays and whose boot variables have the data of their digests (measure checks
\* neither), or from the files a completed extract-platform left in a directory
\* used before; unless it was made without platform data or the disk.
PredictionMatchesBoot ==
    LET uki == Images[td.boot.image].mode = "uki"
    IN  /\ predicted # None
        /\ predicted.boot = td.boot
        /\ ~predicted.partial
        /\ uki => Shows(predicted.of, td.boot)
        => /\ predicted.mrtd = Launch(Platforms[td.boot.platform].fw)
           /\ predicted.rtmr1 = Registers(td)[1]
           /\ predicted.rtmr2 = Registers(td)[2]
           /\ uki => predicted.rtmr0 = Registers(td)[0]

\* verify passes a log, cut, reordered or of another boot, only if the file holds
\* all that the reported TD extended into RTMR[0..2], in order; and it passes every
\* undamaged log of a boot like it, whatever containers extended into RTMR[3].
VerdictIsRight ==
    /\ verdict = "passed" => \A i \in 0 .. 2 : Of(i, Records(ccel)) = Registers(td)[i]
    /\ /\ verdict # None
       /\ ccel = [boot |-> td.boot, fault |-> Undamaged]
       => verdict = "passed"

\* A workload container that runs or is about to; the references of all of them,
\* in the order createContainer was called.
IsLive(c) == c.type = "container" /\ c.state \in {"hooked", "running"}
LiveRefs(containers) ==
    FlattenSeq([i \in DOMAIN containers |->
                  IF IsLive(containers[i]) THEN <<containers[i].ref>> ELSE <<>>])

\* Every workload container that runs was measured before it started, each one
\* for itself; and in a pod created one container at a time rtmr3-from-images
\* gives the register, however the relying party spells the references.
WorkloadsAreMeasured ==
    LET live == {i \in DOMAIN pod : IsLive(pod[i])}
        refs == LiveRefs(pod)
        spelled(u) == [i \in DOMAIN refs |-> [refs[i] EXCEPT !.upper = u]]
    IN  /\ \A i \in live : Pinned(pod[i].ref)
        /\ \A h \in {pod[i].ref.hash : i \in live} :
             Cardinality({i \in live : pod[i].ref.hash = h})
               <= Cardinality({k \in DOMAIN td.rtmr3 : td.rtmr3[k].sha256 = h})
        /\ orderly => \A u \in BOOLEAN : Rtmr3Workloads(spelled(u)) = td.rtmr3

\* A measure command that is not killed comes to an end: the walk down the GUID
\* table and every refusal included.
EveryMeasureEnds == InMeasure(Nat) ~> cmd = None
=============================================================================
