---------------------------- MODULE MCTdxMeasure ----------------------------
(* A small instance of TdxMeasure for TLC. *)
EXTENDS TdxMeasure

Sec(type, base, pages, off, raw, extend, aug) ==
    [type |-> type, base |-> base, pages |-> pages, off |-> off, raw |-> raw,
     extend |-> extend, aug |-> aug]

\* Firmware as OVMF lays it out: volumes at the end of the file, the TD HOB and
\* the temporary memory low, next to each other or apart, in any order.
Volumes == <<Sec("BFV", 14, 2, 1, 2, TRUE, FALSE), Sec("TD_CFV", 13, 1, 0, 1, FALSE, FALSE)>>
Footer == <<[guid |-> "SEV", len |-> 2], [guid |-> "TDX", len |-> 2], [guid |-> "code", len |-> 3]>>

Fw(table, sections) == [table |-> table, bytes |-> <<"vars", "code1", "code2">>,
                        sections |-> sections, logEnd |-> "none"]
FwApart == Fw(Footer, Volumes \o <<Sec("TEMP_MEM", 3, 1, 0, 0, FALSE, FALSE),
                                   Sec("TD_HOB", 1, 1, 0, 0, FALSE, FALSE),
                                   Sec("TEMP_MEM", 0, 0, 0, 0, FALSE, FALSE)>>)
FwAdjacent == Fw(Footer, <<Sec("TD_HOB", 0, 2, 0, 0, FALSE, TRUE),
                           Sec("TEMP_MEM", 2, 1, 0, 0, FALSE, FALSE)>> \o Volumes)
\* No TDX entry; a measured section that runs over the end of the file.
FwOther == Fw(<<[guid |-> "SEV", len |-> 2], [guid |-> "code", len |-> 3]>>, Volumes)
FwShort == Fw(Footer, <<Sec("BFV", 14, 4, 1, 2, TRUE, FALSE), Sec("TD_HOB", 1, 1, 0, 0, FALSE, FALSE)>>)

Acpi1 == [loader |-> <<"loader">>, rsdp |-> <<"rsdp">>, tables |-> <<"tables1">>]
MkPlatform(fw, memory, acpi, order) ==
    [fw |-> fw, memory |-> memory, acpi |-> acpi, order |-> order,
     options |-> [o \in {"Boot0000", "Boot0001"} |-> IF o = "Boot0000" THEN <<"UiApp">> ELSE acpi.tables]]

Small == MkPlatform([FwApart EXCEPT !.logEnd = "terminator"], 10, Acpi1, <<"Boot0001", "Boot0000">>)
Large == MkPlatform([FwAdjacent EXCEPT !.logEnd = "padding"], 12,
                    [Acpi1 EXCEPT !.tables = <<"tables2">>], <<"Boot0000">>)

MCPlatforms == [small |-> Small, large |-> Large,
                other |-> [Small EXCEPT !.fw = FwOther], short |-> [Small EXCEPT !.fw = FwShort]]

Cmdline == <<"console", " ", "quiet", " ", "\n">>
SecOf(name, data) == [name |-> name, data |-> data]
Sections == <<SecOf(".osrel", <<"osrel">>), SecOf(".cmdline", Cmdline),
              SecOf(".initrd", <<"initrd">>), SecOf(".linux", <<"linux">>),
              SecOf(".uname", <<"uname">>)>>
Uki == [mode |-> "uki", sections |-> Sections,
        disk |-> [header |-> <<"EFI PART">>, slots |-> <<"esp", None, "root">>, loader |-> <<"sd-boot">>]]
Direct == [mode |-> "direct-kernel", kernel |-> <<"bzImage">>, cmdline |-> Cmdline]
MCImages == [uki |-> Uki, kata |-> Direct]
MCBoots == {[platform |-> "small", image |-> "uki"], [platform |-> "large", image |-> "uki"],
            [platform |-> "small", image |-> "kata"]}

\* Complete predictions from each source and partial ones for either machine;
\* firmware that is refused.
Measure(image, platform, source, disk) ==
    [boot |-> [platform |-> platform, image |-> image], source |-> source, disk |-> disk]
MCMeasures ==
    {Measure("uki", "large", source, TRUE) : source \in {"platform-ccel", "files", "raw"}}
      \cup {Measure("uki", "small", "platform-ccel", TRUE), Measure("uki", "small", "none", FALSE)}
      \cup {Measure("kata", p, "none", FALSE) : p \in {"small", "other", "short"}}

\* Around the separator, the ACPI events, the boot variables, and in RTMR[2].
Fault(kind, at) == [kind |-> kind, at |-> at]
MCFaults == {Fault("header", 0), Fault("lost", 9), Fault("no SHA-384", 11), Fault("swapped", 13),
             Fault("cut", 20), Fault("torn", 20), Fault("data", 14), Fault("unreadable", 14)}

Ref(form, hash, upper) == [form |-> form, hash |-> hash, upper |-> upper]
Workload(ref) == [type |-> "container", ref |-> ref]
MCContainers == {[type |-> "sandbox", ref |-> None], Workload(Ref("digest", "app", FALSE)), Workload(Ref("digest", "db", TRUE)),
                 Workload(Ref("tag", "app", FALSE))}
=============================================================================
