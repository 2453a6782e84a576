---------------------------- MODULE MCIgvmLaunch ----------------------------
(* A guest of 24 pages: low firmware copy below page 8, blobs from page 12, *)
(* firmware of two pages and a one-page variable store at the top.          *)
EXTENDS IgvmLaunch

Entry(base, size, kind) == [base |-> base, size |-> size, kind |-> kind]
Block(guid, addr, entries) == [guid |-> guid, addr |-> addr, entries |-> entries]

Firmware(table, blocks) == [table |-> table, blocks |-> blocks, pages |-> <<"sec", "reset">>]
Reset == Block("SEV_RESET", 5 * 4 + 3, <<>>)
\* Memory with a parameter area and the HOB area inside it, special pages, and
\* an entry of size zero.
Regions == <<
    Block("SEV_LIST", None, <<Entry(1, 4, 1), Entry(5, 1, 2), Entry(6, 1, 3), Entry(0, 0, 1)>>),
    Block("IGVM_PARAM", None, <<Entry(2, 1, 256), Entry(0, 1, 257), Entry(1, 1, 258),
                                Entry(3, 1, 512)>>) >>
\* Memory from address zero, the calling area, hashes, a kind nobody knows, and
\* parameters outside of it.
FromZero == <<
    Block("SEV_LIST", None, <<Entry(0, 2, 1), Entry(2, 1, 4), Entry(3, 1, 16), Entry(9, 1, 99)>>),
    Reset,
    Block("IGVM_PARAM", None, <<Entry(5, 2, 256), Entry(4, 1, 512)>>),
    Block("SEV_SECRET", None, <<>>) >>
NoHobs == <<Reset, Block("SEV_LIST", None, <<Entry(1, 2, 1)>>)>>

Firmwares == {Firmware("short", <<>>), Firmware("other", <<>>),
              Firmware("found", <<Reset>> \o Regions), Firmware("found", Regions),
              Firmware("found", FromZero), Firmware("found", NoHobs)}

BlobSets == {<<>>, [shim |-> <<"s1">>], [pk |-> <<"p1">>, shim |-> <<"s1", "s2">>],
             [kek |-> <<"k1">>, db |-> <<"d1">>, dbx |-> <<"x1">>]}

Default == [firmware |-> Firmware("found", <<Reset>> \o Regions), vars |-> <<>>, blobs |-> <<>>,
            kernel |-> TRUE, cmdline |-> FALSE, initrd |-> FALSE,
            platform |-> "snp", mode |-> "real16", smp |-> 1, manifest |-> TRUE]
\* Every firmware on every platform, every set of blobs on the firmwares that
\* take them, every combination of the options about the kernel.
MCBuilds ==
    {[Default EXCEPT !.firmware = f, !.platform = o[1], !.mode = o[2], !.smp = o[3]] :
        f \in Firmwares,
        o \in {<<"snp", "real16", 3>>, <<"snp", "flat32", 1>>, <<"native", "flat32", 1>>,
               <<"snp+native", "flat32", 3>>}}
    \cup {[Default EXCEPT !.firmware = f, !.blobs = b, !.kernel = FALSE, !.vars = <<"vars">>] :
        f \in Firmwares, b \in BlobSets}
    \cup {[Default EXCEPT !.blobs = b] : b \in BlobSets}
    \cup {[Default EXCEPT !.kernel = k, !.cmdline = c, !.initrd = i, !.manifest = c] :
        k \in BOOLEAN, c \in BOOLEAN, i \in BOOLEAN}
MCKernels == {<<"kernel1", "kernel1b">>, <<"kernel2">>}
=============================================================================
