----------------------------- MODULE IgvmLaunch -----------------------------
(***************************************************************************)
(* Building and measuring an IGVM file (src/crates/igvm-tools).            *)
(*                                                                         *)
(* `build` reads the regions OVMF declares in the metadata at its tail,    *)
(* fills a Builder with vCPU contexts, parameter directives and pages,     *)
(* sorts the directives and walks the result the way QEMU+KVM does to      *)
(* predict the SNP launch digest; `measure` walks a file that exists.      *)
(*                                                                         *)
(* Memory is counted in pages.  A blob is the sequence of its pages, a     *)
(* page's content a value of its own; the launch digest, a hash chain over *)
(* PAGE_INFO records, is the sequence of those records.                    *)
(***************************************************************************)
EXTENDS Naturals, FiniteSets, Sequences, Filters

CONSTANTS
    FourG, OneM, DataBase,  \* pages: end of the firmware, end of its low copy,
                            \* first page of the blobs described by HOBs
    LowPages,               \* the 128 KiB of the low copy
    SegmentSize,            \* 64 KiB: a real-mode address is base + offset
    ResetVector,            \* where the boot vCPU starts
    Builds,                 \* command lines to choose from
    Kernels,                \* contents the file at --kernel may have
    MaxCommands,            \* bound on the number of commands
    None

ASSUME LayoutAssumption ==
    /\ {FourG, OneM, DataBase, LowPages} \subseteq Nat
    /\ SegmentSize \in Nat \ {0}
    /\ ResetVector \in Nat
    /\ LowPages <= OneM /\ OneM <= DataBase /\ DataBase <= FourG

\* The order HOBs are written in; only the shim is placed unmeasured.
BlobOrder == <<"pk", "kek", "db", "dbx", "shim", "kernel">>
Unmeasured == {"shim"}

VARIABLES
    args,        \* the command line
    step,        \* what the command does next
    meta,        \* OvmfMeta, or None
    kernelFile,  \* the bytes of --kernel as do_build read them, or None
    blobs,       \* what the HOBs describe, by name; the kernel perhaps wrapped
    directives,  \* the Builder's directives; the file's once finalized
    walk,        \* state of measure_snp
    files,       \* the kernel, the IGVM file and the manifest on disk
    commands     \* commands started
vars == <<args, step, meta, kernelFile, blobs, directives, walk, files, commands>>

-----------------------------------------------------------------------------
(* OvmfMeta: the blocks of the metadata table, from its end downwards.  An  *)
(* entry that cannot be read ends its block; what was read before stays.    *)

SevType(kind) == CASE kind = 1 -> "SevMemory" [] kind = 2 -> "SevSecrets"
                   [] kind = 3 -> "SevCpuid"  [] kind = 4 -> "SevSvsmCca"
                   [] kind = 16 -> "SevHashes" [] OTHER -> "Undefined"
IgvmType(kind) == CASE kind = 256 -> "IgvmParamArea" [] kind = 257 -> "IgvmParamMemoryMap"
                    [] kind = 258 -> "IgvmParamVpCount" [] kind = 512 -> "IgvmHobArea"
                    [] OTHER -> "Undefined"

Region(e, type) == [base |-> e.base, size |-> e.size, type |-> type]

ParseBlk(m, blk) ==
    LET sized == Where(blk.entries, LAMBDA e : e.size # 0) IN
    CASE blk.guid = "SEV_RESET"  -> [m EXCEPT !.reset = blk.addr]
      [] blk.guid = "SEV_LIST"   -> [m EXCEPT !.regions = @ \o
                                        [i \in DOMAIN sized |-> Region(sized[i], SevType(sized[i].kind))]]
      [] blk.guid = "IGVM_PARAM" -> [m EXCEPT !.regions = @ \o
                                        [i \in DOMAIN sized |-> Region(sized[i], IgvmType(sized[i].kind))]]
      [] OTHER                   -> m

\* A firmware too short for the table has no metadata at all; one without the
\* table's GUID has metadata with nothing in it.
ParseMeta(firmware) ==
    IF firmware.table = "short" THEN None
    ELSE FoldLeft(ParseBlk, [regions |-> <<>>, reset |-> None],
                  IF firmware.table = "found" THEN firmware.blocks ELSE <<>>)

RegionsOf(m) == IF m = None THEN <<>> ELSE m.regions
OfType(m, type) == Where(RegionsOf(m), LAMBDA r : r.type = type)

-----------------------------------------------------------------------------
(* Directives. *)

Page(gpa, mask, type, measured, data) ==
    [kind |-> "page", gpa |-> gpa, mask |-> mask, type |-> type,
     measured |-> measured, data |-> data]
Context(mask, regs) == [kind |-> "context", mask |-> mask, regs |-> regs]
ParameterArea(size) == [kind |-> "area", size |-> size]
Parameter(what, offset) == [kind |-> what, offset |-> offset]
ParameterInsert(gpa, mask) == [kind |-> "insert", gpa |-> gpa, mask |-> mask]

Masks(platform) == CASE platform = "snp" -> {"snp"} [] platform = "native" -> {"native"}
                     [] OTHER -> {"snp", "native"}

\* The registers a vCPU starts with: the code segment's base and the offset in
\* it for real mode, a flat segment for protected mode.
RealModeRegs(addr) == [mode |-> "real16", base |-> addr - (addr % SegmentSize),
                       rip |-> addr % SegmentSize]
Flat32Regs == [mode |-> "flat32", base |-> 0, rip |-> ResetVector]
\* vmsa_context packs them, KVM then sets CR4 and RFLAGS.
Vmsa(regs) == [regs |-> regs, overrides |-> "kvm"]

\* Contexts of build(): native first, then the boot vCPU and the others.
BootRegs(mode) == IF mode = "flat32" THEN Flat32Regs ELSE RealModeRegs(ResetVector)
Contexts(a, m) ==
    (IF "native" \in Masks(a.platform) /\ a.mode = "flat32"
     THEN <<Context({"native"}, Flat32Regs)>> ELSE <<>>)
    \o (IF "snp" \in Masks(a.platform)
        THEN [vp \in 1 .. a.smp |-> Context({"snp"}, IF vp = 1 THEN BootRegs(a.mode)
                                                    ELSE RealModeRegs(m.reset))]
        ELSE <<>>)

DataPages(base, blob, mask, measured) ==
    [i \in DOMAIN blob |-> Page(base + i - 1, mask, "NORMAL", measured, blob[i])]

\* Mutant: secrets and CPUID pages as ordinary memory.
PageTypeNormal(type) ==
    IF type \in {"SevMemory", "SevSvsmCca", "SevHashes", "SevSecrets", "SevCpuid"} THEN "NORMAL"
    ELSE None
\* The page type SNP gives a region, None when it gets no pages.
PageType(type) ==
    CASE type \in {"SevMemory", "SevSvsmCca", "SevHashes"} -> "NORMAL"
      [] type = "SevSecrets" -> "SECRETS"
      [] type = "SevCpuid"   -> "CPUID"
      [] OTHER               -> None

ASSUME NoneAssumption == None \notin {"NORMAL", "SECRETS", "CPUID"}

Covers(r, gpa) == gpa >= r.base /\ gpa < r.base + r.size

\* add_ovmf_snp_pages: a page of a parameter area is left to ParameterInsert.
RegionPages(m, r) ==
    IF PageType(r.type) = None THEN <<>>
    ELSE Where([i \in 1 .. r.size |-> Page(r.base + i - 1, {"snp"}, PageType(r.type), TRUE, None)],
               LAMBDA d : \A p \in Range(OfType(m, "IgvmParamArea")) : ~Covers(p, d.gpa))
SnpPages(m) == FlattenSeq([i \in DOMAIN RegionsOf(m) |-> RegionPages(m, RegionsOf(m)[i])])

\* add_ovmf_igvm_params: the first parameter area only.
Parameters(m, mask) ==
    LET areas == OfType(m, "IgvmParamArea")
        wanted == Where(RegionsOf(m),
                      LAMBDA r : r.type \in {"IgvmParamMemoryMap", "IgvmParamVpCount"})
    IN IF areas = <<>> THEN <<>>
       ELSE <<ParameterArea(areas[1].size)>>
            \o [i \in DOMAIN wanted |-> Parameter(wanted[i].type, wanted[i].base)]
            \o <<ParameterInsert(areas[1].base, mask)>>

FirmwarePages(a) ==
    LET fw == a.firmware.pages
        mask == Masks(a.platform)
        low == IF Len(fw) < LowPages THEN Len(fw) ELSE LowPages
    IN (IF a.mode = "real16"
        THEN DataPages(OneM - low, SubSeq(fw, Len(fw) - low + 1, Len(fw)), mask, TRUE)
        ELSE <<>>)
       \o DataPages(FourG - Len(fw), fw, mask, TRUE)

VarsPages(a) ==
    DataPages(FourG - Len(a.vars) - Len(a.firmware.pages), a.vars, Masks(a.platform), TRUE)

-----------------------------------------------------------------------------
(* HOBs: blobs are placed one after the other and described in one page. *)

Given(bs) == Where(BlobOrder, LAMBDA b : b \in DOMAIN bs)
\* Mutant: one page each.
BlobAddrByPage(bs, i) == DataBase + i - 1
\* The first page of the i-th blob: after the pages of the blobs before it.
BlobAddr(bs, i) ==
    DataBase + Len(FlattenSeq([j \in 1 .. i - 1 |-> bs[Given(bs)[j]]]))
HobList(bs) ==
    [i \in DOMAIN Given(bs) |-> [blob |-> Given(bs)[i], addr |-> BlobAddr(bs, i),
                                 length |-> Len(bs[Given(bs)[i]])]]

\* remove_page_data_in_range; an empty range still takes its first page.
WithoutPages(ds, base, size) ==
    Where(ds, LAMBDA d : ~(/\ d.kind = "page"
                               /\ d.gpa >= base
                               /\ d.gpa < base + (IF size = 0 THEN 1 ELSE size)))

Place(bs, mask, ds, h, measured) ==
    WithoutPages(ds, h.addr, h.length) \o DataPages(h.addr, bs[h.blob], mask, measured)
PlaceBlobs(bs, mask, ds, measured) ==
    LET hobs == Where(HobList(bs), LAMBDA h : (h.blob \notin Unmeasured) = measured)
        placed[n \in 0 .. Len(hobs)] ==
            IF n = 0 THEN ds ELSE Place(bs, mask, placed[n - 1], hobs[n], measured)
    IN placed[Len(hobs)]

\* The HOB list fits in one page; it takes the place of the whole area.
PlaceHobs(bs, mask, area, ds) ==
    LET listed == WithoutPages(ds, area.base, area.size)
                  \o DataPages(area.base, <<HobList(bs)>>, mask, TRUE)
    IN PlaceBlobs(bs, mask, PlaceBlobs(bs, mask, listed, TRUE), FALSE)

-----------------------------------------------------------------------------
(* finalize: a stable sort by address, what is no page counting as 0. *)

SortKey(d) == IF d.kind = "page" THEN d.gpa ELSE 0
SortPages(ds) ==
    FlattenSeq([k \in 1 .. FourG |-> Where(ds, LAMBDA d : SortKey(d) = k - 1)])

-----------------------------------------------------------------------------
(* measure_snp: the walk over the directives of the file. *)

\* Above every page: all VMSAs are measured at 0xFFFFFFFFF000.
VmsaGpa == FourG
NewWalk == [at |-> 1, log |-> <<>>, batch |-> <<>>, prev |-> None, vmsas |-> <<>>]

\* A PAGE_INFO record: its type, address and contents.
PageInfo(type, gpa, contents) == [type |-> type, gpa |-> gpa, contents |-> contents]
Classify(d) ==
    CASE d.type # "NORMAL" -> PageInfo(d.type, d.gpa, "zeros")
      [] d.type = "NORMAL" /\ ~d.measured -> PageInfo("UNMEASURED", d.gpa, "zeros")
      [] OTHER -> PageInfo("NORMAL", d.gpa, IF d.data = None THEN "empty" ELSE d.data)
HasData(d) == d.type = "NORMAL" /\ d.measured /\ d.data # None

\* The page continues the batch of the pages before it.
Continues(w, d) ==
    \/ w.prev = None
    \/ /\ Classify(d).type = Classify(w.prev.page).type
       /\ HasData(d) = HasData(w.prev.page)
       /\ d.gpa = w.prev.page.gpa + 1
       /\ w.at = w.prev.at + 1
MeasurePage(w, d) ==
    LET flushed == IF Continues(w, d) THEN w
                   ELSE [w EXCEPT !.log = @ \o w.batch, !.batch = <<>>]
    IN [flushed EXCEPT !.batch = Append(@, Classify(d)), !.prev = [page |-> d, at |-> w.at]]
MeasureContext(w, d) == [w EXCEPT !.vmsas = Append(@, PageInfo("VMSA", VmsaGpa, Vmsa(d.regs)))]
AreaSize(ds) == LET areas == Where(ds, LAMBDA d : d.kind = "area")
                IN IF areas = <<>> THEN None ELSE areas[Len(areas)].size
\* Mutant: the pending batch is flushed first.
MeasureInsertFlushing(w, d, size) ==
    [w EXCEPT !.log = @ \o w.batch \o [i \in 1 .. size |-> PageInfo("UNMEASURED", d.gpa + i - 1, "zeros")],
              !.batch = <<>>]
\* A parameter area is measured at once: the batch stays pending.
MeasureInsert(w, d, size) ==
    [w EXCEPT !.log = @ \o [i \in 1 .. size |-> PageInfo("UNMEASURED", d.gpa + i - 1, "zeros")]]

MeasureDirective(w, d, ds) ==
    LET skipped == d.kind \in {"page", "context", "insert"} /\ "snp" \notin d.mask
        measured == IF skipped THEN w
                    ELSE CASE d.kind = "page" -> MeasurePage(w, d)
                           [] d.kind = "context" -> MeasureContext(w, d)
                           [] d.kind = "insert" -> MeasureInsert(w, d, AreaSize(ds))
                           [] OTHER -> w
    IN [measured EXCEPT !.at = @ + 1]
MeasureRest(w) == [w EXCEPT !.log = @ \o w.batch \o w.vmsas, !.batch = <<>>]

-----------------------------------------------------------------------------
(* The commands. *)

\* The blobs of a command line, with the contents of the kernel.
BlobsOf(a, kernel) ==
    [b \in DOMAIN a.blobs \cup (IF a.kernel THEN {"kernel"} ELSE {}) |->
       IF b = "kernel" THEN kernel ELSE a.blobs[b]]
Wrapped(a, kernel) == <<"stub">> \o kernel \o (IF a.initrd THEN <<"initrd">> ELSE <<>>)

\* No file is empty; what is placed from the top of memory downwards and from
\* DataBase upwards does not meet.
IsBlob(pages) == pages \in Seq(ToSet(pages)) /\ pages # <<>>
ASSUME InputAssumption ==
    /\ \A k \in Kernels : IsBlob(k) /\ k # None
    /\ \A a \in Builds :
         /\ a.smp \in Nat \ {0} /\ {a.kernel, a.cmdline} \subseteq BOOLEAN
         /\ DOMAIN a.blobs \subseteq ToSet(BlobOrder) \ {"kernel"}
         /\ \A b \in DOMAIN a.blobs : IsBlob(a.blobs[b])
         /\ IsBlob(a.firmware.pages) /\ None \notin ToSet(a.firmware.pages)
         /\ a.vars \in Seq(ToSet(a.vars))
         /\ \A k \in Kernels :
              LET bs == BlobsOf(a, IF a.cmdline THEN Wrapped(a, k) ELSE k)
              IN  BlobAddr(bs, Len(Given(bs)) + 1) + Len(a.vars) + Len(a.firmware.pages) <= FourG

\* The regions a firmware declares are below the blobs, the measured ones do not
\* overlap each other or the firmware's low copy, nor do the parameters overlap
\* the HOBs.
ASSUME FirmwareAssumption ==
    \A a \in Builds :
        LET m == ParseMeta(a.firmware)
            regions == RegionsOf(m)
            apart(r, base, size) == r.base + r.size <= base \/ base + size <= r.base
        IN  /\ m # None => m.reset \in Nat \cup {None}
            /\ regions \in Seq(ToSet(regions))
            /\ \A i, j \in DOMAIN regions :
                 LET r == regions[i]  q == regions[j]
                 IN  /\ r.base \in Nat /\ r.size \in Nat \ {0}
                     /\ PageType(r.type) # None \/ r.type \in {"IgvmParamArea", "IgvmHobArea"} =>
                          r.base + r.size <= DataBase /\ apart(r, OneM - LowPages, LowPages)
                     /\ i # j /\ PageType(r.type) # None /\ PageType(q.type) # None =>
                          apart(r, q.base, q.size)
                     /\ r.type = "IgvmParamArea" /\ q.type = "IgvmHobArea" => apart(r, q.base, q.size)

\* The file at --kernel, the IGVM file and the manifest; None for a torn file.
Init ==
    /\ args = None /\ step = "idle" /\ meta = None /\ kernelFile = None /\ blobs = None
    /\ directives = <<>> /\ walk = NewWalk /\ commands = 0
    /\ files \in [kernel : Kernels, igvm : {None}, manifest : {None}]

Goes(from, to) == step = from /\ step' = to
Add(ds) == directives' = directives \o ds
UsesSnp == "snp" \in Masks(args.platform)

\* do_build reads its inputs; --kernel for the manifest and as the blob.
Start ==
    /\ Goes("idle", "wrap")
    /\ commands < MaxCommands /\ commands' = commands + 1
    /\ args' \in Builds
    /\ kernelFile' = IF args'.kernel THEN files.kernel ELSE None
    /\ blobs' = BlobsOf(args', files.kernel)
    /\ directives' = <<>> /\ walk' = NewWalk
    /\ UNCHANGED <<meta, files>>

\* With --cmdline ukify reads --kernel once more and wraps it.
Usable(a) == (a.cmdline => a.kernel) /\ (a.initrd => a.cmdline)
BuildUki ==
    /\ Goes("wrap", "meta") /\ Usable(args)
    /\ blobs' = IF args.cmdline THEN [blobs EXCEPT !["kernel"] = Wrapped(args, files.kernel)]
                ELSE blobs
    /\ UNCHANGED <<args, meta, kernelFile, directives, walk, files, commands>>

ReadMeta ==
    /\ Goes("meta", "contexts")
    /\ meta' = ParseMeta(args.firmware)
    /\ UNCHANGED <<args, kernelFile, blobs, directives, walk, files, commands>>

\* An index for each vCPU that fits u16, and an address for the others to start at.
ApsCanStart ==
    UsesSnp /\ args.smp > 1 =>
        meta # None /\ meta.reset # None /\ args.smp <= 2 ^ 16
AddContexts ==
    /\ Goes("contexts", "snp") /\ ApsCanStart
    /\ Add(Contexts(args, meta))
    /\ UNCHANGED <<args, meta, kernelFile, blobs, walk, files, commands>>

AddSnpPages ==
    /\ Goes("snp", "params")
    /\ Add(IF UsesSnp THEN SnpPages(meta) ELSE <<>>)
    /\ UNCHANGED <<args, meta, kernelFile, blobs, walk, files, commands>>

AddParams ==
    /\ Goes("params", "firmware")
    /\ Add(Parameters(meta, Masks(args.platform)))
    /\ UNCHANGED <<args, meta, kernelFile, blobs, walk, files, commands>>

AddFirmware ==
    /\ Goes("firmware", "hobs")
    /\ Add(FirmwarePages(args) \o VarsPages(args))
    /\ UNCHANGED <<args, meta, kernelFile, blobs, walk, files, commands>>

HobsHavePlace == DOMAIN blobs # {} => OfType(meta, "IgvmHobArea") # <<>>
AddHobData ==
    /\ Goes("hobs", "finalize") /\ HobsHavePlace
    /\ directives' = IF DOMAIN blobs = {} THEN directives
                     ELSE PlaceHobs(blobs, Masks(args.platform),
                                    OfType(meta, "IgvmHobArea")[1], directives)
    /\ UNCHANGED <<args, meta, kernelFile, blobs, walk, files, commands>>

Finalize ==
    /\ Goes("finalize", "measure")
    /\ directives' = SortPages(directives)
    /\ UNCHANGED <<args, meta, kernelFile, blobs, walk, files, commands>>

\* One directive of the walk; without an SNP platform there is no walk.
MeasureNext ==
    /\ step = "measure" /\ UsesSnp
    /\ walk.at <= Len(directives)
    /\ walk' = MeasureDirective(walk, directives[walk.at], directives)
    /\ UNCHANGED <<args, step, meta, kernelFile, blobs, directives, files, commands>>

MeasureDone ==
    /\ Goes("measure", "write") /\ UsesSnp
    /\ walk.at > Len(directives)
    /\ walk' = MeasureRest(walk)
    /\ UNCHANGED <<args, meta, kernelFile, blobs, directives, files, commands>>

WriteIgvm ==
    /\ Goes("write", IF args.manifest THEN "manifest" ELSE "idle")
    /\ files' = [files EXCEPT !.igvm = directives]
    /\ UNCHANGED <<args, meta, kernelFile, blobs, directives, walk, commands>>

\* Mutant: the kernel is hashed from the file once more.
WriteManifestRehashed ==
    /\ Goes("manifest", "idle")
    /\ files' = [files EXCEPT !.manifest =
                    [igvm |-> directives, digest |-> walk.log, cmdline |-> args.cmdline,
                     kernel |-> IF args.kernel THEN files.kernel ELSE None]]
    /\ UNCHANGED <<args, meta, kernelFile, blobs, directives, walk, commands>>
WriteManifest ==
    /\ Goes("manifest", "idle")
    /\ files' = [files EXCEPT !.manifest =
                    [igvm |-> directives, digest |-> walk.log, cmdline |-> args.cmdline,
                     kernel |-> kernelFile]]
    /\ UNCHANGED <<args, meta, kernelFile, blobs, directives, walk, commands>>

\* What do_build refuses, itself or in build(), before it has written anything.
Refuse ==
    /\ \/ step = "wrap" /\ ~Usable(args)
       \/ step = "contexts" /\ ~ApsCanStart
       \/ step = "hobs" /\ ~HobsHavePlace
       \/ step = "measure" /\ ~UsesSnp
    /\ step' = "idle"
    /\ UNCHANGED <<args, meta, kernelFile, blobs, directives, walk, files, commands>>

\* A kill; in the middle of a write it leaves a torn file.
Kill ==
    /\ step # "idle" /\ step' = "idle"
    /\ files' \in {files} \cup (IF step = "write" THEN {[files EXCEPT !.igvm = None]} ELSE {})
                  \cup (IF step = "manifest" THEN {[files EXCEPT !.manifest = None]} ELSE {})
    /\ UNCHANGED <<args, meta, kernelFile, blobs, directives, walk, commands>>

EditKernel ==
    /\ \E k \in Kernels \ {files.kernel} : files' = [files EXCEPT !.kernel = k]
    /\ UNCHANGED <<args, step, meta, kernelFile, blobs, directives, walk, commands>>

Next ==
    \/ Start \/ BuildUki \/ ReadMeta \/ AddContexts \/ AddSnpPages \/ AddParams
    \/ AddFirmware \/ AddHobData \/ Finalize \/ MeasureNext \/ MeasureDone
    \/ WriteIgvm \/ WriteManifest \/ Refuse \/ Kill \/ EditKernel

Spec == Init /\ [][Next]_vars

-----------------------------------------------------------------------------
(* Properties.  They read the file as the loader and the firmware do: from  *)
(* the directives and the records, not from how the builder made them.      *)

Built == step \in {"write", "manifest"}

IsVmsa(r) == r.type = "VMSA"

\* The launch digest covers the parameter areas first, then every page once in
\* ascending order of address, then the boot vCPU and the others, which all
\* start at the firmware's reset address (sort_pages, the batches of
\* measure_snp and its VMSAs at LAUNCH_FINISH), wherever regions lie, page 0
\* included.
MeasuredInOrder ==
    Built =>
      LET log == walk.log
          params == IF OfType(meta, "IgvmParamArea") = <<>> THEN 0
                    ELSE OfType(meta, "IgvmParamArea")[1].size
          vmsas == Len(log) - args.smp
      IN /\ \A i \in 1 .. params : log[i].gpa = OfType(meta, "IgvmParamArea")[1].base + i - 1
         /\ \A i, j \in params + 1 .. vmsas : i < j => log[i].gpa < log[j].gpa
         /\ \A i \in 1 .. params, j \in params + 1 .. vmsas : log[i].gpa # log[j].gpa
         /\ \A i \in 1 .. Len(log) : IsVmsa(log[i]) <=> i > vmsas
         /\ log[vmsas + 1].contents.regs = BootRegs(args.mode)
         /\ \A i \in vmsas + 2 .. Len(log) :
               log[i].contents.regs.base + log[i].contents.regs.rip = meta.reset

RegionGpas(types) ==
    UNION {r.base .. r.base + r.size - 1 : r \in {q \in Range(RegionsOf(meta)) : q.type \in types}}
RecordAt(gpa) == {r \in Range(walk.log) : r.gpa = gpa}

\* Every page the firmware declares is measured with the type it declared,
\* but for those of the parameter areas and the ones the HOBs replace; the
\* firmware ends at 4 GiB; and no other page below the blobs is in the guest's
\* memory (add_ovmf_snp_pages, remove_page_data_in_range, add_firmware_4g).
MeasuredMemory ==
    Built =>
      LET param == RegionGpas({"IgvmParamArea"})
          hobs == IF DOMAIN blobs = {} THEN {} ELSE RegionGpas({"IgvmHobArea"})
          declared == [NORMAL |-> RegionGpas({"SevMemory", "SevSvsmCca", "SevHashes"}),
                       SECRETS |-> RegionGpas({"SevSecrets"}), CPUID |-> RegionGpas({"SevCpuid"})]
          fw == args.firmware.pages
          low == IF args.mode = "real16" THEN OneM - LowPages .. OneM - 1 ELSE {}
      IN /\ \A type \in DOMAIN declared : \A g \in declared[type] \ (param \cup hobs) :
               \E r \in RecordAt(g) : r.type = type
         /\ \A i \in 1 .. Len(fw) : \E r \in RecordAt(FourG - Len(fw) + i - 1) : r.contents = fw[i]
         /\ \A r \in Range(walk.log) :
               \/ IsVmsa(r)
               \/ r.gpa \in DataBase .. FourG - 1
               \/ r.gpa \in declared.NORMAL \cup declared.SECRETS \cup declared.CPUID
               \/ r.gpa \in param \cup hobs \cup low

PagesAt(ds, gpa) == Where(ds, LAMBDA d : d.kind = "page" /\ d.gpa = gpa)

\* The firmware finds the blobs through the HOB page, which is in the file
\* exactly once: each address it lists holds that blob, page by page and once,
\* measured unless it is the shim (IgvmDataList::add, add_hob_data).
HobsPointAtBlobs ==
    Built /\ DOMAIN blobs # {} =>
      LET list == PagesAt(directives, OfType(meta, "IgvmHobArea")[1].base)
      IN /\ Len(list) = 1
         /\ {h.blob : h \in Range(list[1].data)} = DOMAIN blobs
         /\ \A h \in Range(list[1].data) : \A i \in 1 .. Len(blobs[h.blob]) :
              LET at == PagesAt(directives, h.addr + i - 1)
              IN /\ Len(at) = 1 /\ at[1].data = blobs[h.blob][i]
                 /\ at[1].measured <=> h.blob # "shim"

\* The digest that a walk over all of ds yields.
Digest(ds) ==
    LET walked[n \in 0 .. Len(ds)] ==
            IF n = 0 THEN NewWalk ELSE MeasureDirective(walked[n - 1], ds[n], ds)
    IN MeasureRest(walked[Len(ds)]).log

\* A manifest that names the IGVM file on disk names the digest a walk over
\* that file yields, and, for a kernel that was not wrapped, the very bytes
\* inside it, although --kernel may change while the command runs.
ManifestIsHonest ==
    LET m == files.manifest
        Holds(ds, page) == \E d \in Range(ds) :
                             d.kind = "page" /\ d.gpa >= DataBase /\ d.data = page
    IN m # None /\ files.igvm # None /\ m.igvm = files.igvm =>
         /\ m.digest = Digest(files.igvm)
         /\ m.kernel # None /\ ~m.cmdline => \A page \in Range(m.kernel) : Holds(files.igvm, page)
=============================================================================
