----------------------------- MODULE Boot_proofs -----------------------------
(***************************************************************************)
(* Proofs about the start, for every layout, every set of inherited        *)
(* descriptors and every choice of mmap: what the stub needs is mapped     *)
(* when it needs it, and a guest starts with its kernel, on the right      *)
(* files, in an initial state of UrvirtStub, whose invariants hold from    *)
(* there on.                                                               *)
(***************************************************************************)
EXTENDS Boot, UrvirtStub_proofs, FiniteSetTheorems

-----------------------------------------------------------------------------
(* Descriptors *)

FdTable == [Fd -> File \cup {"closed"}]
Fixed   == {CONFIG_FD, RAM_FD, KERNEL_FD, BLOCK_FD}

LEMMA FixedFds ==
    /\ Fixed \subseteq Fd /\ FdLimit - 1 \in Fd /\ FdLimit - 2 \in Fd
    /\ \A n \in Fixed : n < FdLimit - 2
    /\ CONFIG_FD # RAM_FD /\ CONFIG_FD # KERNEL_FD /\ CONFIG_FD # BLOCK_FD
    /\ RAM_FD # KERNEL_FD /\ RAM_FD # BLOCK_FD /\ KERNEL_FD # BLOCK_FD
  BY BootAssumption DEF Fixed, Fd

\* open returns the lowest free number.
LEMMA LowestFreeIs ==
    ASSUME NEW t \in FdTable, NEW k \in Fd, t[k] = "closed"
    PROVE  /\ LowestFree(t) \in Fd
           /\ t[LowestFree(t)] = "closed"
           /\ LowestFree(t) <= k
<1> DEFINE S == {n \in Fd : t[n] = "closed"}
<1>1. S \subseteq Nat /\ S # {}
  BY DEF Fd
<1>2. \E n \in S : \A m \in S : ~ (<<m, n>> \in OpToRel(<, Nat))
  BY <1>1, WFMin, NatLessThanWellFounded, Zenon
<1>3. PICK n \in S : \A m \in S : ~ (<<m, n>> \in OpToRel(<, Nat))
  BY <1>2
<1>4. \A m \in S : ~ (m < n)
  BY <1>1, <1>3, Zenon DEF OpToRel
<1>5. n \in Fd /\ t[n] = "closed" /\ \A m \in 0 .. (n - 1) : t[m] # "closed"
  BY <1>4, BootAssumption DEF Fd
<1>6. /\ LowestFree(t) \in Fd /\ t[LowestFree(t)] = "closed"
      /\ \A m \in 0 .. (LowestFree(t) - 1) : t[m] # "closed"
  BY <1>5 DEF LowestFree
<1> QED
  BY <1>6, BootAssumption DEF Fd

\* A file opened and moved: nothing else changes, and it is there unless the
\* lowest free number was its own.
LEMMA OpenAs ==
    ASSUME NEW t \in FdTable, NEW k \in Fd, t[k] = "closed",
           NEW file \in File, NEW to \in Fd
    PROVE  /\ open_as(t, file, to) \in FdTable
           /\ \A n \in Fd \ {to} : open_as(t, file, to)[n] = t[n]
           /\ open_as(t, file, to)[to] = IF LowestFree(t) = to THEN "closed" ELSE file
<1> DEFINE n  == LowestFree(t)
           t1 == [t EXCEPT ![n] = file]
           t2 == [t1 EXCEPT ![to] = t1[n]]
           t3 == [t2 EXCEPT ![n] = "closed"]
<1>1. n \in Fd /\ t[n] = "closed"
  BY LowestFreeIs
<1>2. open_as(t, file, to) = t3
  BY DEF open_as, open, dup2, close
<1> HIDE DEF n
<1>3. t1 \in FdTable /\ t1[n] = file /\ \A m \in Fd \ {n} : t1[m] = t[m]
  BY <1>1 DEF FdTable
<1> HIDE DEF t1
<1>4. t2 \in FdTable /\ t2[to] = file /\ \A m \in Fd \ {to} : t2[m] = t1[m]
  BY <1>1, <1>3 DEF FdTable
<1> HIDE DEF t2
<1>5. t3 \in FdTable /\ t3[n] = "closed" /\ \A m \in Fd \ {n} : t3[m] = t2[m]
  BY <1>1, <1>4 DEF FdTable
<1> HIDE DEF t3
<1> QED
  BY <1>1, <1>2, <1>3, <1>4, <1>5 DEF n

\* The two memory files: whatever becomes of them, no other descriptor changes.
LEMMA MemfdsElsewhere ==
    ASSUME fd \in FdTable, CreateMemfds,
           NEW k \in Fd, fd[k] = "closed", NEW l \in Fd, fd[l] = "closed", k # l
    PROVE  /\ fd' \in FdTable
           /\ \A n \in Fd \ {CONFIG_FD, RAM_FD} : fd'[n] = fd[n]
<1> DEFINE c  == LowestFree(fd)
           t1 == [fd EXCEPT ![c] = "config"]
           r  == LowestFree(t1)
           t2 == [t1 EXCEPT ![r] = "ram"]
           t3 == [t2 EXCEPT ![CONFIG_FD] = t2[c]]
           t4 == [t3 EXCEPT ![RAM_FD] = t3[r]]
           t5 == [t4 EXCEPT ![c] = "closed"]
           t6 == [t5 EXCEPT ![r] = "closed"]
<1>1. CONFIG_FD \in Fd /\ RAM_FD \in Fd
  BY FixedFds DEF Fixed
<1>2. c \in Fd /\ fd[c] = "closed"
  BY LowestFreeIs
<1>3. fd' = t6
  BY DEF CreateMemfds, open, dup2, close
<1> HIDE DEF c
<1>4. t1 \in FdTable /\ t1[c] = "config" /\ \A m \in Fd \ {c} : t1[m] = fd[m]
  BY <1>2 DEF FdTable, File
<1> HIDE DEF t1
<1>5. \E m \in Fd : t1[m] = "closed"
  BY <1>4
<1>6. r \in Fd /\ t1[r] = "closed"
  BY <1>4, <1>5, LowestFreeIs
<1>7. r # c /\ fd[r] = "closed"
  BY <1>4, <1>6
<1> HIDE DEF r
<1>8. t2 \in FdTable /\ \A m \in Fd \ {r} : t2[m] = t1[m]
  BY <1>4, <1>6 DEF FdTable, File
<1> HIDE DEF t2
<1>9. t3 \in FdTable /\ \A m \in Fd \ {CONFIG_FD} : t3[m] = t2[m]
  BY <1>1, <1>2, <1>8 DEF FdTable
<1> HIDE DEF t3
<1>10. t4 \in FdTable /\ \A m \in Fd \ {RAM_FD} : t4[m] = t3[m]
  BY <1>1, <1>6, <1>9 DEF FdTable
<1> HIDE DEF t4
<1>11. t5 \in FdTable /\ t5[c] = "closed" /\ \A m \in Fd \ {c} : t5[m] = t4[m]
  BY <1>2, <1>10 DEF FdTable
<1> HIDE DEF t5
<1>12. t6 \in FdTable /\ t6[r] = "closed" /\ \A m \in Fd \ {r} : t6[m] = t5[m]
  BY <1>6, <1>11 DEF FdTable
<1> HIDE DEF t6
<1>13. ASSUME NEW n \in Fd \ {CONFIG_FD, RAM_FD}
       PROVE  fd'[n] = fd[n]
  <2>1. CASE n = c
    BY <1>2, <1>3, <1>7, <1>11, <1>12, <2>1
  <2>2. CASE n = r
    BY <1>3, <1>7, <1>12, <2>2
  <2>3. CASE n # c /\ n # r
    BY <1>3, <1>4, <1>8, <1>9, <1>10, <1>11, <1>12, <2>3
  <2> QED
    BY <2>1, <2>2, <2>3
<1> QED
  BY <1>3, <1>12, <1>13

-----------------------------------------------------------------------------
(* The invariant, by the part of the state it is about *)

\* The steps of which it is known that the boot has got past them.
Past(s) == CASE s = "kernel" -> step \notin {"main", "kernel"}
             [] s = "block"  -> step \notin {"main", "kernel", "memfd", "block"}
             [] s = "config" -> step \notin {"main", "kernel", "memfd", "block", "config"}

SomeFree == \E n \in 0 .. (CONFIG_FD - 1) : n \notin host.inherited

\* The descriptors: none but the four fixed ones is changed for good.
FdInv ==
    /\ fd \in FdTable
    /\ \A n \in Fd \ Fixed : fd[n] = IF n \in host.inherited THEN "inherited" ELSE "closed"
    /\ fd[KERNEL_FD] = "kernel" => host.kernel
    /\ Past("kernel") /\ host.kernel => fd[KERNEL_FD] \in {"kernel", "closed"}
    /\ Past("block") /\ host.block /\ SomeFree => fd[BLOCK_FD] = "block"
    /\ Past("config") => fd[CONFIG_FD] = "config"

LEMMA FdInit == BootInit => FdInv
<1> SUFFICES ASSUME BootInit PROVE FdInv
  OBVIOUS
<1>1. fd \in FdTable
  BY DEF BootInit, FdTable, File
<1> QED
  BY <1>1, FixedFds DEF BootInit, FdInv, Past, Fixed

\* Two descriptors above the fixed ones are always free.
LEMMA FreeAbove ==
    ASSUME host \in Host, FdInv
    PROVE  fd[FdLimit - 1] = "closed" /\ fd[FdLimit - 2] = "closed"
<1>1. \A n \in Fd : n > BLOCK_FD => n \notin host.inherited /\ n \notin Fixed
  BY BootAssumption DEF Host, Fixed, Fd
<1>2. FdLimit - 1 > BLOCK_FD /\ FdLimit - 2 > BLOCK_FD
  BY BootAssumption
<1> QED
  BY <1>1, <1>2, FixedFds DEF FdInv

LEMMA FdOpenKernel ==
    ASSUME host \in Host, FdInv, OpenKernel
    PROVE  FdInv'
<1>1. host' = host /\ step = "kernel" /\ step' = "memfd"
        /\ fd' = IF host.kernel THEN open_as(fd, "kernel", KERNEL_FD) ELSE fd
  BY DEF OpenKernel, Goto, At
<1>2. KERNEL_FD \in Fd
  BY FixedFds DEF Fixed
<1>3. CASE host.kernel
  <2>1. /\ fd' \in FdTable
        /\ \A n \in Fd \ {KERNEL_FD} : fd'[n] = fd[n]
        /\ fd'[KERNEL_FD] \in {"kernel", "closed"}
    BY <1>1, <1>2, <1>3, FreeAbove, FixedFds, OpenAs DEF FdInv, File
  <2> QED
    BY <1>1, <1>2, <1>3, <2>1 DEF FdInv, Past, Fixed
<1>4. CASE ~ host.kernel
  BY <1>1, <1>4 DEF FdInv, Past
<1> QED
  BY <1>3, <1>4

LEMMA FdCreateMemfds ==
    ASSUME host \in Host, FdInv, CreateMemfds
    PROVE  FdInv'
<1>1. host' = host /\ step = "memfd" /\ step' = "block"
  BY DEF CreateMemfds, Goto, At
<1>2. KERNEL_FD \in Fd \ {CONFIG_FD, RAM_FD}
  BY FixedFds DEF Fixed
<1>3. FdLimit - 1 # FdLimit - 2
  BY BootAssumption
<1>4. /\ fd' \in FdTable
      /\ \A n \in Fd \ {CONFIG_FD, RAM_FD} : fd'[n] = fd[n]
  BY <1>3, FreeAbove, FixedFds, MemfdsElsewhere DEF FdInv
<1> QED
  BY <1>1, <1>2, <1>4 DEF FdInv, Past, Fixed

LEMMA FdOpenBlock ==
    ASSUME host \in Host, FdInv, OpenBlock
    PROVE  FdInv'
<1>1. host' = host /\ step = "block" /\ step' = "config"
        /\ fd' = IF host.block THEN open_as(fd, "block", BLOCK_FD) ELSE fd
  BY DEF OpenBlock, Goto, At
<1>2. BLOCK_FD \in Fd /\ KERNEL_FD \in Fd \ {BLOCK_FD}
  BY FixedFds DEF Fixed
<1>3. CASE host.block
  <2>1. /\ fd' \in FdTable
        /\ \A n \in Fd \ {BLOCK_FD} : fd'[n] = fd[n]
        /\ fd'[BLOCK_FD] = IF LowestFree(fd) = BLOCK_FD THEN "closed" ELSE "block"
    BY <1>1, <1>2, <1>3, FreeAbove, FixedFds, OpenAs DEF FdInv, File
  <2>2. SomeFree => fd'[BLOCK_FD] = "block"
    <3> SUFFICES ASSUME NEW k \in 0 .. (CONFIG_FD - 1), k \notin host.inherited
                 PROVE  fd'[BLOCK_FD] = "block"
      BY DEF SomeFree
    <3>1. k \in Fd \ Fixed /\ k < BLOCK_FD
      BY BootAssumption DEF Fd, Fixed
    <3>2. fd[k] = "closed"
      BY <3>1 DEF FdInv
    <3>3. LowestFree(fd) <= k /\ LowestFree(fd) \in Fd
      BY <3>1, <3>2, LowestFreeIs DEF FdInv
    <3> QED
      BY <2>1, <3>1, <3>3, BootAssumption DEF Fd
  <2> QED
    BY <1>1, <1>2, <1>3, <2>1, <2>2 DEF FdInv, Past, Fixed, SomeFree
<1>4. CASE ~ host.block
  BY <1>1, <1>4 DEF FdInv, Past
<1> QED
  BY <1>3, <1>4

\* The other steps leave the table alone; WriteConfig looks at it.
LEMMA FdStep ==
    ASSUME host \in Host, FdInv, BootStep
    PROVE  FdInv'
<1>1. CASE OpenKernel \/ CreateMemfds \/ OpenBlock
  BY <1>1, FdOpenKernel, FdCreateMemfds, FdOpenBlock
<1>2. CASE WriteConfig
  BY <1>2 DEF WriteConfig, At, Goto, Dies, bootVars, FdInv, Past, SomeFree
<1>3. CASE Usage \/ LoadStub \/ CallStub
  BY <1>3 DEF Usage, LoadStub, CallStub, At, Goto, Dies, bootVars, FdInv, Past, SomeFree
<1>4. CASE Entrypoint
  BY <1>4 DEF Entrypoint, MapConf, UnmapBelow, UnmapAbove, MapSigstack, GrowStub, At, Goto,
     FdInv, Past, SomeFree
<1>5. CASE Entrypoint1
  BY <1>5 DEF Entrypoint1, SetUp, MapImage, CopyPage, CopyDone, InstallFilter, Jump, At, Goto,
     Dies, bootVars, FdInv, Past, SomeFree
<1> QED
  BY <1>1, <1>2, <1>3, <1>4, <1>5 DEF BootStep, Loader

-----------------------------------------------------------------------------
(* Sizes, the copy and the memory map *)

\* The stub has no signal stack yet; it has one; entrypoint_1 has begun.
Loading == step \in {"main", "kernel", "memfd", "block", "config", "call"}
Stacked == step \in {"last", "grow", "setup", "image", "copy", "filter", "priv"}
Setting == step \in {"setup", "image", "copy", "filter", "priv", "done"}

\* What the configuration says of the kernel, and of the stub.
SizeInv ==
    /\ cfg \in [stub_size : Nat, kernel_size : Nat]
    /\ Past("kernel") => cfg.kernel_size = IF host.kernel THEN host.size
                                           ELSE Cardinality(StubFile)
    /\ step \in {"call", "entry", "below", "again", "above", "stack", "last", "grow"}
         => stub_end = SigstackPage
    /\ Setting => stub_end = StubEnd

\* The kernel is copied in order, from its own file, into RAM and no further.
CopyInv ==
    /\ copied \in Nat /\ image \in HostPage \cup {-1}
    /\ step \notin {"copy", "filter", "priv", "done"} => copied = 0 /\ image = -1
    /\ step = "copy" => copied <= cfg.kernel_size
    /\ step \in {"filter", "priv", "done"} => copied = cfg.kernel_size
    /\ copied > 0 => fd[RAM_FD] = "ram" /\ image # -1
    /\ image # -1 => fd[KERNEL_FD] \in {"kernel", "inherited"}
    /\ KernelPage + copied <= RamEnd

\* The part of the kernel that has been copied is in RAM, and nothing else.
RamInv ==
    /\ ram \in [RamPage -> Data]
    /\ host.kernel =>
         \A p \in RamPage : ram[p] = IF p - KernelPage \in 0 .. (copied - 1)
                                     THEN Image[p - KernelPage] ELSE ZeroData

BootMapping == Mapping \cup {Mapped("loader"), Mapped("config"), Mapped("image")}

\* Which pages are the stub's at this step, and what else is mapped.
Own       == IF step = "main" \/ ~ host.stub THEN {}
             ELSE IF Stacked THEN StubPage ELSE StubFile
ConfOn    == step \in {"below", "above", "grow", "setup", "image", "copy", "filter", "priv"}
RamOn     == step \in {"image", "copy", "filter", "priv"} /\ fd[RAM_FD] = "ram"
ImagePage == IF step \in {"copy", "filter"} /\ image # -1
             THEN image .. (image + cfg.kernel_size - 1) ELSE {}
Left      == IF Loading \/ step \in {"entry", "below"} THEN HostPage
             ELSE IF step \in {"again", "above"} THEN SigstackPage .. (UserTop - 1)
             ELSE {}

Layout(p) == IF p \in Own THEN {StubMap}
             ELSE IF ConfOn /\ p = conf THEN {Mapped("config")}
             ELSE IF RamOn /\ p \in RamPage THEN {RamMap(p, Prot)}
             ELSE IF p \in ImagePage THEN {Mapped("image")}
             ELSE IF p \in Left THEN {Unmapped, Mapped("loader")}
             ELSE {Unmapped}

\* The memory map while the boot code runs, page by page.
LayoutInv ==
    /\ vm \in [HostPage -> BootMapping]
    /\ conf \in HostPage
    /\ ~ Loading => host.stub
    /\ ConfOn => conf \in MmapArea \ Own
    /\ ImagePage \subseteq MmapArea \ (Own \cup {conf})
    /\ \A p \in HostPage : vm[p] \in Layout(p)

\* The boot code does not touch the rest of the stub's state.
Untouched ==
    /\ hart = ZeroPriv
    /\ pt = [r \in Root |-> [p \in VPage |-> IF r = 0 THEN BrokenPte ELSE NoPte]]
    /\ disk \in [DiskBlock -> Data]
    /\ timer = "disarmed" /\ alarm = FALSE /\ dirty = {}

(***************************************************************************)
(* The inductive invariant.  While the process boots, the parts above; once*)
(* the stub has jumped, the invariant of UrvirtStub; and a process that    *)
(* died on the way stays as it is.                                         *)
(***************************************************************************)
BootInv ==
    /\ host \in Host /\ step \in Steps /\ conf \in HostPage
    /\ FdInv /\ SizeInv /\ CopyInv
    /\ status = "booting" => step # "done" /\ LayoutInv /\ Untouched /\ RamInv
    /\ status = "running" => step = "done"
    /\ step = "done" => Inv
    /\ step # "done" => vm \in [HostPage -> BootMapping] /\ ram \in [RamPage -> Data]

-----------------------------------------------------------------------------
(* Sizes *)

LEMMA FileSizes ==
    /\ Cardinality(StubFile) \in Nat
    /\ StubFirst + Cardinality(StubFile) = SigstackPage
    /\ Cardinality(DOMAIN Image) \in Nat
<1>1. StubFirst \in Int /\ StubEnd - 2 \in Int /\ StubEnd - 2 >= StubFirst
  BY LayoutAssumption, BootAssumption DEF SigstackPage
<1>2. Cardinality(StubFile) = (StubEnd - 2) - StubFirst + 1
  BY <1>1, FS_Interval DEF StubFile
<1>3. Cardinality(DOMAIN Image) \in Nat
  BY BootAssumption, FS_CardinalityType
<1> QED
  BY <1>1, <1>2, <1>3, LayoutAssumption DEF SigstackPage

LEMMA SizeInit == BootInit => SizeInv
  BY DEF BootInit, SizeInv, Past, Setting

LEMMA SizeStep ==
    ASSUME host \in Host, SizeInv, BootStep
    PROVE  SizeInv'
<1> USE DEF SizeInv, Past, Setting, stub_end
<1>1. CASE OpenKernel
  <2>1. host.size \in Nat
    BY FileSizes DEF Host
  <2> QED
    BY <1>1, <2>1, FileSizes DEF OpenKernel, At, Goto
<1>2. CASE WriteConfig
  BY <1>2, FileSizes DEF WriteConfig, At, Goto, Dies, bootVars
<1>3. CASE Usage \/ LoadStub \/ CreateMemfds \/ OpenBlock \/ CallStub
  BY <1>3 DEF Usage, LoadStub, CreateMemfds, OpenBlock, CallStub, At, Goto, Dies, bootVars
<1>4. CASE GrowStub
  BY <1>4, LayoutAssumption DEF GrowStub, At, Goto, SigstackPage
<1>5. CASE Entrypoint /\ ~ GrowStub
  BY <1>5 DEF Entrypoint, MapConf, UnmapBelow, UnmapAbove, MapSigstack, At, Goto
<1>6. CASE Entrypoint1
  BY <1>6 DEF Entrypoint1, SetUp, MapImage, CopyPage, CopyDone, InstallFilter, Jump, At, Goto,
     Dies, bootVars
<1> QED
  BY <1>1, <1>2, <1>3, <1>4, <1>5, <1>6 DEF BootStep, Loader, Entrypoint

-----------------------------------------------------------------------------
(* The memory map *)

LEMMA Pages ==
    /\ StubPage = StubFile \cup {SigstackPage} /\ SigstackPage \notin StubFile
    /\ StubPage \subseteq HostPage /\ RamPage \subseteq HostPage /\ MmapArea \subseteq HostPage
    /\ StubPage \cap RamPage = {} /\ MmapArea \cap RamPage = {}
    /\ RamEnd \in HostPage /\ RamEnd \notin MmapArea \cup RamPage
    /\ LoaderArea \cap StubFile = {} /\ SigstackPage \in HostPage
<1>1. StubPage = StubFile \cup {SigstackPage} /\ SigstackPage \notin StubFile
  BY LayoutAssumption, BootAssumption DEF StubPage, StubFile, SigstackPage
<1>2. StubPage \subseteq HostPage /\ RamPage \subseteq HostPage
  BY LayoutAssumption DEF StubPage, HostPage, RamPage
<1>3. StubPage \cap RamPage = {}
  BY LayoutAssumption DEF StubPage, RamPage
<1>4. RamEnd \in HostPage /\ RamEnd \notin RamPage
  BY LayoutAssumption, BootAssumption DEF HostPage, RamPage
<1>5. /\ MmapArea \subseteq HostPage /\ MmapArea \cap (RamPage \cup {RamEnd}) = {}
      /\ LoaderArea \cap StubFile = {}
  BY BootAssumption
<1> QED
  BY <1>1, <1>2, <1>3, <1>4, <1>5

LEMMA Kinds ==
    /\ {Unmapped, StubMap} \subseteq BootMapping
    /\ \A k \in {"loader", "config", "image"} : Mapped(k) \in BootMapping /\ Mapped(k).kind = k
    /\ \A p \in RamPage : RamMap(p, Prot) \in BootMapping /\ RamMap(p, Prot).kind = "guest"
    /\ Unmapped.kind = "none" /\ StubMap.kind = "stub"
  BY DEF BootMapping, Mapping, GuestMapping, RamMap, Mapped, Unmapped, StubMap

LEMMA LayoutInit == BootInit => LayoutInv
<1> SUFFICES ASSUME BootInit PROVE LayoutInv
  OBVIOUS
<1>1. PICK used \in SUBSET LoaderArea :
         vm = [p \in HostPage |-> IF p \in used THEN Mapped("loader") ELSE Unmapped]
  BY DEF BootInit
<1>2. vm \in [HostPage -> BootMapping]
  BY <1>1, Kinds
<1>3. conf \in HostPage /\ step = "main"
  <2>1. 0 \in HostPage
    BY LayoutAssumption DEF HostPage
  <2> QED
    BY <2>1 DEF BootInit
<1>4. Own = {} /\ ~ ConfOn /\ ~ RamOn /\ ImagePage = {} /\ Left = HostPage /\ Loading
  BY <1>3 DEF Own, ConfOn, RamOn, ImagePage, Left, Loading
<1>5. \A p \in HostPage : vm[p] \in Layout(p)
  BY <1>1, <1>4 DEF Layout
<1> QED
  BY <1>2, <1>3, <1>4, <1>5 DEF LayoutInv

\* The map does not change; the layout is the same at both steps.
LEMMA LayoutSame ==
    ASSUME LayoutInv, UNCHANGED <<vm, conf, host>>,
           ~ Loading' => host.stub,
           Own' = Own, ConfOn' = ConfOn, RamOn' = RamOn, ImagePage' = ImagePage, Left' = Left
    PROVE  LayoutInv'
<1>1. \A p \in HostPage : Layout(p)' = Layout(p)
  BY DEF Layout
<1> QED
  BY <1>1 DEF LayoutInv

LEMMA LayoutLoader ==
    ASSUME LayoutInv, Loader, status' = "booting"
    PROVE  LayoutInv'
<1>1. CASE LoadStub
  <2>1. /\ step = "main" /\ step' = "kernel" /\ UNCHANGED <<host, conf>>
        /\ vm' = IF host.stub THEN [p \in HostPage |-> IF p \in StubFile THEN StubMap ELSE vm[p]]
                 ELSE vm
    BY <1>1 DEF LoadStub, At, Goto
  <2>2. /\ Own' = (IF host.stub THEN StubFile ELSE {}) /\ ~ ConfOn' /\ ~ RamOn'
        /\ ImagePage' = {} /\ Left' = HostPage /\ Loading'
        /\ Own = {} /\ ~ ConfOn /\ ~ RamOn /\ ImagePage = {} /\ Left = HostPage
    BY <2>1 DEF Own, ConfOn, RamOn, ImagePage, Left, Loading, Stacked
  <2>3. vm' \in [HostPage -> BootMapping]
    BY <2>1, Kinds DEF LayoutInv
  <2>4. ASSUME NEW p \in HostPage PROVE vm'[p] \in Layout(p)'
    BY <2>1, <2>2 DEF LayoutInv, Layout
  <2> QED
    BY <2>1, <2>2, <2>3, <2>4 DEF LayoutInv
<1>2. CASE OpenKernel \/ CreateMemfds \/ OpenBlock \/ WriteConfig \/ CallStub
  <2>1. /\ step \in {"kernel", "memfd", "block", "config", "call"}
        /\ step' \in {"memfd", "block", "config", "call", "entry"}
        /\ UNCHANGED <<vm, conf, host>>
        /\ step' = "entry" => host.stub
    BY <1>2 DEF OpenKernel, CreateMemfds, OpenBlock, WriteConfig, CallStub, At, Goto, Dies, bootVars
  <2>2. /\ Own' = Own /\ ~ ConfOn' /\ ~ RamOn' /\ ImagePage' = {} /\ Left' = HostPage
        /\ ~ ConfOn /\ ~ RamOn /\ ImagePage = {} /\ Left = HostPage
        /\ ~ Loading' => host.stub
    BY <2>1 DEF Own, ConfOn, RamOn, ImagePage, Left, Loading, Stacked
  <2> QED
    BY <2>1, <2>2, LayoutSame DEF ConfOn, RamOn
<1>3. CASE Usage
  BY <1>3 DEF Usage, Dies
<1> QED
  BY <1>1, <1>2, <1>3 DEF Loader

\* A page that mmap chooses is nothing that is in use.
LEMMA FreeIsFree ==
    ASSUME LayoutInv, NEW p \in FreeArea
    PROVE  /\ p \in MmapArea /\ p \in HostPage /\ p \notin Own
           /\ ~ (ConfOn /\ p = conf) /\ p \notin ImagePage /\ p \notin RamPage
<1>1. p \in MmapArea /\ vm[p].kind = "none" /\ p \in HostPage /\ p \notin RamPage
  BY Pages DEF FreeArea
<1>2. vm[p] \in Layout(p)
  BY <1>1 DEF LayoutInv
<1> QED
  BY <1>1, <1>2, Kinds DEF Layout

LEMMA LayoutMapConf ==
    ASSUME LayoutInv,
           \/ MapConf("entry", "below") \/ MapConf("again", "above") \/ MapConf("last", "grow")
    PROVE  LayoutInv'
<1>1. PICK p \in FreeArea : conf' = p /\ vm' = [vm EXCEPT ![p] = Mapped("config")]
  BY DEF MapConf
<1>2. /\ \/ step = "entry" /\ step' = "below"
         \/ step = "again" /\ step' = "above"
         \/ step = "last" /\ step' = "grow"
      /\ UNCHANGED host
  BY DEF MapConf, At, Goto
<1>3. p \in MmapArea /\ p \in HostPage /\ p \notin Own
  BY FreeIsFree
<1>4. /\ Own' = Own /\ ConfOn' /\ ~ RamOn' /\ ImagePage' = {} /\ Left' = Left
      /\ ~ ConfOn /\ ~ RamOn /\ ImagePage = {} /\ ~ Loading
  BY <1>2 DEF Own, ConfOn, RamOn, ImagePage, Left, Loading, Stacked
<1>5. /\ vm' \in [HostPage -> BootMapping] /\ vm'[p] = Mapped("config")
      /\ \A q \in HostPage \ {p} : vm'[q] = vm[q]
  BY <1>1, <1>3, Kinds DEF LayoutInv
<1>6. ASSUME NEW q \in HostPage PROVE vm'[q] \in Layout(q)'
  <2>1. vm[q] \in Layout(q)
    BY DEF LayoutInv
  <2> QED
    BY <1>1, <1>3, <1>4, <1>5, <2>1 DEF Layout
<1> QED
  BY <1>1, <1>2, <1>3, <1>4, <1>5, <1>6 DEF LayoutInv

LEMMA LayoutUnmapBelow ==
    ASSUME LayoutInv, UnmapBelow
    PROVE  LayoutInv'
<1>1. /\ step = "below" /\ step' = "again" /\ UNCHANGED <<host, conf>>
      /\ vm' = munmap(munmap(vm, 0 .. (StubFirst - 1)), {conf})
  BY DEF UnmapBelow, At, Goto
<1>2. /\ Own' = StubFile /\ ~ ConfOn' /\ ~ RamOn' /\ ImagePage' = {}
      /\ Left' = SigstackPage .. (UserTop - 1)
      /\ Own = StubFile /\ ConfOn /\ ~ RamOn /\ ImagePage = {} /\ ~ Loading /\ ~ Loading'
  BY <1>1 DEF LayoutInv, Own, ConfOn, RamOn, ImagePage, Left, Loading, Stacked
<1>3. vm' \in [HostPage -> BootMapping]
  BY <1>1, Kinds DEF LayoutInv, munmap
<1>4. ASSUME NEW p \in HostPage PROVE vm'[p] \in Layout(p)'
  <2>1. vm'[p] = IF p = conf \/ p \in 0 .. (StubFirst - 1) THEN Unmapped ELSE vm[p]
    BY <1>1 DEF munmap
  <2>2. p \in StubFile => p # conf /\ p \notin 0 .. (StubFirst - 1)
    BY <1>2, LayoutAssumption DEF LayoutInv, StubFile
  <2>3. p \in 0 .. (StubFirst - 1) \/ p \in StubFile \/ p \in SigstackPage .. (UserTop - 1)
    BY LayoutAssumption DEF HostPage, StubFile, SigstackPage
  <2>4. vm[p] \in Layout(p)
    BY DEF LayoutInv
  <2>5. CASE p \in StubFile
    BY <1>2, <2>1, <2>2, <2>4, <2>5 DEF Layout
  <2>6. CASE p \notin StubFile
    BY <1>2, <2>1, <2>3, <2>4, <2>6 DEF Layout
  <2> QED
    BY <2>5, <2>6
<1> QED
  BY <1>1, <1>2, <1>3, <1>4 DEF LayoutInv

LEMMA LayoutUnmapAbove ==
    ASSUME LayoutInv, SizeInv, UnmapAbove
    PROVE  LayoutInv'
<1>1. /\ step = "above" /\ step' = "stack" /\ UNCHANGED <<host, conf>>
      /\ vm' = munmap(munmap(vm, SigstackPage .. (UserTop - 1)), {conf})
  BY DEF UnmapAbove, At, Goto, SizeInv
<1>2. /\ Own' = StubFile /\ ~ ConfOn' /\ ~ RamOn' /\ ImagePage' = {} /\ Left' = {}
      /\ Left = SigstackPage .. (UserTop - 1)
      /\ Own = StubFile /\ ConfOn /\ ~ RamOn /\ ImagePage = {} /\ ~ Loading /\ ~ Loading'
  BY <1>1 DEF LayoutInv, Own, ConfOn, RamOn, ImagePage, Left, Loading, Stacked
<1>3. vm' \in [HostPage -> BootMapping]
  BY <1>1, Kinds DEF LayoutInv, munmap
<1>4. ASSUME NEW p \in HostPage PROVE vm'[p] \in Layout(p)'
  <2>1. vm'[p] = IF p = conf \/ p \in SigstackPage .. (UserTop - 1) THEN Unmapped ELSE vm[p]
    BY <1>1 DEF munmap
  <2>2. p \in StubFile => p # conf /\ p \notin SigstackPage .. (UserTop - 1)
    BY <1>2, LayoutAssumption DEF LayoutInv, StubFile, SigstackPage
  <2>3. vm[p] \in Layout(p)
    BY DEF LayoutInv
  <2> QED
    BY <1>2, <2>1, <2>2, <2>3 DEF Layout
<1> QED
  BY <1>1, <1>2, <1>3, <1>4 DEF LayoutInv

LEMMA LayoutMapSigstack ==
    ASSUME LayoutInv, SizeInv, MapSigstack
    PROVE  LayoutInv'
<1>1. /\ step = "stack" /\ step' = "last" /\ UNCHANGED <<host, conf>>
      /\ vm' = [vm EXCEPT ![SigstackPage] = StubMap]
  BY DEF MapSigstack, At, Goto, SizeInv
<1>2. /\ Own' = StubPage /\ ~ ConfOn' /\ ~ RamOn' /\ ImagePage' = {} /\ Left' = {}
      /\ Own = StubFile /\ ~ ConfOn /\ ~ RamOn /\ ImagePage = {} /\ Left = {}
      /\ ~ Loading /\ ~ Loading'
  BY <1>1 DEF LayoutInv, Own, ConfOn, RamOn, ImagePage, Left, Loading, Stacked
<1>3. vm' \in [HostPage -> BootMapping]
  BY <1>1, Kinds DEF LayoutInv
<1>4. ASSUME NEW p \in HostPage PROVE vm'[p] \in Layout(p)'
  BY <1>1, <1>2, Pages DEF LayoutInv, Layout
<1> QED
  BY <1>1, <1>2, <1>3, <1>4 DEF LayoutInv

LEMMA LayoutEntrypoint ==
    ASSUME LayoutInv, SizeInv, Entrypoint
    PROVE  LayoutInv'
<1>1. CASE GrowStub
  <2>1. step = "grow" /\ step' = "setup" /\ UNCHANGED <<vm, conf, host, image, fd>>
    BY <1>1 DEF GrowStub, At, Goto
  <2>2. /\ Own' = Own /\ ConfOn' = ConfOn /\ RamOn' = RamOn /\ ImagePage' = ImagePage
        /\ Left' = Left /\ ~ Loading
    BY <2>1 DEF Own, ConfOn, RamOn, ImagePage, Left, Loading, Stacked
  <2> QED
    BY <2>1, <2>2, LayoutSame DEF LayoutInv
<1> QED
  BY <1>1, LayoutMapConf, LayoutUnmapBelow, LayoutUnmapAbove, LayoutMapSigstack DEF Entrypoint

\* SetUp maps RAM over nothing else: no page of it is the stub's or conf.
LEMMA LayoutSetUp ==
    ASSUME LayoutInv, SetUp
    PROVE  LayoutInv'
<1>1. /\ step = "setup" /\ step' = "image" /\ UNCHANGED <<host, conf, fd>>
      /\ vm' = IF fd[RAM_FD] = "ram"
               THEN [p \in HostPage |-> IF p \in RamPage THEN RamMap(p, Prot) ELSE vm[p]]
               ELSE vm
  BY DEF SetUp, At, Goto
<1>2. /\ Own' = StubPage /\ ConfOn' /\ RamOn' = (fd[RAM_FD] = "ram") /\ ImagePage' = {} /\ Left' = {}
      /\ Own = StubPage /\ ConfOn /\ ~ RamOn /\ ImagePage = {} /\ Left = {}
      /\ ~ Loading /\ ~ Loading'
  BY <1>1 DEF LayoutInv, Own, ConfOn, RamOn, ImagePage, Left, Loading, Stacked
<1>3. vm' \in [HostPage -> BootMapping]
  BY <1>1, Kinds DEF LayoutInv
<1>4. ASSUME NEW p \in HostPage PROVE vm'[p] \in Layout(p)'
  <2>1. p \in RamPage => p \notin StubPage /\ p # conf
    BY <1>2, Pages DEF LayoutInv
  <2>2. vm[p] \in Layout(p)
    BY DEF LayoutInv
  <2> QED
    BY <1>1, <1>2, <2>1, <2>2 DEF Layout
<1> QED
  BY <1>1, <1>2, <1>3, <1>4 DEF LayoutInv

LEMMA LayoutMapImage ==
    ASSUME LayoutInv, MapImage
    PROVE  LayoutInv'
<1> DEFINE n == cfg.kernel_size
<1>1. step = "image" /\ step' = "copy" /\ UNCHANGED <<host, conf, fd, cfg>>
  BY DEF MapImage, At, Goto
<1>2. /\ Own' = StubPage /\ ConfOn' /\ RamOn' = RamOn /\ Left' = {}
      /\ ImagePage' = (IF image' # -1 THEN image' .. (image' + n - 1) ELSE {})
      /\ Own = StubPage /\ ConfOn /\ ImagePage = {} /\ Left = {}
      /\ ~ Loading /\ ~ Loading'
  BY <1>1 DEF LayoutInv, Own, ConfOn, RamOn, ImagePage, Left, Loading, Stacked
<1>3. CASE vm' = vm /\ image' = -1
  BY <1>1, <1>2, <1>3, LayoutSame DEF LayoutInv, ConfOn
<1>4. CASE ~ (vm' = vm /\ image' = -1)
  <2>1. PICK p \in Room(n) :
           /\ image' = p
           /\ vm' = [q \in HostPage |-> IF q \in p .. (p + n - 1) THEN Mapped("image") ELSE vm[q]]
    BY <1>4 DEF MapImage
  <2> DEFINE new == p .. (p + n - 1)
  <2>2. new \subseteq FreeArea /\ p \in HostPage
    BY Pages DEF Room
  <2>3. p # -1
    BY <2>2, LayoutAssumption DEF HostPage
  <2>4. ImagePage' = new
    BY <1>2, <2>1, <2>3
  <2> HIDE DEF new
  <2>5. \A q \in new : q \in MmapArea /\ q \notin Own /\ q # conf /\ q \notin RamPage
    BY <1>2, <2>2, FreeIsFree
  <2>6. vm' \in [HostPage -> BootMapping]
    BY <2>1, Kinds DEF LayoutInv
  <2>7. ASSUME NEW q \in HostPage PROVE vm'[q] \in Layout(q)'
    <3>1. vm[q] \in Layout(q)
      BY DEF LayoutInv
    <3>2. vm'[q] = IF q \in new THEN Mapped("image") ELSE vm[q]
      BY <2>1 DEF new
    <3> QED
      BY <1>1, <1>2, <2>4, <2>5, <3>1, <3>2 DEF Layout
  <2> QED
    BY <1>1, <1>2, <2>4, <2>5, <2>6, <2>7 DEF LayoutInv
<1> QED
  BY <1>3, <1>4

LEMMA LayoutCopy ==
    ASSUME LayoutInv, CopyPage \/ CopyDone, status' = "booting"
    PROVE  LayoutInv'
<1>1. step = "copy" /\ step' \in {"copy", "filter"} /\ UNCHANGED <<host, conf, fd, cfg, image, vm>>
  BY DEF CopyPage, CopyDone, At, Goto, Dies
<1>2. /\ Own' = Own /\ ConfOn' /\ RamOn' = RamOn /\ Left' = Left /\ ImagePage' = ImagePage
      /\ ConfOn /\ ~ Loading
  BY <1>1 DEF Own, ConfOn, RamOn, ImagePage, Left, Loading, Stacked
<1> QED
  BY <1>1, <1>2, LayoutSame DEF LayoutInv, ConfOn

LEMMA LayoutInstallFilter ==
    ASSUME LayoutInv, InstallFilter, status' = "booting"
    PROVE  LayoutInv'
<1>1. /\ step = "filter" /\ step' = "priv" /\ UNCHANGED <<host, conf, fd, cfg, image>>
      /\ vm' = IF image = -1 THEN vm
               ELSE munmap(vm, image .. (image + cfg.kernel_size - 1))
  BY DEF InstallFilter, At, Goto, Dies
<1>2. /\ Own' = StubPage /\ ConfOn' /\ RamOn' = RamOn /\ Left' = {} /\ ImagePage' = {}
      /\ Own = StubPage /\ ConfOn /\ Left = {} /\ ~ Loading /\ ~ Loading'
      /\ ImagePage = (IF image = -1 THEN {} ELSE image .. (image + cfg.kernel_size - 1))
  BY <1>1 DEF LayoutInv, Own, ConfOn, RamOn, ImagePage, Left, Loading, Stacked
<1>3. vm' \in [HostPage -> BootMapping]
  BY <1>1, Kinds DEF LayoutInv, munmap
<1>4. ASSUME NEW p \in HostPage PROVE vm'[p] \in Layout(p)'
  <2>1. vm'[p] = IF p \in ImagePage THEN Unmapped ELSE vm[p]
    BY <1>1, <1>2 DEF munmap
  <2>2. p \in ImagePage => p \notin StubPage /\ p # conf /\ p \notin RamPage
    BY <1>2, Pages DEF LayoutInv
  <2>3. vm[p] \in Layout(p)
    BY DEF LayoutInv
  <2> QED
    BY <1>1, <1>2, <2>1, <2>2, <2>3 DEF Layout
<1> QED
  BY <1>1, <1>2, <1>3, <1>4 DEF LayoutInv

LEMMA LayoutStep ==
    ASSUME LayoutInv, SizeInv, BootStep, status' = "booting"
    PROVE  LayoutInv'
<1>1. CASE Jump
  BY <1>1 DEF Jump
<1> QED
  BY <1>1, LayoutLoader, LayoutEntrypoint, LayoutSetUp, LayoutMapImage, LayoutCopy,
     LayoutInstallFilter DEF BootStep, Entrypoint1

-----------------------------------------------------------------------------
(* The copy *)

\* The page that is written is one of RAM, and RAM does not end before it.
LEMMA CopyTarget ==
    ASSUME LayoutInv, CopyInv, step = "copy", vm[copy_to(copied)].kind = "guest"
    PROVE  /\ copy_to(copied) \in RamPage /\ RamOn
           /\ copy_to(copied) = KernelPage + copied
           /\ KernelPage + copied + 1 <= RamEnd
<1> DEFINE to == copy_to(copied)
<1>1. to = KernelPage + copied /\ KernelPage \in RamPage /\ copied \in Nat
        /\ KernelPage + copied <= RamEnd
  BY BootAssumption DEF copy_to, CopyInv
<1>2. to \in HostPage
  BY <1>1, LayoutAssumption, BootAssumption DEF HostPage, RamPage
<1>3. vm[to] \in Layout(to)
  BY <1>2 DEF LayoutInv
<1>4. to \in RamPage /\ RamOn
  BY <1>3, Kinds DEF Layout
<1> QED
  BY <1>1, <1>4, LayoutAssumption DEF RamPage

LEMMA CopyInit == BootInit => CopyInv
<1> SUFFICES ASSUME BootInit PROVE CopyInv
  OBVIOUS
<1>1. KernelPage + 0 <= RamEnd
  BY BootAssumption, LayoutAssumption DEF RamPage
<1> QED
  BY <1>1 DEF BootInit, CopyInv

LEMMA RamInit == BootInit => RamInv
<1> SUFFICES ASSUME BootInit PROVE RamInv
  OBVIOUS
<1>1. copied = 0 /\ ram = [p \in RamPage |-> ZeroData] /\ ZeroData \in Data
  BY BootAssumption DEF BootInit
<1>2. 0 .. (copied - 1) = {}
  BY <1>1
<1> QED
  BY <1>1, <1>2 DEF RamInv

\* A page of the kernel is copied.
LEMMA CopyOne ==
    ASSUME host \in Host, FdInv, SizeInv, CopyInv, LayoutInv, RamInv, CopyPage,
           status' = "booting"
    PROVE  CopyInv' /\ RamInv'
<1>1. /\ step = "copy" /\ step' = "copy" /\ copied < cfg.kernel_size
      /\ image # -1 /\ vm[copy_to(copied)].kind = "guest"
      /\ copied' = copied + 1 /\ UNCHANGED <<host, fd, cfg, image>>
  BY DEF CopyPage, At, Goto, Dies
<1>2. PICK d \in IF fd[KERNEL_FD] = "kernel" THEN {Image[copied]} ELSE Data :
         ram' = [ram EXCEPT ![copy_to(copied)] = d]
  BY DEF CopyPage, Dies
<1>3. /\ copy_to(copied) \in RamPage /\ RamOn /\ copy_to(copied) = KernelPage + copied
      /\ KernelPage + copied + 1 <= RamEnd
  BY <1>1, CopyTarget
<1>4. copied \in Nat /\ cfg.kernel_size \in Nat /\ KernelPage \in Nat
  BY BootAssumption, LayoutAssumption DEF CopyInv, SizeInv, RamPage
<1>5. CopyInv'
  BY <1>1, <1>3, <1>4 DEF CopyInv, RamOn
<1>6. fd[KERNEL_FD] = "kernel" => host.kernel /\ copied \in DOMAIN Image
  <2>1. fd[KERNEL_FD] = "kernel" => host.kernel /\ cfg.kernel_size = host.size
    BY <1>1 DEF FdInv, SizeInv, Past
  <2>2. host.size \in 0 .. Cardinality(DOMAIN Image)
    BY DEF Host
  <2> QED
    BY <1>1, <1>4, <2>1, <2>2, FileSizes, BootAssumption
<1>7. d \in Data
  BY <1>2, <1>6, BootAssumption
<1>8. ram' \in [RamPage -> Data]
  BY <1>2, <1>3, <1>7 DEF RamInv
<1>9. ASSUME host.kernel, NEW p \in RamPage
      PROVE  ram'[p] = IF p - KernelPage \in 0 .. copied THEN Image[p - KernelPage] ELSE ZeroData
  <2>1. fd[KERNEL_FD] = "kernel"
    BY <1>1, <1>9 DEF FdInv, Past, CopyInv
  <2>2. p \in Int
    BY LayoutAssumption DEF RamPage
  <2>3. CASE p = KernelPage + copied
    <3>1. ram'[p] = Image[copied]
      BY <1>2, <1>3, <2>1, <2>3 DEF RamInv
    <3>2. p - KernelPage = copied
      BY <1>4, <2>3
    <3> QED
      BY <1>4, <3>1, <3>2
  <2>4. CASE p # KernelPage + copied
    <3>1. ram'[p] = ram[p]
      BY <1>2, <1>3, <2>4 DEF RamInv
    <3>2. p - KernelPage \in 0 .. copied <=> p - KernelPage \in 0 .. (copied - 1)
      BY <1>4, <2>2, <2>4
    <3> QED
      BY <1>9, <3>1, <3>2 DEF RamInv
  <2> QED
    BY <2>3, <2>4
<1>10. 0 .. (copied' - 1) = 0 .. copied
  BY <1>1, <1>4
<1> QED
  BY <1>1, <1>5, <1>8, <1>9, <1>10 DEF RamInv

\* What the other steps do to the copy.
LEMMA CopyStep ==
    ASSUME host \in Host, FdInv, SizeInv, CopyInv, LayoutInv, RamInv, BootStep
    PROVE  CopyInv' /\ (status' = "booting" => RamInv')
<1>1. CASE CopyPage
  <2>1. CASE status' = "booting"
    BY <1>1, <2>1, CopyOne
  <2>2. CASE status' # "booting"
    BY <1>1, <2>2 DEF CopyPage, At, Goto, Dies, bootVars, CopyInv
  <2> QED
    BY <2>1, <2>2
<1>2. CASE MapImage
  <2>1. image' \in HostPage \cup {-1} /\ (image' # -1 => fd[KERNEL_FD] \in {"kernel", "inherited"})
    BY <1>2, Pages DEF MapImage, Room
  <2>2. /\ step = "image" /\ step' = "copy" /\ copied = 0
        /\ UNCHANGED <<ram, host, fd, cfg, copied>>
    BY <1>2 DEF MapImage, At, Goto, CopyInv
  <2>3. cfg.kernel_size \in Nat
    BY DEF SizeInv
  <2> QED
    BY <2>1, <2>2, <2>3 DEF CopyInv, RamInv
<1>3. CASE CopyDone
  BY <1>3 DEF CopyDone, At, Goto, CopyInv, RamInv, SizeInv
<1>4. CASE InstallFilter \/ SetUp \/ Jump
  BY <1>4 DEF InstallFilter, SetUp, Jump, At, Goto, Dies, bootVars, CopyInv, RamInv
<1>5. CASE Loader
  BY <1>5 DEF Loader, Usage, LoadStub, OpenKernel, CreateMemfds, OpenBlock, WriteConfig, CallStub,
     At, Goto, Dies, bootVars, CopyInv, RamInv
<1>6. CASE Entrypoint
  BY <1>6 DEF Entrypoint, MapConf, UnmapBelow, UnmapAbove, MapSigstack, GrowStub, At, Goto,
     CopyInv, RamInv
<1> QED
  BY <1>1, <1>2, <1>3, <1>4, <1>5, <1>6 DEF BootStep, Entrypoint1

-----------------------------------------------------------------------------
(* The jump *)

\* The state in which the guest is started: as in Init, but that RAM is not
\* mapped if RAM_FD was lost, which only an empty kernel does not notice.
Started(mapped) ==
    /\ hart = initialize_priv(KernelStart)
    /\ vm = [p \in HostPage |-> IF p \in StubPage THEN StubMap
                                ELSE IF mapped /\ p \in RamPage THEN RamMap(p, Prot)
                                ELSE Unmapped]
    /\ pt = [r \in Root |-> [p \in VPage |-> IF r = 0 THEN BrokenPte ELSE NoPte]]
    /\ ram \in [RamPage -> Data]
    /\ disk \in [DiskBlock -> Data]
    /\ timer = "disarmed" /\ alarm = FALSE /\ dirty = {}
    /\ status = "running"

LEMMA StartedInit == Started(TRUE) => Init
  BY DEF Started, Init

LEMMA StartedInv == (\E mapped \in BOOLEAN : Started(mapped)) => Inv
<1> SUFFICES ASSUME NEW mapped \in BOOLEAN, Started(mapped)
             PROVE  Inv
  OBVIOUS
<1>1. CASE mapped
  <2>1. Started(TRUE)
    BY <1>1 DEF Started
  <2> QED
    BY <2>1, StartedInit, InvInit
<1>2. CASE ~ mapped
  <2>1. vm = [p \in HostPage |-> IF p \in StubPage THEN StubMap ELSE Unmapped]
    BY <1>2 DEF Started
  <2>2. TypeOK
    <3>1. hart \in Hart
      <4>1. {"FS", "XS", "SD"} \in Sstatus /\ {} \in Six /\ 0 \in Stvec
        BY ScauseType DEF Sstatus, SstatusBit, Six, Stvec
      <4> QED
        BY <4>1, LayoutAssumption, SatpAssumption, ScauseType
           DEF Started, initialize_priv, Hart, Satp, PRIV_S, PRIV_U, SATP_MODE_BARE
    <3>2. vm \in [HostPage -> Mapping]
      BY <2>1 DEF Mapping
    <3>3. pt \in [Root -> [VPage -> Pte]]
      BY DEF Started, Pte, NoPte, BrokenPte
    <3> QED
      BY <3>1, <3>2, <3>3, GuestAssumption DEF Started, TypeOK
  <2>3. Settled /\ InterruptTaken
    BY DEF Started, Settled, InterruptTaken, initialize_priv, interrupt_due
  <2>4. StubIntact
    BY <2>1, Pages DEF StubIntact
  <2>5. NoStaleMapping
    BY <2>1 DEF NoStaleMapping, StubMap, Unmapped
  <2> QED
    BY <2>2, <2>3, <2>4, <2>5 DEF Inv
<1> QED
  BY <1>1, <1>2

\* Everything the guest needs is in place when the stub jumps to it.
LEMMA JumpStarts ==
    ASSUME BootInv, Jump
    PROVE  /\ (\E mapped \in BOOLEAN : Started(mapped))'
           /\ cfg.kernel_size > 0 => Started(TRUE)'
           /\ host.kernel => KernelInRam
           /\ stub_end' = StubEnd
<1>1. /\ step = "priv" /\ step' = "done" /\ status = "booting" /\ status' = "running"
      /\ hart' = initialize_priv(KernelStart) /\ vm' = munmap(vm, {conf})
      /\ UNCHANGED <<pt, ram, disk, timer, alarm, dirty, host, fd, cfg, conf, image, copied>>
  BY DEF Jump, At
<1>2. LayoutInv /\ Untouched /\ RamInv /\ CopyInv /\ SizeInv
  BY <1>1 DEF BootInv
<1>3. Own = StubPage /\ ConfOn /\ ImagePage = {} /\ Left = {}
  BY <1>1, <1>2 DEF LayoutInv, Own, ConfOn, ImagePage, Left, Loading, Stacked
<1>4. ASSUME NEW p \in HostPage
      PROVE  vm'[p] = IF p \in StubPage THEN StubMap
                      ELSE IF RamOn /\ p \in RamPage THEN RamMap(p, Prot)
                      ELSE Unmapped
  <2>1. vm'[p] = IF p = conf THEN Unmapped ELSE vm[p]
    BY <1>1 DEF munmap
  <2>2. conf \notin StubPage /\ conf \notin RamPage
    BY <1>2, <1>3, Pages DEF LayoutInv
  <2>3. vm[p] \in Layout(p)
    BY <1>2 DEF LayoutInv
  <2> QED
    BY <1>3, <2>1, <2>2, <2>3 DEF Layout
<1>5. vm' = [p \in HostPage |-> IF p \in StubPage THEN StubMap
                                ELSE IF RamOn /\ p \in RamPage THEN RamMap(p, Prot)
                                ELSE Unmapped]
  BY <1>1, <1>4 DEF munmap
<1>6. /\ pt' = [r \in Root |-> [p \in VPage |-> IF r = 0 THEN BrokenPte ELSE NoPte]]
      /\ ram' \in [RamPage -> Data] /\ disk' \in [DiskBlock -> Data]
      /\ timer' = "disarmed" /\ alarm' = FALSE /\ dirty' = {}
  BY <1>1, <1>2 DEF Untouched, RamInv
<1>7. RamOn => Started(TRUE)'
  BY <1>1, <1>5, <1>6 DEF Started
<1>8. ~ RamOn => Started(FALSE)'
  BY <1>1, <1>5, <1>6 DEF Started
<1>9. copied = cfg.kernel_size /\ cfg.kernel_size \in Nat
  BY <1>1, <1>2 DEF CopyInv, SizeInv
<1>10. cfg.kernel_size > 0 => RamOn
  BY <1>1, <1>2, <1>9 DEF CopyInv, RamOn
<1>11. host.kernel => copied = host.size
  BY <1>1, <1>2, <1>9 DEF SizeInv, Past
<1>12. host.kernel => KernelInRam
  BY <1>2, <1>11 DEF RamInv, KernelInRam
<1>13. stub_end' = StubEnd
  <2>1. stub_end = StubEnd
    BY <1>1, <1>2 DEF SizeInv, Setting
  <2> QED
    BY <1>1, <2>1 DEF stub_end
<1>14. (\E mapped \in BOOLEAN : Started(mapped))'
  BY <1>7, <1>8
<1> QED
  BY <1>7, <1>10, <1>12, <1>13, <1>14

-----------------------------------------------------------------------------
(* The whole invariant *)

LEMMA BootInvInit == BootInit => BootInv
<1> SUFFICES ASSUME BootInit PROVE BootInv
  OBVIOUS
<1>1. FdInv /\ SizeInv /\ CopyInv /\ LayoutInv /\ RamInv
  BY FdInit, SizeInit, CopyInit, LayoutInit, RamInit
<1>2. Untouched /\ host \in Host /\ step = "main" /\ status = "booting"
  BY DEF BootInit, Untouched
<1> QED
  BY <1>1, <1>2 DEF BootInv, LayoutInv, RamInv, Steps

\* A step of the boot code other than the jump.
LEMMA BootStepInv ==
    ASSUME BootInv, BootStep, ~ Jump
    PROVE  BootInv'
<1>1. status = "booting"
  BY DEF BootStep, Loader, Entrypoint, Entrypoint1, Usage, LoadStub, OpenKernel, CreateMemfds,
     OpenBlock, WriteConfig, CallStub, MapConf, UnmapBelow, UnmapAbove, MapSigstack, GrowStub,
     SetUp, MapImage, CopyPage, CopyDone, InstallFilter, At
<1>2. host \in Host /\ step \in Steps \ {"done"} /\ conf \in HostPage
        /\ FdInv /\ SizeInv /\ CopyInv /\ LayoutInv /\ Untouched /\ RamInv
  BY <1>1 DEF BootInv
<1>3. FdInv' /\ SizeInv' /\ CopyInv'
  BY <1>2, FdStep, SizeStep, CopyStep
<1>4. /\ \/ UNCHANGED status /\ step' \in Steps \ {"done"}
         \/ status' \in {"exited", "SIGSEGV", "SIGBUS"} /\ UNCHANGED <<vm, ram, bootVars>>
      /\ UNCHANGED <<stubVars, host>>
  <2>1. CASE Loader
    BY <2>1 DEF Loader, Usage, LoadStub, OpenKernel, CreateMemfds, OpenBlock, WriteConfig,
       CallStub, Goto, Dies, Steps, bootVars
  <2>2. CASE Entrypoint
    BY <2>2 DEF Entrypoint, MapConf, UnmapBelow, UnmapAbove, MapSigstack, GrowStub, Goto, Steps
  <2>3. CASE Entrypoint1
    BY <2>3 DEF Entrypoint1, SetUp, MapImage, CopyPage, CopyDone, InstallFilter, Goto, Dies,
       Steps, bootVars
  <2> QED
    BY <2>1, <2>2, <2>3 DEF BootStep
<1>5. CASE status' = status
  <2>1. LayoutInv' /\ RamInv'
    BY <1>1, <1>2, <1>5, LayoutStep, CopyStep
  <2>2. Untouched'
    BY <1>2, <1>4 DEF Untouched, stubVars
  <2> QED
    BY <1>1, <1>2, <1>3, <1>4, <1>5, <2>1, <2>2 DEF BootInv, LayoutInv, RamInv
<1>6. CASE status' # status
  <2>1. status' \in {"exited", "SIGSEGV", "SIGBUS"} /\ UNCHANGED <<vm, ram, host, step, conf>>
    BY <1>4, <1>6 DEF bootVars
  <2> QED
    BY <1>2, <1>3, <2>1 DEF BootInv, LayoutInv, RamInv
<1> QED
  BY <1>5, <1>6

LEMMA JumpInv ==
    ASSUME BootInv, Jump, Inv'
    PROVE  BootInv'
<1>1. /\ step' = "done" /\ status = "booting" /\ status' = "running"
      /\ host' = host /\ conf' = conf
  BY DEF Jump, At
<1>2. FdInv' /\ SizeInv' /\ CopyInv'
  BY <1>1, FdStep, SizeStep, CopyStep DEF BootInv, BootStep, Entrypoint1
<1> QED
  BY <1>1, <1>2 DEF BootInv, Steps

\* A process that does not run any more does nothing.
LEMMA StoppedStays ==
    ASSUME Next, status # "running"
    PROVE  UNCHANGED vars
<1>1. CASE Sigsys
  BY <1>1 DEF Sigsys, EcallFromUser, SbiPlain, SbiGetcharFails, SbiShutdown, SbiSetTimer, Ecall
<1>2. CASE Sigill
  BY <1>2 DEF Sigill, IllegalInUser, CannotEmulate, UnreadableInsn, SfenceVma, Wfi, Sret, CsrInstr,
     UnimplementedCsr, Privileged, Illegal
<1>3. CASE Sigalrm \/ TimerExpires
  BY <1>3 DEF Sigalrm, TimerExpires
<1>4. CASE Sigsegv
  BY <1>4 DEF Sigsegv, SegvFetch, SegvSecondHalf, SegvData
<1>5. CASE Guest
  BY <1>5 DEF Guest, GuestJump, GuestWritePte, GuestStore
<1>6. CASE Stopped
  BY <1>6 DEF Stopped
<1> QED
  BY <1>1, <1>2, <1>3, <1>4, <1>5, <1>6 DEF Next

\* A step of the guest, or of a process that has ended.
LEMMA RunInv ==
    ASSUME BootInv, Run \/ UNCHANGED allVars,
           step = "done" => Inv'
    PROVE  BootInv'
<1>1. UNCHANGED bootVars
  BY DEF Run, allVars
<1>2. UNCHANGED <<host, fd, step, cfg, conf, image, copied>>
  BY <1>1 DEF bootVars
<1>3. FdInv' /\ SizeInv' /\ CopyInv'
  BY <1>2 DEF BootInv, FdInv, SizeInv, CopyInv, Past, Setting, SomeFree, stub_end
<1>4. CASE step = "done"
  <2>1. Inv'
    BY <1>4
  <2>2. status' # "booting"
    BY <2>1 DEF Inv, TypeOK
  <2> QED
    BY <1>2, <1>3, <1>4, <2>1, <2>2 DEF BootInv
<1>5. CASE step # "done"
  <2>1. UNCHANGED vars
    BY <1>5, StoppedStays DEF BootInv, Run, allVars
  <2>2. UNCHANGED <<hart, vm, pt, ram, disk, timer, alarm, status, dirty>>
    BY <2>1 DEF vars
  <2>3. LayoutInv /\ Untouched /\ RamInv => LayoutInv' /\ Untouched' /\ RamInv'
    BY <1>2, <2>2 DEF LayoutInv, Untouched, RamInv, Layout, Own, ConfOn, RamOn, ImagePage, Left,
       Loading, Stacked
  <2> QED
    BY <1>2, <1>3, <1>5, <2>2, <2>3 DEF BootInv
<1> QED
  BY <1>4, <1>5

LEMMA BootInvStep == BootInv /\ [BootNext]_allVars => BootInv'
<1>1. BootInv /\ Jump => (\E mapped \in BOOLEAN : Started(mapped))'
  BY JumpStarts
<1>2. BootInv /\ Jump => Inv'
  BY <1>1, StartedInv, PTL
<1>3. BootInv /\ step = "done" /\ (Run \/ UNCHANGED allVars) => Inv /\ [Next]_vars
  BY DEF BootInv, Run, allVars
<1>4. BootInv /\ step = "done" /\ (Run \/ UNCHANGED allVars) => Inv'
  BY <1>3, InvStep
<1> QED
  BY <1>2, <1>4, BootStepInv, JumpInv, RunInv DEF BootNext

LEMMA BootInvHolds == BootSpec => []BootInv
  BY BootInvInit, BootInvStep, PTL DEF BootSpec

(***************************************************************************)
(* The boot is well typed: among other things every page the kernel is     *)
(* copied to is a page of RAM, and every descriptor that is opened exists. *)
(***************************************************************************)
THEOREM BootTypeAlways == BootSpec => []BootTypeOK
<1>1. BootInv => BootTypeOK
  <2> SUFFICES ASSUME BootInv PROVE BootTypeOK
    OBVIOUS
  <2>1. vm \in [HostPage -> BootMapping] /\ ram \in [RamPage -> Data]
    BY DEF BootInv, Inv, TypeOK, BootMapping
  <2> QED
    BY <2>1 DEF BootInv, BootTypeOK, FdInv, FdTable, SizeInv, CopyInv, BootMapping
<1> QED
  BY <1>1, BootInvHolds, PTL

(***************************************************************************)
(* Whatever the loader had mapped and wherever mmap puts the configuration *)
(* and the kernel's file, entrypoint never unmaps what it runs on or uses. *)
(***************************************************************************)
THEOREM OwnPagesMappedAlways == BootSpec => []OwnPagesMapped
<1>1. BootInv => OwnPagesMapped
  <2> SUFFICES ASSUME BootInv, status = "booting" PROVE OwnPagesMapped
    BY DEF OwnPagesMapped
  <2>1. LayoutInv
    BY DEF BootInv
  <2>2. ASSUME ~ Loading PROVE \A p \in StubFile : vm[p] = StubMap
    <3>1. StubFile \subseteq Own
      BY <2>1, <2>2, Pages DEF LayoutInv, Own, Loading
    <3> QED
      BY <2>1, <3>1, Pages DEF LayoutInv, Layout
  <2>3. ASSUME ConfOn PROVE vm[conf].kind = "config"
    BY <2>1, <2>3, Kinds DEF LayoutInv, Layout
  <2>4. ASSUME Stacked PROVE vm[SigstackPage] = StubMap
    <3>1. SigstackPage \in Own
      BY <2>1, <2>4, Pages DEF LayoutInv, Own, Loading, Stacked
    <3> QED
      BY <2>1, <3>1, Pages DEF LayoutInv, Layout
  <2> QED
    BY <2>2, <2>3, <2>4 DEF OwnPagesMapped, Loading, ConfOn, Stacked
<1> QED
  BY <1>1, BootInvHolds, PTL

(***************************************************************************)
(* The running stub has the right files behind its fixed descriptors,      *)
(* whatever descriptors the loader inherited.                              *)
(***************************************************************************)
THEOREM RightFilesAlways == BootSpec => []RightFiles
<1>1. BootInv => RightFiles
  <2> SUFFICES ASSUME BootInv, step = "done", cfg.kernel_size > 0 PROVE RightFiles
    BY DEF RightFiles
  <2>1. Past("kernel") /\ Past("config") /\ Past("block") /\ copied > 0
    BY DEF Past, BootInv, CopyInv
  <2>2. fd[KERNEL_FD] \in {"kernel", "inherited"}
    BY <2>1 DEF BootInv, CopyInv
  <2>3. fd[KERNEL_FD] = IF host.kernel THEN "kernel" ELSE "inherited"
    BY <2>1, <2>2 DEF BootInv, FdInv
  <2> QED
    BY <2>1, <2>3 DEF BootInv, FdInv, CopyInv, RightFiles, SomeFree
<1> QED
  BY <1>1, BootInvHolds, PTL

(***************************************************************************)
(* A guest that is started has all of its kernel in RAM, and nothing else. *)
(***************************************************************************)
THEOREM KernelLoadedAlways == BootSpec => KernelLoaded
<1>1. BootInv => (Jump /\ host.kernel => KernelInRam)
  BY JumpStarts
<1> QED
  BY <1>1, BootInvHolds, PTL DEF KernelLoaded

(***************************************************************************)
(* The state in which the guest is started is an initial state of          *)
(* UrvirtStub, with the size of the stub that its handler relies on.       *)
(***************************************************************************)
THEOREM HandsOverAlways == BootSpec => HandsOver
<1>1. Started(TRUE)' => Init'
  BY StartedInit, PTL
<1>2. BootInv => (Jump /\ cfg.kernel_size > 0 => Init' /\ stub_end' = StubEnd)
  BY <1>1, JumpStarts
<1> QED
  BY <1>2, BootInvHolds, PTL DEF HandsOver

(***************************************************************************)
(* The guarantees of the running hypervisor hold of every guest that this  *)
(* loader and this stub start, an empty kernel without RAM included: they  *)
(* are not only those of a state assumed to be the initial one.            *)
(***************************************************************************)
THEOREM GuaranteedAfterBoot ==
    BootSpec => [](step = "done" => /\ TypeOK /\ InterruptTaken
                                    /\ StubIntact /\ NoStaleMapping)
<1>1. BootInv => (step = "done" => TypeOK /\ InterruptTaken /\ StubIntact /\ NoStaleMapping)
  BY DEF BootInv, Inv
<1> QED
  BY <1>1, BootInvHolds, PTL
=============================================================================
