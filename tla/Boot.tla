-------------------------------- MODULE Boot --------------------------------
(***************************************************************************)
(* How a guest gets started: urvirt-loader's main, then entrypoint and     *)
(* entrypoint_1 of the stub, then the running system of UrvirtStub.        *)
(*                                                                         *)
(* The loader passes four descriptors with fixed numbers and a page of     *)
(* configuration; the stub unmaps everything but itself, the stack it is   *)
(* running on included, maps RAM, copies the kernel and jumps to it.  No   *)
(* result of a system call is looked at, except that of seccomp.           *)
(*                                                                         *)
(* One thread, no signal before the first one of the stub's own: each      *)
(* action is a run of system calls between two that may go either way.     *)
(* entrypoint keeps its locals in registers (it is compiled with -O): the  *)
(* model gives it no stack after it has unmapped the loader's.             *)
(***************************************************************************)
EXTENDS UrvirtStub, FiniteSets

CONSTANTS
    CONFIG_FD, RAM_FD, KERNEL_FD, BLOCK_FD,
    FdLimit,        \* descriptors are 0 .. FdLimit - 1
    MmapArea,       \* pages mmap chooses from when it is given no address
    LoaderArea,     \* pages the loader may have been using
    Image,          \* the pages of the kernel's file, numbered from 0
    ZeroData        \* the content of fresh RAM

Fd         == 0 .. (FdLimit - 1)
SigstackPage == StubEnd - 1                     \* SIGSTACK_SIZE is one page
StubFile   == StubFirst .. (StubEnd - 2)        \* the pages of the stub's file
KernelPage == Page(KernelStart)

\* The fixed numbers are as in common.h (64 to 67), and two more descriptors
\* can be opened; the first page after RAM is free: mmap places nothing there.
ASSUME BootAssumption ==
    /\ {CONFIG_FD, RAM_FD, KERNEL_FD, BLOCK_FD, FdLimit} \subseteq Nat
    /\ CONFIG_FD < RAM_FD /\ RAM_FD < KERNEL_FD /\ KERNEL_FD < BLOCK_FD
    /\ BLOCK_FD + 2 < FdLimit
    /\ StubFirst < SigstackPage
    /\ RamEnd < UserTop
    /\ MmapArea \subseteq HostPage \ (RamPage \cup {RamEnd})
    /\ MmapArea \ (LoaderArea \cup StubPage) # {}
    /\ LoaderArea \subseteq HostPage \ StubFile
    /\ KernelPage \in RamPage
    /\ KernelStart % PageSize = 0
    /\ ZeroData \in Data
    /\ IsFiniteSet(DOMAIN Image)
    /\ DOMAIN Image = 0 .. (Cardinality(DOMAIN Image) - 1)
    /\ \A i \in DOMAIN Image : Image[i] \in Data

File == {"inherited", "kernel", "config", "ram", "block"}

\* What the loader finds: its arguments, which of the files can be opened, how
\* many pages the kernel has, whether the host accepts the filter, and the
\* descriptors it was started with.
Host == [argc : {3, 4}, stub : BOOLEAN, kernel : BOOLEAN, block : BOOLEAN,
         seccomp : BOOLEAN, size : 0 .. Cardinality(DOMAIN Image),
         inherited : SUBSET (0 .. BLOCK_FD)]

Steps == {"main", "kernel", "memfd", "block", "config", "call",
          "entry", "below", "again", "above", "stack", "last", "grow",
          "setup", "image", "copy", "filter", "priv", "done"}

VARIABLES
    host,       \* the environment, fixed
    fd,         \* the descriptor table
    step,       \* where the loader or the stub is
    cfg,        \* struct urvirt_config: sizes, in pages
    conf,       \* the page CONFIG_FD is mapped at, when it is
    image,      \* the first page of the mapped kernel file; -1: mmap failed
    copied      \* pages of the kernel copied

bootVars == <<host, fd, step, cfg, conf, image, copied>>
stubVars == <<hart, pt, disk, timer, alarm, dirty>>
allVars  == <<vars, bootVars>>

Mapped(kind) == [kind |-> kind, ppn |-> 0, prot |-> {"R", "W"}]

BootTypeOK ==
    /\ host \in Host
    /\ fd \in [Fd -> File \cup {"closed"}]
    /\ step \in Steps
    /\ cfg \in [stub_size : Nat, kernel_size : Nat]
    /\ conf \in HostPage /\ image \in HostPage \cup {-1} /\ copied \in Nat
    /\ vm \in [HostPage -> Mapping \cup {Mapped("loader"), Mapped("config"), Mapped("image")}]
    /\ ram \in [RamPage -> Data]

\* priv_state is in the same memory as the configuration: a fresh memfd.
ZeroPriv == [initialize_priv(0) EXCEPT !.priv_mode = PRIV_U]

BootInit ==
    /\ host \in Host
    /\ fd = [n \in Fd |-> IF n \in host.inherited THEN "inherited" ELSE "closed"]
    /\ step = "main"
    /\ cfg = [stub_size |-> 0, kernel_size |-> 0]
    /\ conf = 0 /\ image = -1 /\ copied = 0
    /\ hart = ZeroPriv
    /\ \E used \in SUBSET LoaderArea :
          vm = [p \in HostPage |-> IF p \in used THEN Mapped("loader") ELSE Unmapped]
    /\ pt = [r \in Root |-> [p \in VPage |-> IF r = 0 THEN BrokenPte ELSE NoPte]]
    /\ ram = [p \in RamPage |-> ZeroData]
    /\ disk \in [DiskBlock -> Data]
    /\ timer = "disarmed"
    /\ alarm = FALSE
    /\ status = "booting"
    /\ dirty = {}

At(s) == status = "booting" /\ step = s

\* The process ends, by a signal or by exit.
Dies(how) == /\ status' = how
             /\ UNCHANGED <<stubVars, vm, ram, bootVars>>

Goto(s) == step' = s /\ UNCHANGED <<stubVars, status, host>>

-----------------------------------------------------------------------------
(* Descriptors *)

LowestFree(t) == CHOOSE n \in Fd : t[n] = "closed" /\ \A m \in 0 .. (n - 1) : t[m] # "closed"

open(t, file)     == [t EXCEPT ![LowestFree(t)] = file]
dup2(t, from, to) == [t EXCEPT ![to] = t[from]]
close(t, n)       == [t EXCEPT ![n] = "closed"]

\* A file is opened, moved to its number, and the first descriptor closed.
open_as(t, file, to) == LET n == LowestFree(t)
                        IN  close(dup2(open(t, file), n, to), n)

-----------------------------------------------------------------------------
(* The loader *)

Usage == At("main") /\ host.argc # 4 /\ Dies("exited")

\* The descriptor of the stub's file is closed again: only the map changes.
\* When the file cannot be opened the address is MAP_FAILED.
LoadStub ==
    /\ At("main")
    /\ host.argc = 4
    /\ vm' = IF host.stub
             THEN [p \in HostPage |-> IF p \in StubFile THEN StubMap ELSE vm[p]]
             ELSE vm
    /\ Goto("kernel")
    /\ UNCHANGED <<ram, fd, cfg, conf, image, copied>>

\* When the kernel cannot be opened, img_stat is still that of the stub.
\* The mutant: the size of a file that is not there, as lseek gives it.
OpenKernel_mutant ==
    /\ At("kernel")
    /\ fd' = IF host.kernel THEN open_as(fd, "kernel", KERNEL_FD) ELSE fd
    /\ cfg' = [cfg EXCEPT !.kernel_size = IF host.kernel THEN host.size ELSE -1]
    /\ Goto("memfd")
    /\ UNCHANGED <<vm, ram, conf, image, copied>>
OpenKernel ==
    /\ At("kernel")
    /\ fd' = IF host.kernel THEN open_as(fd, "kernel", KERNEL_FD) ELSE fd
    /\ cfg' = [cfg EXCEPT !.kernel_size = IF host.kernel THEN host.size
                                          ELSE Cardinality(StubFile)]
    /\ Goto("memfd")
    /\ UNCHANGED <<vm, ram, conf, image, copied>>

\* Both are created before either is moved: moving the first may close the
\* second, and closing the originals may close what was moved.
CreateMemfds ==
    /\ At("memfd")
    /\ LET c  == LowestFree(fd)
           t1 == open(fd, "config")
           r  == LowestFree(t1)
           t2 == open(t1, "ram")
           t3 == dup2(dup2(t2, c, CONFIG_FD), r, RAM_FD)
       IN  fd' = close(close(t3, c), r)
    /\ Goto("block")
    /\ UNCHANGED <<vm, ram, cfg, conf, image, copied>>

\* The mutants: not moved, and moved to the number of another file.
OpenBlock_unmoved_mutant ==
    /\ At("block")
    /\ fd' = IF host.block THEN open(fd, "block") ELSE fd
    /\ Goto("config")
    /\ UNCHANGED <<vm, ram, cfg, conf, image, copied>>
OpenBlock_mutant ==
    /\ At("block")
    /\ fd' = IF host.block THEN open_as(fd, "block", RAM_FD) ELSE fd
    /\ Goto("config")
    /\ UNCHANGED <<vm, ram, cfg, conf, image, copied>>
OpenBlock ==
    /\ At("block")
    /\ fd' = IF host.block THEN open_as(fd, "block", BLOCK_FD) ELSE fd
    /\ Goto("config")
    /\ UNCHANGED <<vm, ram, cfg, conf, image, copied>>

\* Without CONFIG_FD the mapping fails, and writing to it is the end.
WriteConfig ==
    /\ At("config")
    /\ \/ /\ fd[CONFIG_FD] = "config"
          /\ cfg' = [cfg EXCEPT !.stub_size = Cardinality(StubFile)]
          /\ Goto("call")
          /\ UNCHANGED <<vm, ram, fd, conf, image, copied>>
       \/ fd[CONFIG_FD] # "config" /\ Dies("SIGSEGV")

CallStub ==
    /\ At("call")
    /\ \/ /\ host.stub
          /\ Goto("entry")
          /\ UNCHANGED <<vm, ram, fd, cfg, conf, image, copied>>
       \/ ~ host.stub /\ Dies("SIGSEGV")

-----------------------------------------------------------------------------
(* entrypoint *)

FreeArea == {p \in MmapArea : vm[p].kind = "none"}

\* mmap of CONFIG_FD at a page of the kernel's choice.
MapConf(from, to) ==
    /\ At(from)
    /\ \E p \in FreeArea : /\ conf' = p
                           /\ vm' = [vm EXCEPT ![p] = Mapped("config")]
    /\ Goto(to)
    /\ UNCHANGED <<ram, fd, cfg, image, copied>>

\* The map without the pages of S.
munmap(m, S) == [p \in HostPage |-> IF p \in S THEN Unmapped ELSE m[p]]

stub_end == StubFirst + cfg.stub_size

\* munmap of all below the stub, then of conf, which may be there or above.
\* The mutant: conf is used again without being mapped again.
UnmapBelow_mutant ==
    /\ At("below")
    /\ vm' = munmap(vm, 0 .. (StubFirst - 1))
    /\ Goto("above")
    /\ UNCHANGED <<ram, fd, cfg, conf, image, copied>>
UnmapBelow ==
    /\ At("below")
    /\ vm' = munmap(munmap(vm, 0 .. (StubFirst - 1)), {conf})
    /\ Goto("again")
    /\ UNCHANGED <<ram, fd, cfg, conf, image, copied>>

\* The loader's stack, which is in use, goes with the rest.
UnmapAbove ==
    /\ At("above")
    /\ vm' = munmap(munmap(vm, stub_end .. (UserTop - 1)), {conf})
    /\ Goto("stack")
    /\ UNCHANGED <<ram, fd, cfg, conf, image, copied>>

\* MAP_FIXED: whatever was there is replaced.
MapSigstack ==
    /\ At("stack")
    /\ vm' = [vm EXCEPT ![stub_end] = StubMap]
    /\ Goto("last")
    /\ UNCHANGED <<ram, fd, cfg, conf, image, copied>>

\* The mutant: the stack is not counted as part of the stub.
GrowStub_mutant ==
    /\ At("grow")
    /\ Goto("setup")
    /\ UNCHANGED <<vm, ram, fd, cfg, conf, image, copied>>
GrowStub ==
    /\ At("grow")
    /\ cfg' = [cfg EXCEPT !.stub_size = @ + 1]
    /\ Goto("setup")
    /\ UNCHANGED <<vm, ram, fd, conf, image, copied>>

-----------------------------------------------------------------------------
(* entrypoint_1 *)

\* Signal stack, handlers and timer; then RAM, if RAM_FD is there.
SetUp ==
    /\ At("setup")
    /\ vm' = IF fd[RAM_FD] = "ram"
             THEN [p \in HostPage |-> IF p \in RamPage THEN RamMap(p, Prot) ELSE vm[p]]
             ELSE vm
    /\ Goto("image")
    /\ UNCHANGED <<ram, fd, cfg, conf, image, copied>>

\* Where n pages can be mapped.
Room(n) == {p \in MmapArea : p .. (p + n - 1) \subseteq FreeArea}

\* An inherited descriptor may or may not be a file that can be mapped.
MapImage ==
    LET n == cfg.kernel_size
    IN  /\ At("image")
        /\ \/ /\ n > 0
              /\ fd[KERNEL_FD] \in {"kernel", "inherited"}
              /\ \E p \in Room(n) :
                    /\ image' = p
                    /\ vm' = [q \in HostPage |-> IF q \in p .. (p + n - 1)
                                                 THEN Mapped("image") ELSE vm[q]]
           \/ /\ n = 0 \/ fd[KERNEL_FD] # "kernel" \/ Room(n) = {}
              /\ image' = -1
              /\ vm' = vm
        /\ Goto("copy")
        /\ UNCHANGED <<ram, fd, cfg, conf, copied>>

\* Where page n of the kernel goes; the mutant takes the start of RAM.
copy_to_mutant(n) == RamFirst + n
copy_to(n)        == KernelPage + n

\* A page of the kernel.  An access that faults finds the handlers installed
\* and satp zero: handle_page_fault has no answer and executes ebreak.
CopyPage ==
    LET to == copy_to(copied)
    IN  /\ At("copy")
        /\ copied < cfg.kernel_size
        /\ \/ /\ image # -1
              /\ vm[to].kind = "guest"
              /\ \E d \in IF fd[KERNEL_FD] = "kernel" THEN {Image[copied]} ELSE Data :
                    ram' = [ram EXCEPT ![to] = d]
              /\ copied' = copied + 1
              /\ Goto("copy")
              /\ UNCHANGED <<vm, fd, cfg, conf, image>>
           \/ image # -1 /\ fd[KERNEL_FD] = "inherited" /\ Dies("SIGBUS")
           \/ (image = -1 \/ vm[to].kind # "guest") /\ Dies("SIGSEGV")

CopyDone ==
    /\ At("copy")
    /\ copied >= cfg.kernel_size
    /\ Goto("filter")
    /\ UNCHANGED <<vm, ram, fd, cfg, conf, image, copied>>

InstallFilter ==
    /\ At("filter")
    /\ \/ /\ host.seccomp
          /\ vm' = IF image = -1 THEN vm
                   ELSE munmap(vm, image .. (image + cfg.kernel_size - 1))
          /\ Goto("priv")
          /\ UNCHANGED <<ram, fd, cfg, conf, image, copied>>
       \/ ~ host.seccomp /\ Dies("exited")

\* initialize_priv, munmap of conf, the jump.  The pc is the guest's from here.
Jump ==
    /\ At("priv")
    /\ hart' = initialize_priv(KernelStart)
    /\ vm' = munmap(vm, {conf})
    /\ step' = "done"
    /\ status' = "running"
    /\ UNCHANGED <<pt, ram, disk, timer, alarm, dirty, host, fd, cfg, conf, image, copied>>

-----------------------------------------------------------------------------

Loader == Usage \/ LoadStub \/ OpenKernel \/ CreateMemfds \/ OpenBlock
          \/ WriteConfig \/ CallStub

Entrypoint == \/ MapConf("entry", "below") \/ UnmapBelow
              \/ MapConf("again", "above") \/ UnmapAbove
              \/ MapSigstack
              \/ MapConf("last", "grow") \/ GrowStub

Entrypoint1 == SetUp \/ MapImage \/ CopyPage \/ CopyDone \/ InstallFilter \/ Jump

BootStep == Loader \/ Entrypoint \/ Entrypoint1

Run == status # "booting" /\ Next /\ UNCHANGED bootVars

BootNext == BootStep \/ Run

\* Fairness: the boot code is straight-line code that the scheduler runs.
BootSpec == BootInit /\ [][BootNext]_allVars /\ WF_allVars(BootStep)

-----------------------------------------------------------------------------

(***************************************************************************)
(* The boot code does not saw off its branch: whenever the stub runs, its  *)
(* own pages are mapped; when it reads or writes the configuration that is *)
(* mapped; and entrypoint_1 has the stack it is given, whatever the loader *)
(* had mapped where.                                                       *)
(***************************************************************************)
OwnPagesMapped ==
    status = "booting" =>
      /\ step \notin {"main", "kernel", "memfd", "block", "config", "call"}
           => \A p \in StubFile : vm[p] = StubMap
      /\ step \in {"below", "above", "grow", "setup", "image", "copy", "filter", "priv"}
           => vm[conf].kind = "config"
      /\ step \in {"last", "grow", "setup", "image", "copy", "filter", "priv"}
           => vm[SigstackPage] = StubMap

(***************************************************************************)
(* The descriptors the running stub works with are the right ones,         *)
(* whatever the loader inherited: CONFIG_FD and RAM_FD always, or it does  *)
(* not get that far; BLOCK_FD if the disk image could be opened and some   *)
(* descriptor below these was free; and the guest was read from the kernel *)
(* file if there is one.  (Without it, main goes on, and a guest starts if *)
(* descriptor KERNEL_FD was inherited.  An empty kernel needs no RAM.)     *)
(***************************************************************************)
RightFiles ==
    step = "done" /\ cfg.kernel_size > 0 =>
      /\ fd[CONFIG_FD] = "config"
      /\ fd[RAM_FD] = "ram"
      /\ fd[KERNEL_FD] = IF host.kernel THEN "kernel" ELSE "inherited"
      /\ host.block /\ (\E n \in 0 .. (CONFIG_FD - 1) : n \notin host.inherited)
           => fd[BLOCK_FD] = "block"

(***************************************************************************)
(* A guest that starts has its whole kernel in RAM and nothing else: a     *)
(* kernel that is too large, or whose descriptor was lost, does not start. *)
(***************************************************************************)
KernelInRam ==
    \A p \in RamPage :
        ram[p] = IF p - KernelPage \in 0 .. (host.size - 1)
                 THEN Image[p - KernelPage] ELSE ZeroData

\* The kernel is in RAM when the stub jumps to it, if it could be opened.
KernelLoaded == [][Jump /\ host.kernel => KernelInRam]_allVars

(***************************************************************************)
(* The state the guest is started in is an initial state of UrvirtStub,    *)
(* and the size in the configuration, by which the handler unmaps and the  *)
(* filter decides, covers the signal stack.                                *)
(***************************************************************************)
HandsOver ==
    [][Jump /\ cfg.kernel_size > 0 =>
         Init' /\ stub_end' = StubEnd]_allVars

(***************************************************************************)
(* With its files there, room for the kernel and two free descriptors      *)
(* below CONFIG_FD the guest starts.                                       *)
(***************************************************************************)
Fit == /\ host.argc = 4 /\ host.stub /\ host.kernel /\ host.seccomp
       /\ host.size <= RamEnd - KernelPage
       /\ Cardinality((0 .. (CONFIG_FD - 1)) \ host.inherited) >= 2

Starts == Fit ~> step = "done"
=============================================================================
