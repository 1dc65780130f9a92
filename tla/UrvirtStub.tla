----------------------------- MODULE UrvirtStub -----------------------------
(***************************************************************************)
(* The running hypervisor: a guest that executes instructions, and the     *)
(* signal handler of urvirt-stub.c that is entered for every instruction   *)
(* the guest cannot execute by itself and for every timer signal.          *)
(*                                                                         *)
(* The program has one thread and SIGALRM is masked while the handler runs *)
(* (sa_mask), so the handler runs to completion before the guest moves: a  *)
(* signal and its whole handling, up to the return, is one step.  What can *)
(* happen during the handler is that the host timer expires; TimerExpires  *)
(* only makes SIGALRM pending, so its place inside or outside the handler  *)
(* makes no difference here (SbiTimer looks inside sbi_set_timer).         *)
(*                                                                         *)
(* The host's memory map is used as the guest's TLB: vm says, for every    *)
(* page the process may map, what is mapped there while the guest runs.    *)
(* The mappings of CONFIG_FD and RAM_FD that the handler makes for itself  *)
(* are gone when it returns; the page CONFIG_FD lands on is chosen by the  *)
(* kernel among the free ones and matters while the handler maps a page.   *)
(*                                                                         *)
(* asm("ebreak") ends the process (SIGTRAP has no handler), and so does a  *)
(* SIGSEGV raised inside the SIGSEGV handler.                              *)
(***************************************************************************)
EXTENDS RiscvPriv

CONSTANTS
    PageSize,           \* 4096
    UserTop,            \* first page number mmap and munmap cannot reach (2^38)
    StubFirst, StubEnd, \* pages of the stub and its signal stack: [First, End)
    RamFirst, RamEnd,   \* page numbers of the emulated RAM: [First, End)
    UrvbPage,           \* physical page of the block device's registers
    URVIRT_BLOCK_SIZE,  \* 512
    KernelStart,        \* KERNEL_START
    VPage,              \* the virtual pages the guest's page tables cover
    Data                \* contents of a RAM page, or of a disk block

(***************************************************************************)
(* What the guest may do.  Each is a bound of the instance: the values are *)
(* the guest's free choices.                                               *)
(***************************************************************************)
CONSTANTS
    CodeAddr,   \* addresses at which the guest executes chosen instructions
    DataAddr,   \* addresses its loads and stores use
    DataInsn,   \* its load and store instructions (records of Insn)
    CsrValue,   \* CSR name -> operands it uses with that CSR
    Deadline,   \* deadlines of its sbi_set_timer calls: "past", "now", "future"
    PteChoice,  \* what it puts in its page tables
    StoreData,  \* register values it stores to the device
    DiskBlock   \* offsets of the blocks the disk image starts with

HostPage == 0 .. (UserTop - 1)
StubPage == StubFirst .. (StubEnd - 1)
RamPage  == RamFirst .. (RamEnd - 1)

ASSUME LayoutAssumption ==
    /\ {PageSize, UserTop, StubFirst, StubEnd, RamFirst, RamEnd, UrvbPage} \subseteq Nat
    /\ PageSize > 0
    /\ StubFirst <= StubEnd /\ StubEnd <= UserTop
    /\ RamFirst < RamEnd /\ RamEnd <= UserTop
    /\ RamEnd <= StubFirst \/ StubEnd <= RamFirst
    /\ UrvbPage \notin RamPage
    /\ KernelStart \in Word
    /\ URVIRT_BLOCK_SIZE \in Nat \ {0}

\* The offsets a file can have: the non-negative words of an off_t.
Offset == 0 .. ((WordSize \div 2) - 1)

Prot == {"R", "W", "X"}

\* A virtual page of the process: free, part of the stub, or a page of RAM_FD.
Unmapped == [kind |-> "none", ppn |-> 0, prot |-> {}]
StubMap  == [kind |-> "stub", ppn |-> 0, prot |-> {"R", "X"}]
RamMap(ppn, prot) == [kind |-> "guest", ppn |-> ppn, prot |-> prot]
GuestMapping == [kind : {"guest"}, ppn : RamPage, prot : SUBSET Prot]
Mapping      == {Unmapped, StubMap} \cup GuestMapping

(***************************************************************************)
(* What lookup_pa_in_ram makes of a virtual page under some root table:    *)
(* "invalid" when it returns false (no valid leaf, or an address that is   *)
(* not sign-extended), "broken" when it executes ebreak (a table outside   *)
(* RAM, a large page), or the leaf entry it found.                         *)
(***************************************************************************)
Pte       == [kind : {"invalid", "broken", "leaf"},
              flags : SUBSET {"R", "W", "X", "U"}, ppn : Nat]
NoPte     == [kind |-> "invalid", flags |-> {}, ppn |-> 0]
BrokenPte == [kind |-> "broken", flags |-> {}, ppn |-> 0]

\* Page 0 is below RAM, so a satp whose PPN is 0 has no usable table.
Table == Root \ {0}

ASSUME GuestAssumption ==
    /\ CodeAddr \subseteq Word /\ DataAddr \subseteq Word /\ StoreData \subseteq Word
    /\ DataInsn \subseteq Insn
    /\ PteChoice \subseteq {e \in Pte : "W" \in e.flags => "R" \in e.flags}
    /\ VPage \subseteq Nat
    /\ \A csr \in DOMAIN CsrValue : CsrValue[csr] \subseteq CsrOperand(csr)
    /\ DiskBlock \subseteq Offset
    /\ Deadline \subseteq {"past", "now", "future"}

VARIABLES
    hart,       \* struct priv_state, and the guest's pc
    vm,         \* what the process has mapped at each page
    pt,         \* the guest's page tables, as lookup_pa sees them
    ram,        \* content of the RAM pages
    disk,       \* content of the blocks behind BLOCK_FD, by offset
    timer,      \* the host timer behind priv->timerid
    alarm,      \* SIGALRM is pending
    status,     \* "running", or how the process ended: "exited", the signal in
                \* whose handler it died, or "collision": the page to be mapped
                \* is the one where that handler has mapped CONFIG_FD; or a
                \* state not followed further: "derailed", "corrupted"
    dirty       \* history: <<root, page>> written since the last fence event

vars == <<hart, vm, pt, ram, disk, timer, alarm, status, dirty>>

TypeOK ==
    /\ hart \in Hart
    /\ vm \in [HostPage -> Mapping]
    /\ pt \in [Root -> [VPage -> Pte]]
    /\ ram \in [RamPage -> Data]
    /\ DOMAIN disk \subseteq Offset
    /\ \A b \in DOMAIN disk : disk[b] \in Data
    /\ timer \in {"disarmed", "armed"}
    /\ alarm \in BOOLEAN
    /\ status \in {"running", "exited", "derailed", "corrupted", "collision",
                  "SIGSYS", "SIGILL", "SIGSEGV"}
    /\ dirty \subseteq Root \X VPage

\* The state in which entrypoint_1 jumps to the kernel (Boot shows that it is
\* one of these): the kernel's image may have put anything in RAM.
Init ==
    /\ hart = initialize_priv(KernelStart)
    /\ vm = [p \in HostPage |-> IF p \in StubPage THEN StubMap
                                ELSE IF p \in RamPage THEN RamMap(p, Prot)
                                ELSE Unmapped]
    /\ pt = [r \in Root |-> [p \in VPage |-> IF r = 0 THEN BrokenPte ELSE NoPte]]
    /\ ram \in [RamPage -> Data]
    /\ disk \in [DiskBlock -> Data]
    /\ timer = "disarmed"
    /\ alarm = FALSE
    /\ status = "running"
    /\ dirty = {}

-----------------------------------------------------------------------------
(* Memory as the hardware sees it while the guest runs *)

Page(a) == a \div PageSize

\* The access goes through without a signal.
Has(a, right) == /\ Page(a) \in HostPage
                 /\ vm[Page(a)].kind = "guest"
                 /\ right \in vm[Page(a)].prot

LastHalf(n) == (hart.pc + (n - 2)) % WordSize

\* An n-byte instruction at the pc can be fetched, and read by the handler.
Fetched(n)  == Has(hart.pc, "X") /\ Has(LastHalf(n), "X")
Readable(n) == Has(hart.pc, "R") /\ Has(LastHalf(n), "R")

-----------------------------------------------------------------------------
(* The page table walk *)

BarePte == [kind |-> "bare", flags |-> {}, ppn |-> 0]

lookup_pa(va) == IF hart.satp.mode = SATP_MODE_BARE THEN BarePte
                 ELSE IF Page(va) \in VPage THEN pt[hart.satp.ppn][Page(va)]
                 ELSE NoPte

-----------------------------------------------------------------------------
(* The way out of the handler *)

\* asm("ebreak"), or a fatal SIGSEGV, in the handling of signal sig.
Ebreak(sig) == /\ status' = sig
               /\ UNCHANGED <<hart, vm, pt, ram, disk, timer, alarm, dirty>>

\* The two munmap calls around the stub.  The mutant: the size of the stub
\* without its signal stack.
clear_vm_mutant(m) == [p \in HostPage |-> IF p < StubFirst \/ p >= StubEnd - 1
                                          THEN Unmapped ELSE m[p]]
clear_vm(m) == [p \in HostPage |-> IF p < StubFirst \/ p >= StubEnd
                                   THEN Unmapped ELSE m[p]]

\* From the interrupt check to the return; fence says that what was handled
\* is an event after which the guest may rely on its new page tables.
Return(h, m, fence) ==
    LET h1 == take_interrupt(h)
    IN  /\ hart' = [h1 EXCEPT !.should_clear_vm = FALSE]
        /\ vm' = IF h1.should_clear_vm THEN clear_vm(m) ELSE m
        /\ dirty' = IF fence \/ interrupt_due(h) THEN {} ELSE dirty

\* A handler that touches nothing but the hart.
Resume(h, fence) == /\ Return(h, vm, fence)
                    /\ UNCHANGED <<pt, ram, disk, timer, alarm, status>>

-----------------------------------------------------------------------------
(* SIGSYS: ecall *)

Ecall(mode) == /\ status = "running"
               /\ hart.priv_mode = mode
               /\ hart.pc \in CodeAddr
               /\ Fetched(4)

\* The pc of a SIGSYS context is already past the ecall.
AfterEcall == advance(hart, 4)

EcallFromUser_mutant ==  \* the pc left as SIGSYS reports it
    Ecall(PRIV_U) /\ Resume(enter_trap(AfterEcall, SCAUSE_UECALL, 0), TRUE)
EcallFromUser ==
    /\ Ecall(PRIV_U)
    /\ Resume(enter_trap(advance(AfterEcall, -4), SCAUSE_UECALL, 0), TRUE)

\* putchar, getchar with or without a character, an unsupported call.
SbiPlain == Ecall(PRIV_S) /\ Resume(AfterEcall, FALSE)

\* getchar at the end of stdin, or a failing read.
SbiGetcharFails == Ecall(PRIV_S) /\ Ebreak("SIGSYS")

SbiShutdown == /\ Ecall(PRIV_S)
               /\ status' = "exited"
               /\ UNCHANGED <<hart, vm, pt, ram, disk, timer, alarm, dirty>>

\* A deadline in the past becomes a huge unsigned interval.  A zero interval
\* disarms the timer: the deadline is the current time, or the product wraps
\* to zero.  Whether a SIGALRM that is already pending survives
\* timer_settime depends on the kernel.
SbiSetTimer(when) ==
    /\ Ecall(PRIV_S)
    /\ timer' \in IF when = "now" THEN {"disarmed"} ELSE {"armed", "disarmed"}
    /\ alarm' \in {alarm, FALSE}
    /\ Return([AfterEcall EXCEPT !.sip = SetBit(@, "STI", when # "future")], vm, FALSE)
    /\ UNCHANGED <<pt, ram, disk, status>>

-----------------------------------------------------------------------------
(* SIGILL: privileged instructions *)

Illegal(mode, len) == /\ status = "running"
                      /\ hart.priv_mode = mode
                      /\ hart.pc \in CodeAddr
                      /\ Fetched(len)

IllegalInUser == /\ Illegal(PRIV_U, 2)
                 /\ Resume(enter_trap(hart, SCAUSE_ILLEGAL, 0), TRUE)

\* The handler reads the instruction through the guest's own mapping.
Privileged == Illegal(PRIV_S, 4) /\ Readable(4)

\* Not 32 bits long, not SYSTEM, or no instruction it knows.
CannotEmulate == Illegal(PRIV_S, 2) /\ Readable(2) /\ Ebreak("SIGILL")

(***************************************************************************)
(* SIGSEGV is not masked in the SIGILL handler: when it cannot read the    *)
(* instruction, a second handler looks at the handler's own load.  The     *)
(* page is mapped, so that ends with ebreak, unless its table entry was    *)
(* invalidated in the meantime: the nested handler then "enters" the       *)
(* guest's trap vector with the registers of the first handler and with    *)
(* SIGILL masked.  That state is not followed further.                     *)
(***************************************************************************)
UnreadableInsn_mutant ==  \* the nested handler does not stop S-mode on a denied page
    /\ Illegal(PRIV_S, 2) /\ ~ Has(hart.pc, "R")
    /\ status' = IF lookup_pa(hart.pc).kind \in {"invalid", "leaf"} THEN "derailed" ELSE "SIGILL"
    /\ UNCHANGED <<hart, vm, pt, ram, disk, timer, alarm, dirty>>
UnreadableInsn ==
    /\ \/ Illegal(PRIV_S, 2) /\ ~ Has(hart.pc, "R")
       \/ Illegal(PRIV_S, 4) /\ ~ Readable(4)
    /\ LET a == IF Has(hart.pc, "R") THEN LastHalf(4) ELSE hart.pc
       IN  status' = IF lookup_pa(a).kind = "invalid" THEN "derailed" ELSE "SIGILL"
    /\ UNCHANGED <<hart, vm, pt, ram, disk, timer, alarm, dirty>>

SfenceVma == Privileged /\ Resume(sfence_vma(hart), TRUE)
Wfi       == Privileged /\ Resume(advance(hart, 4), FALSE)
Sret      == Privileged /\ Resume(sret(hart), "SPP" \notin hart.sstatus)

CsrInstr(csr, op, will_write, v) ==
    /\ Privileged
    /\ csr \in ImplementedCsr
    /\ LET h == csr_instr(hart, csr, op, will_write, v)
       IN  Resume(h, /\ csr = "satp"
                     /\ op = "RW" \/ will_write
                     /\ v.mode \in {SATP_MODE_SV39, SATP_MODE_BARE})

UnimplementedCsr(csr) == Privileged /\ csr \notin ImplementedCsr /\ Ebreak("SIGILL")

-----------------------------------------------------------------------------
(* SIGALRM: the timer *)

TimerExpires ==
    /\ status = "running"
    /\ timer = "armed"
    /\ timer' = "disarmed"
    /\ alarm' = TRUE
    /\ UNCHANGED <<hart, vm, pt, ram, disk, status, dirty>>

Sigalrm ==
    /\ status = "running"
    /\ alarm
    /\ alarm' = FALSE
    /\ Return([hart EXCEPT !.sip = SetBit(@, "STI", TRUE)], vm, FALSE)
    /\ UNCHANGED <<pt, ram, disk, timer, status>>

-----------------------------------------------------------------------------
(* SIGSEGV: page faults *)

FreePage == {p \in HostPage : vm[p].kind = "none"}

\* The right a fault of each cause asks of the page table entry.
Wanted_mutant(scause) == IF scause = SCAUSE_INSTR_PF THEN "X" ELSE "W"
Wanted(scause) == CASE scause = SCAUSE_INSTR_PF -> "X"
                    [] scause = SCAUSE_LOAD_PF  -> "R"
                    [] OTHER                    -> "W"

\* mmap with MAP_FIXED_NOREPLACE, while CONFIG_FD is mapped at page conf.
MapPage(p, pte, conf) ==
    \/ /\ p \in FreePage \ {conf}
       /\ Return(hart, [vm EXCEPT ![p] = RamMap(pte.ppn, pte.flags \cap Prot)], FALSE)
       /\ UNCHANGED <<pt, ram, disk, timer, alarm, status>>
    \/ p \in FreePage /\ p = conf /\ Ebreak("collision")
    \/ p \notin FreePage /\ Ebreak("SIGSEGV")

(***************************************************************************)
(* The block device.  pread64 and pwrite64 take the guest's buffer address *)
(* as it is: they fail when the host has no suitable mapping there, and    *)
(* the result is not looked at.  The offset is computed in a word, so that *)
(* far block ids wrap around; a negative one is refused.  While they run,  *)
(* CONFIG_FD is mapped at page conf: a buffer there is priv_state itself.  *)
(* A block stands for the page it is put in.                               *)
(***************************************************************************)
block_offset == (URVIRT_BLOCK_SIZE * hart.urvb_block_id) % WordSize

\* What pwrite64 may find at the buffer: nothing, if it cannot read there.
BufferData(conf) == IF Has(hart.urvb_buf, "R") THEN {ram[vm[Page(hart.urvb_buf)].ppn]}
                    ELSE IF Page(hart.urvb_buf) = conf THEN Data ELSE {}

block_command_mutant(cmd, conf) ==  \* the buffer taken for a physical address
    /\ ram' = IF cmd = 1 /\ Page(hart.urvb_buf) \in RamPage /\ block_offset \in DOMAIN disk
              THEN [ram EXCEPT ![Page(hart.urvb_buf)] = disk[block_offset]]
              ELSE ram
    /\ UNCHANGED disk
block_command(cmd, conf) ==
    LET off == block_offset
        buf == hart.urvb_buf
    IN  \/ /\ cmd = 1
           /\ ram' = IF Has(buf, "W") /\ off \in DOMAIN disk
                     THEN [ram EXCEPT ![vm[Page(buf)].ppn] = disk[off]]
                     ELSE ram
           /\ UNCHANGED disk
        \/ /\ cmd = 2 /\ off \in Offset
           /\ \E d \in BufferData(conf) :
                 disk' = [x \in DOMAIN disk \cup {off} |-> IF x = off THEN d ELSE disk[x]]
           /\ UNCHANGED ram
        \/ /\ cmd = 2 /\ (off \notin Offset \/ BufferData(conf) = {})
           /\ UNCHANGED <<ram, disk>>

\* pread64 puts the block over priv_state; what the stub does then is not
\* followed further.
Overwritten(cmd, conf) ==
    cmd = 1 /\ Page(hart.urvb_buf) = conf /\ block_offset \in DOMAIN disk

\* A command of the guest, which is assumed to keep its buffer off the stub.
BlockCommand(h, cmd) ==
    /\ Page(hart.urvb_buf) \notin StubPage
    /\ \E conf \in FreePage :
          \/ Overwritten(cmd, conf) /\ Ebreak("corrupted")
          \/ /\ ~ Overwritten(cmd, conf)
             /\ block_command(cmd, conf)
             /\ Return(h, vm, FALSE)
             /\ UNCHANGED <<pt, timer, alarm, status>>

\* A store of data by instruction i at offset off of the device's page.
MmioStore(i, off, data) ==
    LET h     == advance(hart, mmio_advance(i))
        known == off = 0 /\ data \in {1, 2}
    IN  \/ known /\ BlockCommand(h, data)
        \/ off = 8 /\ Resume([h EXCEPT !.urvb_block_id = data], FALSE)
        \/ off = 16 /\ Resume([h EXCEPT !.urvb_buf = data], FALSE)
        \/ ~ known /\ off \notin {8, 16} /\ Ebreak("SIGSEGV")

\* The value of register rs2, d being that of a register the guest may set;
\* slot 0 of the saved registers is the pc.
get_store_data(rs2, d) == IF rs2 = 0 THEN hart.pc ELSE d

\* decode_sd needs all of the instruction; other than stores to the block
\* device, nothing outside RAM is emulated.
Mmio(scause, va, pte, i) ==
    LET emulated == /\ scause = SCAUSE_STORE_PF
                    /\ pte.ppn = UrvbPage
                    /\ Readable(mmio_advance(i))
    IN  \/ /\ emulated
           /\ \E rs2 \in decode_sd(i) \ {-1}, d \in StoreData :
                 MmioStore(i, va % PageSize, get_store_data(rs2, d))
        \/ /\ ~ emulated \/ -1 \in decode_sd(i)
           /\ Ebreak("SIGSEGV")

handle_page_fault(scause, va, i) ==
    LET pte    == lookup_pa(va)
        leaf   == pte.kind = "leaf" /\ pte.ppn \in RamPage
        denied == Wanted(scause) \notin pte.flags
    IN  \/ pte.kind = "invalid" /\ Resume(enter_trap(hart, scause, va), TRUE)
        \/ pte.kind \in {"bare", "broken"} /\ Ebreak("SIGSEGV")
        \/ leaf /\ denied /\ hart.priv_mode = PRIV_S /\ Ebreak("SIGSEGV")
        \/ leaf /\ denied /\ hart.priv_mode = PRIV_U
             /\ Resume(enter_trap(hart, scause, va), TRUE)
        \/ leaf /\ ~ denied /\ \E conf \in FreePage : MapPage(Page(va), pte, conf)
        \/ pte.kind = "leaf" /\ pte.ppn \notin RamPage /\ Mmio(scause, va, pte, i)

\* The access raises SIGSEGV.  The stub's own pages are not protected from
\* the guest, which is assumed to leave them alone.
Faults(a, right) == Page(a) \notin StubPage /\ ~ Has(a, right)

SegvFetch ==
    /\ status = "running"
    /\ Faults(hart.pc, "X")
    /\ handle_page_fault(SCAUSE_INSTR_PF, hart.pc, [low |-> 0, opcode |-> "OTHER",
                                                    funct3 |-> 0, rs2 |-> 0])

\* The fault of an instruction i at the pc on another address than the pc:
\* reading the instruction at an unreadable pc is a SIGSEGV with SIGSEGV masked.
SegvAt(i, a) ==
    \/ a = hart.pc /\ handle_page_fault(SCAUSE_INSTR_PF, a, i)
    \/ a # hart.pc /\ Has(hart.pc, "R") /\ handle_page_fault(segv_scause(i), a, i)
    \/ a # hart.pc /\ ~ Has(hart.pc, "R") /\ Ebreak("SIGSEGV")

\* Only the second half of a 32-bit instruction is on a page not mapped yet.
SegvSecondHalf(i) ==
    /\ status = "running"
    /\ hart.pc \in CodeAddr
    /\ InsnLength(i) = 4
    /\ Has(hart.pc, "X")
    /\ Faults(LastHalf(4), "X")
    /\ SegvAt(i, LastHalf(4))

\* The right a load or store needs of the mapping it goes through.
Needs(i) == IF IsStore(i) THEN "W" ELSE "R"

SegvData(i, va) ==
    /\ status = "running"
    /\ hart.pc \in CodeAddr
    /\ Fetched(InsnLength(i))
    /\ IsLoad(i) \/ IsStore(i)
    /\ Faults(va, Needs(i))
    /\ SegvAt(i, va)

-----------------------------------------------------------------------------
(* The guest, between two signals *)

GuestJump(a) ==
    /\ status = "running"
    /\ Fetched(2)
    /\ hart' = [hart EXCEPT !.pc = a]
    /\ UNCHANGED <<vm, pt, ram, disk, timer, alarm, status, dirty>>

\* Page tables are memory of the guest, kept apart from the data pages.
GuestWritePte(r, p, pte) ==
    /\ status = "running"
    /\ Fetched(2)
    /\ pt' = [pt EXCEPT ![r][p] = pte]
    /\ dirty' = dirty \cup {<<r, p>>}
    /\ UNCHANGED <<hart, vm, ram, disk, timer, alarm, status>>

GuestStore(va, d) ==
    /\ status = "running"
    /\ Fetched(2)
    /\ Has(va, "W")
    /\ ram' = [ram EXCEPT ![vm[Page(va)].ppn] = d]
    /\ UNCHANGED <<hart, vm, pt, disk, timer, alarm, status, dirty>>

Stopped == status # "running" /\ UNCHANGED vars

-----------------------------------------------------------------------------

Sigsys == \/ EcallFromUser \/ SbiPlain \/ SbiGetcharFails \/ SbiShutdown
          \/ \E when \in Deadline : SbiSetTimer(when)

Sigill == \/ IllegalInUser \/ CannotEmulate \/ UnreadableInsn
          \/ SfenceVma \/ Wfi \/ Sret
          \/ \E csr \in DOMAIN CsrValue :
                \/ \E op \in {"RW", "RS", "RC"}, will_write \in BOOLEAN,
                       v \in CsrValue[csr] : CsrInstr(csr, op, will_write, v)
                \/ UnimplementedCsr(csr)

Sigsegv == \/ SegvFetch
           \/ \E i \in DataInsn : \/ SegvSecondHalf(i)
                                  \/ \E va \in DataAddr : SegvData(i, va)

Guest == \/ \E a \in CodeAddr : GuestJump(a)
         \/ \E r \in Table, p \in VPage, pte \in PteChoice : GuestWritePte(r, p, pte)
         \/ \E va \in DataAddr, d \in Data : GuestStore(va, d)

Next == Sigsys \/ Sigill \/ Sigalrm \/ Sigsegv \/ TimerExpires \/ Guest \/ Stopped

Spec == Init /\ [][Next]_vars

-----------------------------------------------------------------------------
(* Safety *)

(***************************************************************************)
(* The guest never runs while an interrupt it has enabled is pending: the  *)
(* check at the end of handler() is reached after every change of sip,     *)
(* sie, sstatus or the mode, and one trap entry settles it.                *)
(***************************************************************************)
InterruptTaken == status = "running" => ~ interrupt_due(hart)

(***************************************************************************)
(* The handler's own pages stay mapped as they are, whatever the guest's   *)
(* page tables map and however often everything else is unmapped.          *)
(***************************************************************************)
StubIntact == \A p \in StubPage : vm[p] = StubMap

\* The translation the guest's tables give for page p in address space s.
Translation(s, p) ==
    IF s.mode = SATP_MODE_BARE
    THEN IF p \in RamPage THEN RamMap(p, Prot) ELSE Unmapped
    ELSE IF p \in VPage /\ pt[s.ppn][p].kind = "leaf" /\ pt[s.ppn][p].ppn \in RamPage
         THEN RamMap(pt[s.ppn][p].ppn, pt[s.ppn][p].flags \cap Prot)
         ELSE Unmapped

(***************************************************************************)
(* A guest that fences sees its own page tables: unless the entry was      *)
(* written since the last sfence.vma, satp write, change of mode or        *)
(* interrupt, a page the host has mapped for the guest is mapped to the    *)
(* frame and with the rights of the entry in the address space in force.   *)
(***************************************************************************)
NoStaleMapping ==
    status = "running" =>
        \A p \in HostPage : /\ vm[p].kind = "guest"
                            /\ <<hart.satp.ppn, p>> \notin dirty
                            => vm[p] = Translation(hart.satp, p)

\* The architecture's trap vector: four bytes for each interrupt in vectored mode.
Vector(stvec, scause) ==
    LET base == 4 * (stvec \div 4)
    IN  IF stvec % 4 = 1 /\ scause >= SCAUSE_IS_INT
        THEN (base + 4 * (scause - SCAUSE_IS_INT)) % WordSize
        ELSE base

(***************************************************************************)
(* A trap from U-mode is precise: whichever signal it came from, and       *)
(* whatever interrupt is pending, sepc is the instruction the guest was    *)
(* at, SPP and SPIE record where it came from, and the guest continues at  *)
(* its trap vector with interrupts off.                                    *)
(***************************************************************************)
PreciseTrap ==
    hart.priv_mode = PRIV_U /\ hart'.priv_mode = PRIV_S =>
        /\ hart'.sepc = hart.pc
        /\ "SPP" \notin hart'.sstatus
        /\ "SPIE" \in hart'.sstatus <=> "SIE" \in hart.sstatus
        /\ "SIE" \notin hart'.sstatus
        /\ hart'.pc = Vector(hart.stvec, hart'.scause)

\* Every step that takes the guest from U-mode to S-mode is a precise trap.
UserTrapPrecise == [][PreciseTrap]_vars

(***************************************************************************)
(* An emulated instruction happens once: the guest continues after it, or  *)
(* it takes the timer interrupt with sepc after it, never at it.           *)
(***************************************************************************)
Emulated ==
    \/ Wfi \/ SfenceVma \/ SbiPlain
    \/ \E when \in Deadline : SbiSetTimer(when)
    \/ \E csr \in DOMAIN CsrValue, op \in {"RW", "RS", "RC"}, w \in BOOLEAN :
          \E v \in CsrValue[csr] : CsrInstr(csr, op, w, v)

PassesInsn ==
    LET next == (hart.pc + 4) % WordSize
    IN  \/ hart'.pc = next
        \/ /\ hart'.sepc = next
           /\ hart'.scause = SCAUSE_TIMER
           /\ hart'.pc = Vector(hart'.stvec, SCAUSE_TIMER)

\* Every emulated instruction is passed exactly once.
EmulatedOnce == [][PassesInsn \/ ~ Emulated]_vars

(***************************************************************************)
(* A trap can be returned from: sret undoes enter_trap, so the guest gets  *)
(* back its pc, its mode and its interrupt enable.                         *)
(***************************************************************************)
TrapReturns ==
    \A scause \in {SCAUSE_UECALL, SCAUSE_TIMER} :
        LET h == sret(enter_trap(hart, scause, 0))
        IN  /\ h.pc = hart.pc
            /\ h.priv_mode = hart.priv_mode
            /\ "SIE" \in h.sstatus <=> "SIE" \in hart.sstatus

(***************************************************************************)
(* A data access that faults gets an answer: the guest takes the page      *)
(* fault of that kind at that address, or the store was emulated, or the   *)
(* page is now mapped so that the same access goes through; or the stub    *)
(* gave up.  There is no signal after which the guest just faults again.   *)
(***************************************************************************)
Answered(i, va) ==
    \/ status' # "running"
    \/ Has(va, Needs(i))'
    \/ hart'.pc = (hart.pc + InsnLength(i)) % WordSize
    \/ /\ hart'.sepc = hart.pc
       /\ hart'.stval = va
       /\ hart'.scause = IF IsStore(i) THEN SCAUSE_STORE_PF ELSE SCAUSE_LOAD_PF

\* Every data access of the guest that raises SIGSEGV is answered by it.  (The
\* fault of an access to its own instruction is taken for one of the fetch.)
FaultAnswered ==
    [][\A i \in DataInsn, va \in DataAddr :
         Answered(i, va) \/ ~ SegvData(i, va) \/ va = hart.pc]_vars

(***************************************************************************)
(* An access that the guest's own, fenced tables allow goes through: the   *)
(* stub maps the page with the right it needs, and never finds its own     *)
(* earlier mapping in the way.  It fails only where Linux cannot map, on   *)
(* the page that CONFIG_FD happens to be on, or for code it cannot read.   *)
(***************************************************************************)
Allowed(i, va) ==
    /\ Has(hart.pc, "R")
    /\ Needs(i) \in Translation(hart.satp, Page(va)).prot
    /\ <<hart.satp.ppn, Page(va)>> \notin dirty

Granted(i, va) ==
    \/ status' = "running" /\ Has(va, Needs(i))'
    \/ status' = "collision"
    \/ Page(va) \notin HostPage

\* A data access that the tables allow and that raises SIGSEGV is granted.
AllowedAccess ==
    [][\A i \in DataInsn, va \in DataAddr :
         Allowed(i, va) /\ SegvData(i, va) => Granted(i, va)]_vars

(***************************************************************************)
(* The SIGILL handler reads the instruction through the guest's mapping,   *)
(* and when it cannot, a second handler runs on top of it.  That one       *)
(* returns into the guest, with the first one's registers, only if the     *)
(* guest executes from a page whose entry it has changed without a fence.  *)
(***************************************************************************)
DerailedOnlyUnfenced ==
    status = "derailed" =>
        \E a \in {hart.pc, LastHalf(4)} : <<hart.satp.ppn, Page(a)>> \in dirty

(***************************************************************************)
(* The block device reaches memory through the guest's tables: a frame     *)
(* that a device command changes is the one the buffer address translates  *)
(* to, writably, and gets the addressed block; a block that a command      *)
(* changes is the addressed one and gets the content of the frame, unless  *)
(* the host has nothing mapped at the buffer, where CONFIG_FD may be.      *)
(***************************************************************************)
Transferred ==
    LET t   == Translation(hart.satp, Page(hart.urvb_buf))
        off == URVIRT_BLOCK_SIZE * hart.urvb_block_id
    IN  /\ ram' # ram => "W" \in t.prot /\ ram' = [ram EXCEPT ![t.ppn] = disk[off]]
        /\ disk' # disk =>
              /\ \A x \in DOMAIN disk \ {off} : disk'[x] = disk[x]
              /\ DOMAIN disk' = DOMAIN disk \cup {off}
              /\ \/ "R" \in t.prot /\ disk'[off] = ram[t.ppn]
                 \/ Page(hart.urvb_buf) \in FreePage

\* What a SIGSEGV changes in RAM or on the disk, with the buffer's entry fenced
\* and a block id whose offset is one of a file, is such a transfer.
DmaThroughTables ==
    [][\/ UNCHANGED <<ram, disk>>
       \/ ~ Sigsegv
       \/ <<hart.satp.ppn, Page(hart.urvb_buf)>> \in dirty
       \/ URVIRT_BLOCK_SIZE * hart.urvb_block_id \notin Offset
       \/ Transferred]_vars

(***************************************************************************)
(* The memory map is a TLB: the specification SoftTlb is implemented.      *)
(***************************************************************************)
Cached(p) == IF vm[p].kind = "guest" THEN vm[p] ELSE Unmapped

Tlb == INSTANCE SoftTlb
         WITH Pages <- HostPage, Space <- Satp, Mode <- {PRIV_U, PRIV_S},
              Entry <- GuestMapping,
              Empty <- Unmapped,
              table <- [s \in Satp |-> [p \in HostPage |-> Translation(s, p)]],
              space <- hart.satp, mode <- hart.priv_mode,
              tlb <- [p \in HostPage |-> Cached(p)]

TlbImplemented == Tlb!Spec
=============================================================================
