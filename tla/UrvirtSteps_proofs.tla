-------------------------- MODULE UrvirtSteps_proofs --------------------------
(***************************************************************************)
(* Proofs of the action properties of UrvirtStub, for every instance: what *)
(* one signal, with its whole handling, does to the guest.  They rest on   *)
(* the invariant of UrvirtStub_proofs.                                     *)
(***************************************************************************)
EXTENDS UrvirtStub_proofs

-----------------------------------------------------------------------------
(* The return from the handler *)

\* What enter_trap leaves in each register.
LEMMA TrapFields ==
    ASSUME NEW h \in Hart, NEW scause, NEW stval
    PROVE  LET e == enter_trap(h, scause, stval)
           IN  /\ e.pc = trap_target(h, scause)
               /\ e.sepc = h.pc /\ e.scause = scause /\ e.stval = stval
               /\ e.priv_mode = PRIV_S /\ e.stvec = h.stvec
               /\ "SIE" \notin e.sstatus
               /\ "SPP" \in e.sstatus <=> h.priv_mode = PRIV_S
               /\ "SPIE" \in e.sstatus <=> "SIE" \in h.sstatus
  BY DEF enter_trap, Hart, SetBit

\* Clearing the flag at the end changes no register.
LEMMA ClearFlag ==
    ASSUME NEW h \in Hart
    PROVE  LET c == [h EXCEPT !.should_clear_vm = FALSE]
           IN  /\ c.pc = h.pc /\ c.sepc = h.sepc /\ c.scause = h.scause
               /\ c.stval = h.stval /\ c.priv_mode = h.priv_mode /\ c.stvec = h.stvec
               /\ c.sstatus = h.sstatus
  BY DEF Hart

\* The shift of the interrupt bit out of the word: what the hart jumps to is the
\* architecture's vector.
LEMMA TargetIsVector ==
    ASSUME NEW h \in Hart, NEW scause \in Word
    PROVE  trap_target(h, scause) = Vector(h.stvec, scause)
<1> DEFINE v    == h.stvec
           base == 4 * (v \div 4)
<1>1. v \in Word /\ v % 4 \in {0, 1}
  BY DEF Hart, Stvec
<1>2. v - (v % 4) = base /\ base \in Word
  BY <1>1, WordAssumption DEF Word
<1> HIDE DEF v, base
<1>3. CASE v % 4 = 0 \/ scause < SCAUSE_IS_INT
  <2>1. trap_target(h, scause) = base
    BY <1>2, <1>3 DEF trap_target, v
  <2>2. ~ (v % 4 = 1 /\ scause >= SCAUSE_IS_INT)
    BY <1>3, WordAssumption DEF Word, SCAUSE_IS_INT
  <2> QED
    BY <2>1, <2>2 DEF Vector, base, v
<1>4. CASE v % 4 # 0 /\ ~ (scause < SCAUSE_IS_INT)
  <2>1. SCAUSE_IS_INT \in Nat /\ WordSize = 2 * SCAUSE_IS_INT
    BY WordAssumption DEF SCAUSE_IS_INT
  <2>2. scause \in Nat /\ scause >= SCAUSE_IS_INT /\ scause < WordSize
    BY <1>4, <2>1, WordAssumption DEF Word
  <2> DEFINE x == base + 4 * (scause - SCAUSE_IS_INT)
             y == base + scause * 4
  <2>3. x \in Nat /\ y = x + 2 * WordSize /\ x < 3 * WordSize
    BY <1>2, <2>1, <2>2, WordAssumption DEF Word
  <2>4. trap_target(h, scause) = y % WordSize
    BY <1>2, <1>4 DEF trap_target, v
  <2>5. Vector(h.stvec, scause) = x % WordSize
    BY <1>1, <1>4, <2>2 DEF Vector, base, v
  <2> HIDE DEF x, y
  <2>6. y % WordSize = x % WordSize
    <3>1. CASE x < WordSize
      BY <2>3, <3>1, WordAssumption
    <3>2. CASE WordSize <= x /\ x < 2 * WordSize
      BY <2>3, <3>2, WordAssumption
    <3>3. CASE 2 * WordSize <= x
      BY <2>3, <3>3, WordAssumption
    <3> QED
      BY <2>3, <3>1, <3>2, <3>3, WordAssumption
  <2> QED
    BY <2>4, <2>5, <2>6
<1> QED
  BY <1>3, <1>4

\* A handler that has entered a trap returns with exactly that trap: no
\* interrupt is taken on top of it.
LEMMA TrapKept ==
    ASSUME NEW h \in Hart, NEW scause \in Word, NEW stval \in Word, NEW m, NEW fence,
           Return(enter_trap(h, scause, stval), m, fence)
    PROVE  /\ hart'.pc = Vector(h.stvec, scause)
           /\ hart'.sepc = h.pc /\ hart'.scause = scause /\ hart'.stval = stval
           /\ hart'.priv_mode = PRIV_S
           /\ "SIE" \notin hart'.sstatus
           /\ "SPP" \in hart'.sstatus <=> h.priv_mode = PRIV_S
           /\ "SPIE" \in hart'.sstatus <=> "SIE" \in h.sstatus
<1> DEFINE e == enter_trap(h, scause, stval)
<1>1. e \in Hart
  BY EnterTrapType
<1>2. ~ interrupt_due(e)
  BY TrapFields DEF interrupt_due, PRIV_S
<1>3. hart' = [e EXCEPT !.should_clear_vm = FALSE]
  BY <1>2 DEF Return, take_interrupt
<1> HIDE DEF e
<1>4. /\ hart'.pc = e.pc /\ hart'.sepc = e.sepc /\ hart'.scause = e.scause
      /\ hart'.stval = e.stval /\ hart'.priv_mode = e.priv_mode
      /\ hart'.sstatus = e.sstatus
  BY <1>1, <1>3, ClearFlag
<1> QED
  BY <1>4, TrapFields, TargetIsVector DEF e

\* A handler that leaves the interrupt condition alone takes no interrupt.
LEMMA NoInterrupt ==
    ASSUME Inv, status = "running", NEW h \in Hart, NEW m, NEW fence, Return(h, m, fence),
           h.sip = hart.sip, h.sie = hart.sie, h.sstatus = hart.sstatus,
           h.priv_mode = hart.priv_mode
    PROVE  /\ hart'.pc = h.pc /\ hart'.priv_mode = h.priv_mode
           /\ ~ h.should_clear_vm => vm' = m
<1>1. ~ interrupt_due(h)
  BY DEF Inv, InterruptTaken, interrupt_due
<1>2. /\ hart' = [h EXCEPT !.should_clear_vm = FALSE]
      /\ vm' = IF h.should_clear_vm THEN clear_vm(m) ELSE m
  BY <1>1 DEF Return, take_interrupt
<1> QED
  BY <1>2, ClearFlag

\* The pc of a SIGSYS, put back, is the address of the ecall.
LEMMA BackToEcall ==
    ASSUME NEW h \in Hart
    PROVE  advance(advance(h, 4), -4) = h
<1>1. h.pc \in Word
  BY DEF Hart
<1>2. (((h.pc + 4) % WordSize) + (-4)) % WordSize = h.pc
  <2>1. CASE h.pc + 4 < WordSize
    BY <1>1, <2>1, WordAssumption DEF Word
  <2>2. CASE h.pc + 4 >= WordSize
    <3>1. (h.pc + 4) % WordSize = h.pc + 4 - WordSize
      BY <1>1, <2>2, WordAssumption DEF Word
    <3>2. (h.pc - WordSize) % WordSize = h.pc
      BY <1>1, WordAssumption DEF Word
    <3> QED
      BY <1>1, <3>1, <3>2, WordAssumption DEF Word
  <2> QED
    BY <1>1, <2>1, <2>2, WordAssumption DEF Word
<1> QED
  BY <1>1, <1>2 DEF advance, Hart

-----------------------------------------------------------------------------
(***************************************************************************)
(* The ways in which handle_page_fault ends.  Each property of the SIGSEGV *)
(* branch looks at these four, so the branches are gone through once.      *)
(***************************************************************************)
PageFault == {SCAUSE_INSTR_PF, SCAUSE_LOAD_PF, SCAUSE_STORE_PF}

Trapped(scause, va) == Resume(enter_trap(hart, scause, va), TRUE)

GaveUp == /\ status' \in {"SIGSEGV", "collision", "corrupted"}
          /\ UNCHANGED <<hart, vm, pt, ram, disk, timer, alarm, dirty>>

PageAdded(scause, va) == /\ Page(va) \in HostPage
                         /\ Filled(Page(va), lookup_pa(va))
                         /\ Wanted(scause) \in lookup_pa(va).flags

\* A store to the device: the hart differs in the pc and the device's registers.
Stored(i, h) == /\ h.sip = hart.sip /\ h.sie = hart.sie /\ h.sstatus = hart.sstatus
                /\ h.priv_mode = hart.priv_mode
                /\ h.pc = (hart.pc + mmio_advance(i)) % WordSize
                /\ Return(h, vm, FALSE)
                /\ \/ UNCHANGED <<ram, disk>>
                   \/ \E cmd \in {1, 2}, conf \in FreePage : block_command(cmd, conf)
                /\ status' = status

Outcome(scause, va, i) == \/ Trapped(scause, va)
                          \/ GaveUp
                          \/ PageAdded(scause, va)
                          \/ \E h \in Hart : Stored(i, h)

LEMMA EbreakGivesUp ==
    ASSUME NEW sig \in {"SIGSEGV", "collision", "corrupted"}, Ebreak(sig)
    PROVE  GaveUp
  BY DEF Ebreak, GaveUp

LEMMA MmioOutcome ==
    ASSUME TypeOK, NEW i, NEW off \in Int, NEW data \in Word, MmioStore(i, off, data)
    PROVE  GaveUp \/ \E h \in Hart : Stored(i, h)
<1> DEFINE h  == advance(hart, mmio_advance(i))
           h1 == [h EXCEPT !.urvb_block_id = data]
           h2 == [h EXCEPT !.urvb_buf = data]
           Same(x) == /\ x \in Hart
                      /\ x.sip = hart.sip /\ x.sie = hart.sie /\ x.sstatus = hart.sstatus
                      /\ x.priv_mode = hart.priv_mode
                      /\ x.pc = (hart.pc + mmio_advance(i)) % WordSize
<1>1. Same(h)
  <2>1. mmio_advance(i) \in Int
    BY DEF mmio_advance
  <2>2. h \in Hart
    BY <2>1, AdvanceType DEF TypeOK
  <2> QED
    BY <2>2 DEF TypeOK, advance, Hart
<1>2. Same(h1)
  BY <1>1 DEF Hart
<1>3. Same(h2)
  BY <1>1 DEF Hart
<1> HIDE DEF h, h1, h2
<1>4. \/ data \in {1, 2} /\ BlockCommand(h, data)
      \/ Resume(h1, FALSE)
      \/ Resume(h2, FALSE)
      \/ Ebreak("SIGSEGV")
  BY DEF MmioStore, h, h1, h2
<1>5. CASE data \in {1, 2} /\ BlockCommand(h, data)
  <2>1. CASE Ebreak("corrupted")
    BY <2>1, EbreakGivesUp
  <2>2. CASE ~ Ebreak("corrupted")
    <3>1. PICK conf \in FreePage :
             block_command(data, conf) /\ Return(h, vm, FALSE) /\ status' = status
      BY <1>5, <2>2 DEF BlockCommand
    <3>2. Stored(i, h)
      BY <1>1, <1>5, <3>1 DEF Stored
    <3> QED
      BY <1>1, <3>2
  <2> QED
    BY <2>1, <2>2
<1>6. CASE Resume(h1, FALSE)
  <2>1. Stored(i, h1)
    BY <1>2, <1>6 DEF Stored, Resume
  <2> QED
    BY <1>2, <2>1
<1>7. CASE Resume(h2, FALSE)
  <2>1. Stored(i, h2)
    BY <1>3, <1>7 DEF Stored, Resume
  <2> QED
    BY <1>3, <2>1
<1>8. CASE Ebreak("SIGSEGV")
  BY <1>8, EbreakGivesUp
<1> QED
  BY <1>4, <1>5, <1>6, <1>7, <1>8

LEMMA FaultOutcome ==
    ASSUME TypeOK, status = "running", NEW va \in Word, NEW i, NEW scause \in PageFault,
           handle_page_fault(scause, va, i)
    PROVE  Outcome(scause, va, i)
<1> DEFINE pte == lookup_pa(va)
<1> HIDE DEF pte
<1>1. \/ Trapped(scause, va)
      \/ Ebreak("SIGSEGV")
      \/ /\ pte.kind = "leaf" /\ pte.ppn \in RamPage /\ Wanted(scause) \in pte.flags
         /\ \E conf \in FreePage : MapPage(Page(va), pte, conf)
      \/ Mmio(scause, va, pte, i)
  BY DEF handle_page_fault, pte, Trapped
<1>2. CASE Trapped(scause, va)
  BY <1>2 DEF Outcome
<1>3. CASE Ebreak("SIGSEGV")
  BY <1>3, EbreakGivesUp DEF Outcome
<1>4. CASE /\ pte.kind = "leaf" /\ pte.ppn \in RamPage /\ Wanted(scause) \in pte.flags
           /\ \E conf \in FreePage : MapPage(Page(va), pte, conf)
  <2>1. PICK conf \in FreePage : MapPage(Page(va), pte, conf)
    BY <1>4
  <2>2. CASE Page(va) \notin FreePage \ {conf}
    BY <2>1, <2>2, EbreakGivesUp DEF MapPage, Outcome
  <2>3. CASE Page(va) \in FreePage \ {conf}
    <3>1. /\ pte \in Pte
          /\ hart.satp.mode # SATP_MODE_BARE
          /\ Page(va) \in VPage /\ pte = pt[hart.satp.ppn][Page(va)]
      BY <1>4, LookupType DEF pte, BarePte
    <3>2. Filled(Page(va), pte)
      BY <1>4, <2>1, <2>3, <3>1 DEF Filled, MapPage
    <3>3. Page(va) \in HostPage
      BY <2>3 DEF FreePage
    <3> QED
      BY <1>4, <3>2, <3>3 DEF Outcome, PageAdded, pte
  <2> QED
    BY <2>2, <2>3
<1>5. CASE Mmio(scause, va, pte, i)
  <2>1. CASE Ebreak("SIGSEGV")
    BY <2>1, EbreakGivesUp DEF Outcome
  <2>2. CASE \E rs2 \in decode_sd(i) \ {-1}, d \in StoreData :
               MmioStore(i, va % PageSize, get_store_data(rs2, d))
    <3>1. PICK rs2 \in decode_sd(i) \ {-1}, d \in StoreData :
               MmioStore(i, va % PageSize, get_store_data(rs2, d))
      BY <2>2
    <3>2. get_store_data(rs2, d) \in Word
      BY GuestAssumption DEF get_store_data, TypeOK, Hart
    <3>3. va % PageSize \in Int
      BY LayoutAssumption DEF Word
    <3> QED
      BY <3>1, <3>2, <3>3, MmioOutcome DEF Outcome
  <2> QED
    BY <1>5, <2>1, <2>2 DEF Mmio
<1> QED
  BY <1>1, <1>2, <1>3, <1>4, <1>5

\* The cause the handler gives the SIGSEGV of an access to address a.
CauseAt(i, a) == IF a = hart.pc THEN SCAUSE_INSTR_PF ELSE segv_scause(i)

LEMMA SegvOutcome ==
    ASSUME TypeOK, status = "running", NEW i, NEW a \in Word, SegvAt(i, a)
    PROVE  CauseAt(i, a) \in PageFault /\ Outcome(CauseAt(i, a), a, i)
<1>1. CauseAt(i, a) \in PageFault
  BY DEF CauseAt, segv_scause, PageFault
<1>2. handle_page_fault(CauseAt(i, a), a, i) \/ Ebreak("SIGSEGV")
  BY DEF SegvAt, CauseAt
<1> QED
  BY <1>1, <1>2, FaultOutcome, EbreakGivesUp DEF Outcome

\* Every SIGSEGV of the guest ends in one of these ways.
LEMMA SigsegvOutcome ==
    ASSUME TypeOK, Sigsegv
    PROVE  /\ status = "running"
           /\ \E scause \in PageFault, va \in Word : \E i : Outcome(scause, va, i)
<1>1. CASE SegvFetch
  <2>1. SCAUSE_INSTR_PF \in PageFault /\ hart.pc \in Word
    BY DEF PageFault, TypeOK, Hart
  <2> QED
    BY <1>1, <2>1, FaultOutcome DEF SegvFetch
<1>2. ASSUME NEW i \in DataInsn, SegvSecondHalf(i)
      PROVE  /\ status = "running"
             /\ \E scause \in PageFault, va \in Word : \E j : Outcome(scause, va, j)
  <2>1. LastHalf(4) \in Word
    BY WordAssumption DEF LastHalf, TypeOK, Hart, Word
  <2> QED
    BY <1>2, <2>1, SegvOutcome DEF SegvSecondHalf
<1>3. ASSUME NEW i \in DataInsn, NEW va \in DataAddr, SegvData(i, va)
      PROVE  /\ status = "running"
             /\ \E scause \in PageFault, a \in Word : \E j : Outcome(scause, a, j)
  <2>1. va \in Word
    BY GuestAssumption
  <2> QED
    BY <1>3, <2>1, SegvOutcome DEF SegvData
<1> QED
  BY <1>1, <1>2, <1>3 DEF Sigsegv

-----------------------------------------------------------------------------
(* Precise traps *)

\* The trap of an exception in U-mode, from whatever signal.
LEMMA PreciseException ==
    ASSUME TypeOK, NEW scause \in Word, NEW stval \in Word, NEW fence,
           Resume(enter_trap(hart, scause, stval), fence)
    PROVE  PreciseTrap
<1>1. hart \in Hart
  BY DEF TypeOK
<1>2. Return(enter_trap(hart, scause, stval), vm, fence)
  BY DEF Resume
<1> QED
  BY <1>1, <1>2, TrapKept DEF PreciseTrap, PRIV_U, PRIV_S

\* A step that leaves the mode alone is no trap from U-mode.
LEMMA SameMode ==
    ASSUME hart'.priv_mode = hart.priv_mode
    PROVE  PreciseTrap
  BY DEF PreciseTrap, PRIV_U, PRIV_S

\* A timer signal: the interrupt is taken at the instruction it found.
LEMMA PreciseInterrupt ==
    ASSUME TypeOK, Sigalrm
    PROVE  PreciseTrap
<1> DEFINE h == [hart EXCEPT !.sip = SetBit(@, "STI", TRUE)]
<1>1. /\ h \in Hart
      /\ h.pc = hart.pc /\ h.sstatus = hart.sstatus /\ h.stvec = hart.stvec
      /\ h.priv_mode = hart.priv_mode
  BY DEF TypeOK, Hart, SetBit, Six
<1>2. Return(h, vm, FALSE)
  BY DEF Sigalrm
<1> HIDE DEF h
<1>3. CASE ~ interrupt_due(h)
  <2>1. hart' = [h EXCEPT !.should_clear_vm = FALSE]
    BY <1>2, <1>3 DEF Return, take_interrupt
  <2> QED
    BY <1>1, <2>1, ClearFlag, SameMode
<1>4. CASE interrupt_due(h)
  <2> DEFINE e == enter_trap(h, SCAUSE_TIMER, 0)
  <2>1. e \in Hart
    BY <1>1, ScauseType, EnterTrapType
  <2>2. hart' = [e EXCEPT !.should_clear_vm = FALSE]
    BY <1>2, <1>4 DEF Return, take_interrupt
  <2> HIDE DEF e
  <2>3. /\ hart'.pc = e.pc /\ hart'.sepc = e.sepc /\ hart'.scause = e.scause
        /\ hart'.sstatus = e.sstatus
    BY <2>1, <2>2, ClearFlag
  <2>4. trap_target(h, SCAUSE_TIMER) = Vector(hart.stvec, SCAUSE_TIMER)
    BY <1>1, ScauseType, TargetIsVector
  <2> QED
    BY <1>1, <2>3, <2>4, TrapFields DEF e, PreciseTrap, PRIV_U, PRIV_S
<1> QED
  BY <1>3, <1>4

\* A page fault in U-mode, however it ends.
LEMMA PreciseFault ==
    ASSUME Inv, status = "running", NEW scause \in PageFault, NEW va \in Word, NEW i,
           Outcome(scause, va, i)
    PROVE  PreciseTrap
<1>1. hart \in Hart /\ scause \in Word
  BY ScauseType DEF Inv, TypeOK, PageFault
<1>2. CASE Trapped(scause, va)
  BY <1>1, <1>2, PreciseException DEF Trapped, Inv
<1>3. CASE GaveUp
  BY <1>3, SameMode DEF GaveUp
<1>4. CASE PageAdded(scause, va)
  BY <1>1, <1>4, NoInterrupt, SameMode DEF PageAdded, Filled
<1>5. ASSUME NEW h \in Hart, Stored(i, h)
      PROVE  PreciseTrap
  BY <1>5, NoInterrupt, SameMode DEF Stored
<1> QED
  BY <1>2, <1>3, <1>4, <1>5 DEF Outcome

LEMMA PreciseStep ==
    ASSUME Inv, Next
    PROVE  PreciseTrap
<1> SUFFICES ASSUME hart.priv_mode = PRIV_U
             PROVE  PreciseTrap
  BY DEF PreciseTrap
<1>1. TypeOK /\ hart \in Hart /\ 0 \in Word
        /\ SCAUSE_UECALL \in Word /\ SCAUSE_ILLEGAL \in Word
  BY ScauseType DEF Inv, TypeOK
<1>2. CASE EcallFromUser
  <2>1. advance(AfterEcall, -4) = hart
    BY <1>1, BackToEcall DEF AfterEcall
  <2> QED
    BY <1>1, <1>2, <2>1, PreciseException DEF EcallFromUser
<1>3. CASE IllegalInUser
  BY <1>1, <1>3, PreciseException DEF IllegalInUser
<1>4. CASE Sigalrm
  BY <1>1, <1>4, PreciseInterrupt
<1>5. CASE Sigsegv
  BY <1>1, <1>5, SigsegvOutcome, PreciseFault
<1>6. CASE TimerExpires \/ Stopped
  BY <1>6, SameMode DEF TimerExpires, Stopped, vars
<1>7. CASE Guest
  <2>1. hart'.priv_mode = hart.priv_mode
    BY <1>1, <1>7 DEF Guest, GuestJump, GuestWritePte, GuestStore, Hart
  <2> QED
    BY <2>1, SameMode
<1>8. CASE Sigsys /\ ~ EcallFromUser
  BY <1>8 DEF Sigsys, SbiPlain, SbiGetcharFails, SbiShutdown, SbiSetTimer, Ecall, PRIV_U, PRIV_S
<1>9. CASE Sigill /\ ~ IllegalInUser
  BY <1>9 DEF Sigill, CannotEmulate, UnreadableInsn, SfenceVma, Wfi, Sret, CsrInstr,
     UnimplementedCsr, Privileged, Illegal, PRIV_U, PRIV_S
<1> QED
  BY <1>2, <1>3, <1>4, <1>5, <1>6, <1>7, <1>8, <1>9 DEF Next

(***************************************************************************)
(* Every trap from U-mode is precise, for every guest: SIGSYS, which       *)
(* reports the next pc, SIGILL and SIGSEGV, which report this one, and an  *)
(* interrupt all leave sepc at the instruction, and no interrupt is taken  *)
(* on top of an exception.                                                 *)
(***************************************************************************)
THEOREM UserTrapPreciseAlways == Spec => UserTrapPrecise
<1>1. Inv /\ [Next]_vars => [PreciseTrap]_vars
  BY PreciseStep
<1> QED
  BY <1>1, InvHolds, PTL DEF Spec, UserTrapPrecise

-----------------------------------------------------------------------------
(* Emulated instructions *)

\* The handler returns to a hart that is past the instruction.
LEMMA PassedReturn ==
    ASSUME NEW h \in Hart, h.pc = (hart.pc + 4) % WordSize, NEW m, NEW fence,
           Return(h, m, fence)
    PROVE  PassesInsn
<1>1. CASE ~ interrupt_due(h)
  <2>1. hart' = [h EXCEPT !.should_clear_vm = FALSE]
    BY <1>1 DEF Return, take_interrupt
  <2> QED
    BY <2>1, ClearFlag DEF PassesInsn
<1>2. CASE interrupt_due(h)
  <2> DEFINE e == enter_trap(h, SCAUSE_TIMER, 0)
  <2>1. e \in Hart
    BY ScauseType, EnterTrapType
  <2>2. hart' = [e EXCEPT !.should_clear_vm = FALSE]
    BY <1>2 DEF Return, take_interrupt
  <2> HIDE DEF e
  <2>3. /\ hart'.pc = e.pc /\ hart'.sepc = e.sepc /\ hart'.scause = e.scause
        /\ hart'.stvec = e.stvec
    BY <2>1, <2>2, ClearFlag
  <2>4. /\ e.pc = trap_target(h, SCAUSE_TIMER) /\ e.sepc = h.pc
        /\ e.scause = SCAUSE_TIMER /\ e.stvec = h.stvec
    BY TrapFields DEF e
  <2>5. trap_target(h, SCAUSE_TIMER) = Vector(h.stvec, SCAUSE_TIMER)
    BY ScauseType, TargetIsVector
  <2> QED
    BY <2>3, <2>4, <2>5 DEF PassesInsn
<1> QED
  BY <1>1, <1>2

\* A CSR instruction leaves the pc after itself, whatever it writes.
LEMMA CsrPasses ==
    ASSUME TypeOK, NEW csr \in DOMAIN CsrValue, NEW op \in {"RW", "RS", "RC"},
           NEW will_write \in BOOLEAN, NEW v \in CsrValue[csr],
           CsrInstr(csr, op, will_write, v)
    PROVE  PassesInsn
<1> DEFINE h == csr_instr(hart, csr, op, will_write, v)
           w == write_csr(hart, csr, csr_operand(op, read_csr(hart, csr), v, csr))
<1>1. csr \in ImplementedCsr /\ v \in CsrOperand(csr) /\ hart \in Hart
  BY GuestAssumption DEF CsrInstr, TypeOK
<1>2. h \in Hart
  BY <1>1, CsrInstrType
<1>3. w \in Hart
  BY <1>1, CsrOperandType, WriteCsrType
<1>4. w.pc = hart.pc
  BY <1>1 DEF write_csr, ImplementedCsr, Hart
<1>5. h = IF op = "RW" \/ will_write THEN advance(w, 4) ELSE advance(hart, 4)
  BY DEF csr_instr
<1>6. \E fence : Return(h, vm, fence)
  BY DEF CsrInstr, Resume
<1> HIDE DEF h, w
<1>7. h.pc = (hart.pc + 4) % WordSize
  BY <1>1, <1>3, <1>4, <1>5 DEF advance, Hart
<1> QED
  BY <1>2, <1>6, <1>7, PassedReturn

LEMMA OnceStep ==
    ASSUME Inv, Emulated
    PROVE  PassesInsn
<1>1. TypeOK /\ hart \in Hart
  BY DEF Inv, TypeOK
<1>2. advance(hart, 4) \in Hart /\ advance(hart, 4).pc = (hart.pc + 4) % WordSize
  <2>1. advance(hart, 4) \in Hart
    BY <1>1, AdvanceType
  <2> QED
    BY <1>1, <2>1 DEF advance, Hart
<1>3. CASE Wfi
  BY <1>2, <1>3, PassedReturn DEF Wfi, Resume
<1>4. CASE SfenceVma
  <2>1. sfence_vma(hart) \in Hart /\ sfence_vma(hart).pc = (hart.pc + 4) % WordSize
    BY <1>1, SfenceType DEF sfence_vma, advance, Hart
  <2> QED
    BY <1>4, <2>1, PassedReturn DEF SfenceVma, Resume
<1>5. CASE SbiPlain
  BY <1>2, <1>5, PassedReturn DEF SbiPlain, Resume, AfterEcall
<1>6. ASSUME NEW when \in Deadline, SbiSetTimer(when)
      PROVE  PassesInsn
  <2> DEFINE h == [AfterEcall EXCEPT !.sip = SetBit(@, "STI", when # "future")]
  <2>1. h \in Hart /\ h.pc = (hart.pc + 4) % WordSize
    BY <1>2 DEF AfterEcall, Hart, SetBit, Six
  <2>2. Return(h, vm, FALSE)
    BY <1>6 DEF SbiSetTimer
  <2> HIDE DEF h
  <2> QED
    BY <2>1, <2>2, PassedReturn
<1>7. ASSUME NEW csr \in DOMAIN CsrValue, NEW op \in {"RW", "RS", "RC"},
             NEW w \in BOOLEAN, NEW v \in CsrValue[csr], CsrInstr(csr, op, w, v)
      PROVE  PassesInsn
  BY <1>1, <1>7, CsrPasses
<1> QED
  BY <1>3, <1>4, <1>5, <1>6, <1>7 DEF Emulated

(***************************************************************************)
(* Every emulated instruction is executed once: the handler returns after  *)
(* it, or takes the timer interrupt with sepc after it, also when it wrote *)
(* stvec, enabled the interrupt or is the last of the word.                *)
(***************************************************************************)
THEOREM EmulatedOnceAlways == Spec => EmulatedOnce
<1>1. Inv /\ [Next]_vars => [PassesInsn \/ ~ Emulated]_vars
  BY OnceStep
<1> QED
  BY <1>1, InvHolds, PTL DEF Spec, EmulatedOnce

-----------------------------------------------------------------------------
(* Answers to page faults *)

(***************************************************************************)
(* The accesses whose cause the handler can tell: fld, fsd and their like  *)
(* are taken for instruction page faults and lr for a store (the chain of  *)
(* opcodes in the SIGSEGV branch).                                         *)
(***************************************************************************)
IntegerAccess == \A i \in DataInsn : i.low = 3 => i.opcode \notin {"LOAD_FP", "STORE_FP", "LR"}

\* The cause is that of the access, and the right it asks for is the one needed.
LEMMA RightCause ==
    ASSUME IntegerAccess, NEW i \in DataInsn, IsLoad(i) \/ IsStore(i)
    PROVE  /\ segv_scause(i) = IF IsStore(i) THEN SCAUSE_STORE_PF ELSE SCAUSE_LOAD_PF
           /\ Wanted(segv_scause(i)) = Needs(i)
           /\ mmio_advance(i) = InsnLength(i)
<1>1. i \in Insn
  BY GuestAssumption
<1>2. segv_scause(i) = IF IsStore(i) THEN SCAUSE_STORE_PF ELSE SCAUSE_LOAD_PF
  BY <1>1 DEF IntegerAccess, IsLoad, IsStore, Insn, segv_scause, rvc_looks_like_load,
     rvc_looks_like_store
<1>3. Wanted(segv_scause(i)) = Needs(i)
  BY <1>2 DEF Wanted, Needs, SCAUSE_STORE_PF, SCAUSE_LOAD_PF, SCAUSE_INSTR_PF
<1>4. i.low \in {0, 2, 3}
  BY <1>1 DEF IsLoad, IsStore, Insn
<1>5. mmio_advance(i) = InsnLength(i)
  <2>1. CASE i.low = 3
    BY <2>1 DEF mmio_advance, InsnLength, lowest_bit_set
  <2>2. CASE i.low = 0 \/ i.low = 2
    BY <2>2 DEF mmio_advance, InsnLength, lowest_bit_set
  <2> QED
    BY <1>4, <2>1, <2>2
<1> QED
  BY <1>2, <1>3, <1>5

\* The page is mapped with the right the cause asks for.
LEMMA AddedGrants ==
    ASSUME Inv, status = "running", NEW scause, NEW va \in Word, PageAdded(scause, va),
           Wanted(scause) \in Prot
    PROVE  status' = "running" /\ Has(va, Wanted(scause))'
<1> DEFINE p   == Page(va)
           pte == lookup_pa(va)
           m   == [vm EXCEPT ![p] = RamMap(pte.ppn, pte.flags \cap Prot)]
<1>1. hart \in Hart /\ vm \in [HostPage -> Mapping] /\ ~ hart.should_clear_vm
  BY DEF Inv, TypeOK, Settled
<1>2. p \in HostPage /\ Return(hart, m, FALSE) /\ status' = status
        /\ Wanted(scause) \in pte.flags
  BY DEF PageAdded, Filled
<1> HIDE DEF p, pte
<1>3. vm' = m
  BY <1>1, <1>2, NoInterrupt
<1>4. vm'[p] = RamMap(pte.ppn, pte.flags \cap Prot)
  BY <1>1, <1>2, <1>3
<1>5. vm'[p].kind = "guest" /\ Wanted(scause) \in vm'[p].prot
  BY <1>2, <1>4 DEF RamMap
<1> QED
  BY <1>2, <1>5 DEF Has, p

LEMMA AnsweredStep ==
    ASSUME Inv, IntegerAccess, NEW i \in DataInsn, NEW va \in DataAddr,
           SegvData(i, va), va # hart.pc
    PROVE  Answered(i, va)
<1>1. /\ status = "running" /\ SegvAt(i, va) /\ va # hart.pc
      /\ IsLoad(i) \/ IsStore(i)
  BY DEF SegvData
<1>2. va \in Word /\ hart \in Hart /\ TypeOK
  BY GuestAssumption DEF Inv, TypeOK
<1> DEFINE scause == segv_scause(i)
<1>3. scause \in PageFault /\ Outcome(scause, va, i)
  BY <1>1, <1>2, SegvOutcome DEF CauseAt
<1>4. /\ scause = IF IsStore(i) THEN SCAUSE_STORE_PF ELSE SCAUSE_LOAD_PF
      /\ Wanted(scause) = Needs(i)
      /\ mmio_advance(i) = InsnLength(i)
  BY <1>1, RightCause
<1> HIDE DEF scause
<1>5. CASE Trapped(scause, va)
  <2>1. scause \in Word /\ Return(enter_trap(hart, scause, va), vm, TRUE)
    BY <1>3, <1>5, ScauseType DEF PageFault, Trapped, Resume
  <2>2. hart'.sepc = hart.pc /\ hart'.stval = va /\ hart'.scause = scause
    BY <1>2, <2>1, TrapKept
  <2> QED
    BY <1>4, <2>2 DEF Answered
<1>6. CASE GaveUp
  BY <1>6 DEF GaveUp, Answered
<1>7. CASE PageAdded(scause, va)
  <2>1. Wanted(scause) \in Prot
    BY DEF Wanted, Prot
  <2>2. Has(va, Wanted(scause))'
    BY <1>1, <1>2, <1>7, <2>1, AddedGrants
  <2> QED
    BY <1>4, <2>2 DEF Answered, Has
<1>8. ASSUME NEW h \in Hart, Stored(i, h)
      PROVE  Answered(i, va)
  <2>1. hart'.pc = (hart.pc + mmio_advance(i)) % WordSize
    BY <1>1, <1>8, NoInterrupt DEF Stored
  <2> QED
    BY <1>4, <2>1 DEF Answered
<1> QED
  BY <1>3, <1>5, <1>6, <1>7, <1>8 DEF Outcome

(***************************************************************************)
(* Every data access that raises SIGSEGV is answered: there is no layout,  *)
(* table or sequence of faults after which an integer access that is not   *)
(* to its own instruction just faults again, or is reported as another.    *)
(***************************************************************************)
THEOREM FaultAnsweredAlways ==
    ASSUME IntegerAccess
    PROVE  Spec => FaultAnswered
<1>1. Inv /\ [Next]_vars =>
        [\A i \in DataInsn, va \in DataAddr :
           Answered(i, va) \/ ~ SegvData(i, va) \/ va = hart.pc]_vars
  BY AnsweredStep
<1> QED
  BY <1>1, InvHolds, PTL DEF Spec, FaultAnswered

-----------------------------------------------------------------------------
(* Accesses the tables allow *)

(***************************************************************************)
(* Two more invariants.  In bare mode RAM is mapped completely, or not at  *)
(* all and the guest cannot fetch: no handler maps a page in bare mode, so *)
(* there is no access that a mapping is missing for.  And only the stub's  *)
(* pages are the stub's, so nothing of it is in the way of a fill.         *)
(***************************************************************************)
BareAllOrNone ==
    status = "running" /\ hart.satp.mode = SATP_MODE_BARE =>
        \/ \A p \in RamPage : vm[p] = RamMap(p, Prot)
        \/ \A p \in HostPage : vm[p].kind # "guest"

StubOnly == \A p \in HostPage : vm[p].kind = "stub" => p \in StubPage

MapInv == BareAllOrNone /\ StubOnly

LEMMA MapInit == Init => MapInv
<1> SUFFICES ASSUME Init PROVE MapInv
  OBVIOUS
<1>1. RamPage \subseteq HostPage /\ StubPage \cap RamPage = {}
  BY LayoutAssumption DEF RamPage, HostPage, StubPage
<1>2. BareAllOrNone
  BY <1>1 DEF Init, BareAllOrNone
<1>3. StubOnly
  BY DEF Init, StubOnly, RamMap, Unmapped
<1> QED
  BY <1>2, <1>3 DEF MapInv

\* Everything but the stub is unmapped.
LEMMA MapCleared ==
    ASSUME Inv, NEW m \in [HostPage -> Mapping], \A p \in StubPage : m[p] = vm[p],
           \A p \in HostPage : m[p].kind = "stub" => p \in StubPage,
           vm' = clear_vm(m)
    PROVE  MapInv'
<1>1. \A p \in HostPage : vm'[p].kind # "guest"
  BY ClearedGuest DEF Inv
<1>2. \A p \in HostPage : vm'[p].kind = "stub" => p \in StubPage
  BY DEF clear_vm, Unmapped
<1> QED
  BY <1>1, <1>2 DEF MapInv, BareAllOrNone, StubOnly

LEMMA MapStep == Inv /\ MapInv /\ [Next]_vars => MapInv'
<1> SUFFICES ASSUME Inv, MapInv, [Next]_vars PROVE MapInv'
  OBVIOUS
<1> USE DEF MapInv
<1>1. TypeOK /\ hart \in Hart /\ vm \in [HostPage -> Mapping]
  BY DEF Inv, TypeOK
<1>2. CASE UNCHANGED vars
  BY <1>2 DEF vars, BareAllOrNone, StubOnly
<1>3. ASSUME NEW h \in Hart, NEW fence \in BOOLEAN, Returned(h, fence)
      PROVE  MapInv'
  <2>1. \/ vm' = clear_vm(vm)
        \/ vm' = vm /\ hart'.satp = hart.satp
    BY <1>1, <1>3, ReturnFacts DEF Returned
  <2>2. CASE vm' = clear_vm(vm)
    BY <1>1, <2>2, MapCleared DEF StubOnly
  <2>3. CASE vm' = vm /\ hart'.satp = hart.satp
    BY <1>3, <2>3 DEF Returned, BareAllOrNone, StubOnly
  <2> QED
    BY <2>1, <2>2, <2>3
<1>4. ASSUME NEW q \in HostPage, NEW pte \in Pte, Filled(q, pte)
      PROVE  MapInv'
  <2> DEFINE m == [vm EXCEPT ![q] = RamMap(pte.ppn, pte.flags \cap Prot)]
  <2>1. m \in [HostPage -> Mapping]
    BY <1>1, <1>4, FillType DEF Filled
  <2>2. \A p \in HostPage : m[p].kind = "stub" => p \in StubPage
    BY <1>1 DEF StubOnly, RamMap
  <2>3. \A p \in StubPage : m[p] = vm[p]
    BY <1>1, <1>4, LayoutAssumption DEF Filled, FreePage, Inv, StubIntact, StubMap, StubPage,
       HostPage
  <2>4. hart'.satp = hart.satp /\ vm' \in {clear_vm(m), m}
    BY <1>1, <1>4, <2>1, ReturnFacts DEF Filled
  <2> HIDE DEF m
  <2>5. CASE vm' = clear_vm(m)
    BY <2>1, <2>2, <2>3, <2>5, MapCleared
  <2>6. CASE vm' = m
    BY <1>4, <2>2, <2>4, <2>6 DEF Filled, BareAllOrNone, StubOnly
  <2> QED
    BY <2>4, <2>5, <2>6
<1>5. CASE Ended
  BY <1>5 DEF Ended, BareAllOrNone, StubOnly
<1>6. CASE TableWritten
  BY <1>6 DEF TableWritten, GuestWritePte, BareAllOrNone, StubOnly
<1>7. CASE Undisturbed
  <2>1. hart'.satp = hart.satp
    BY <1>1, <1>7 DEF Undisturbed, Hart
  <2> QED
    BY <1>7, <2>1 DEF Undisturbed, BareAllOrNone, StubOnly
<1> QED
  BY <1>1, <1>2, <1>3, <1>4, <1>5, <1>6, <1>7, NextShape DEF Shape

LEMMA MapInvHolds == Spec => []MapInv
  BY MapInit, MapStep, InvHolds, PTL DEF Spec

\* A page that is mapped for the guest, with its entry fenced, grants what the
\* entry allows; so an allowed access faults on an unmapped page only.
LEMMA AllowedIsFree ==
    ASSUME Inv, MapInv, NEW i \in DataInsn, NEW va \in DataAddr, SegvData(i, va),
           Allowed(i, va), Page(va) \in HostPage
    PROVE  Page(va) \in FreePage
<1>1. status = "running" /\ Faults(va, Needs(i))
  BY DEF SegvData
<1>2. vm[Page(va)] \in Mapping
  BY DEF Inv, TypeOK
<1>3. vm[Page(va)].kind # "guest"
  BY <1>1 DEF Allowed, Faults, Has, Inv, NoStaleMapping
<1>4. vm[Page(va)].kind # "stub"
  BY <1>1 DEF Faults, MapInv, StubOnly
<1> QED
  BY <1>2, <1>3, <1>4 DEF FreePage, Mapping, GuestMapping, Unmapped, StubMap

\* There is no such access in bare mode.
LEMMA AllowedInSv39 ==
    ASSUME Inv, MapInv, NEW i \in DataInsn, NEW va \in DataAddr, SegvData(i, va),
           Allowed(i, va), Page(va) \in HostPage
    PROVE  /\ hart.satp.mode # SATP_MODE_BARE
           /\ lookup_pa(va).kind = "leaf" /\ lookup_pa(va).ppn \in RamPage
           /\ Needs(i) \in lookup_pa(va).flags
<1>1. /\ status = "running" /\ vm[Page(va)].kind = "none"
      /\ Page(hart.pc) \in HostPage /\ vm[Page(hart.pc)].kind = "guest"
  BY AllowedIsFree DEF SegvData, FreePage, Allowed, Has
<1>2. Translation(hart.satp, Page(va)) # Unmapped
  BY DEF Allowed, Unmapped
<1>3. hart.satp.mode # SATP_MODE_BARE
  <2> SUFFICES ASSUME hart.satp.mode = SATP_MODE_BARE PROVE FALSE
    OBVIOUS
  <2>1. Page(va) \in RamPage
    BY <1>2 DEF Translation
  <2>2. vm[Page(va)] = RamMap(Page(va), Prot)
    BY <1>1, <2>1 DEF MapInv, BareAllOrNone
  <2> QED
    BY <1>1, <2>2 DEF RamMap
<1>4. /\ Page(va) \in VPage
      /\ pt[hart.satp.ppn][Page(va)].kind = "leaf"
      /\ pt[hart.satp.ppn][Page(va)].ppn \in RamPage
  BY <1>2, <1>3 DEF Translation
<1>5. Needs(i) \in pt[hart.satp.ppn][Page(va)].flags
  BY <1>3, <1>4 DEF Translation, Allowed, RamMap
<1> QED
  BY <1>3, <1>4, <1>5 DEF lookup_pa

LEMMA GrantedStep ==
    ASSUME Inv, MapInv, IntegerAccess, NEW i \in DataInsn, NEW va \in DataAddr,
           SegvData(i, va), Allowed(i, va)
    PROVE  Granted(i, va)
<1> SUFFICES ASSUME Page(va) \in HostPage
             PROVE  Granted(i, va)
  BY DEF Granted
<1> DEFINE pte    == lookup_pa(va)
           scause == segv_scause(i)
<1>1. /\ status = "running" /\ SegvAt(i, va) /\ Has(hart.pc, "R")
      /\ IsLoad(i) \/ IsStore(i)
  BY DEF SegvData, Allowed
<1>2. va \in Word /\ hart \in Hart /\ TypeOK
  BY GuestAssumption DEF Inv, TypeOK
<1>3. Page(va) \in FreePage
  BY AllowedIsFree
<1>4. va # hart.pc
  BY <1>1, <1>3 DEF Has, FreePage
<1>5. handle_page_fault(scause, va, i)
  BY <1>1, <1>4 DEF SegvAt
<1>6. pte.kind = "leaf" /\ pte.ppn \in RamPage /\ Needs(i) \in pte.flags
  BY AllowedInSv39
<1>7. Wanted(scause) = Needs(i)
  BY <1>1, RightCause
<1> HIDE DEF pte, scause
<1>8. \E conf \in FreePage : MapPage(Page(va), pte, conf)
  BY <1>5, <1>6, <1>7 DEF handle_page_fault, pte
<1>9. PICK conf \in FreePage : MapPage(Page(va), pte, conf)
  BY <1>8
<1>10. CASE Page(va) = conf
  BY <1>3, <1>9, <1>10 DEF MapPage, Ebreak, Granted
<1>11. CASE Page(va) # conf
  <2>1. /\ pte \in Pte
        /\ hart.satp.mode # SATP_MODE_BARE
        /\ Page(va) \in VPage /\ pte = pt[hart.satp.ppn][Page(va)]
    BY <1>2, <1>6, LookupType DEF pte, BarePte
  <2>2. Filled(Page(va), pte)
    BY <1>1, <1>3, <1>6, <1>9, <1>11, <2>1 DEF Filled, MapPage
  <2>3. PageAdded(scause, va)
    BY <1>6, <1>7, <2>2 DEF PageAdded, pte
  <2>4. Wanted(scause) \in Prot
    BY DEF Wanted, Prot
  <2>5. status' = "running" /\ Has(va, Wanted(scause))'
    BY <1>1, <1>2, <2>3, <2>4, AddedGrants
  <2> QED
    BY <1>7, <2>5 DEF Granted, Has
<1> QED
  BY <1>10, <1>11

(***************************************************************************)
(* An access that the guest's fenced tables allow goes through, in every   *)
(* layout and after every history: no earlier mapping of the stub's making *)
(* is ever in its way.                                                     *)
(***************************************************************************)
THEOREM AllowedAccessAlways ==
    ASSUME IntegerAccess
    PROVE  Spec => AllowedAccess
<1>1. Inv /\ MapInv /\ [Next]_vars =>
        [\A i \in DataInsn, va \in DataAddr :
           Allowed(i, va) /\ SegvData(i, va) => Granted(i, va)]_vars
  BY GrantedStep
<1> QED
  BY <1>1, InvHolds, MapInvHolds, PTL DEF Spec, AllowedAccess

-----------------------------------------------------------------------------
(* The block device *)

\* A buffer that the host has mapped is mapped where the fenced tables say.
LEMMA BufferTranslated ==
    ASSUME Inv, status = "running", NEW a, NEW right, Has(a, right),
           <<hart.satp.ppn, Page(a)>> \notin dirty
    PROVE  /\ vm[Page(a)] = Translation(hart.satp, Page(a))
           /\ right \in Translation(hart.satp, Page(a)).prot
  BY DEF Has, Inv, NoStaleMapping

\* A product that is an offset of a file has not wrapped.
LEMMA OffsetExact ==
    ASSUME URVIRT_BLOCK_SIZE * hart.urvb_block_id \in Offset
    PROVE  block_offset = URVIRT_BLOCK_SIZE * hart.urvb_block_id
<1> DEFINE n == URVIRT_BLOCK_SIZE * hart.urvb_block_id
<1> HIDE DEF n
<1>1. n \in Nat /\ n < WordSize
  BY WordAssumption DEF n, Offset
<1>2. n % WordSize = n
  BY <1>1, WordAssumption
<1> QED
  BY <1>2 DEF block_offset, n

LEMMA CommandTransfers ==
    ASSUME Inv, status = "running", NEW cmd \in {1, 2}, NEW conf \in FreePage,
           block_command(cmd, conf),
           <<hart.satp.ppn, Page(hart.urvb_buf)>> \notin dirty,
           URVIRT_BLOCK_SIZE * hart.urvb_block_id \in Offset
    PROVE  Transferred
<1> DEFINE off == URVIRT_BLOCK_SIZE * hart.urvb_block_id
           buf == hart.urvb_buf
           t   == Translation(hart.satp, Page(buf))
<1>1. block_offset = off
  BY OffsetExact
<1> HIDE DEF off
<1>2. CASE cmd = 1
  <2>1. /\ ram' = IF Has(buf, "W") /\ off \in DOMAIN disk
                  THEN [ram EXCEPT ![vm[Page(buf)].ppn] = disk[off]] ELSE ram
        /\ disk' = disk
    BY <1>1, <1>2 DEF block_command
  <2>2. Has(buf, "W") => vm[Page(buf)] = t /\ "W" \in t.prot
    BY BufferTranslated
  <2> QED
    BY <2>1, <2>2 DEF Transferred, off
<1>3. CASE cmd = 2 /\ UNCHANGED <<ram, disk>>
  BY <1>3 DEF Transferred
<1>4. CASE cmd = 2 /\ ~ UNCHANGED <<ram, disk>>
  <2>1. PICK d \in BufferData(conf) :
           disk' = [x \in DOMAIN disk \cup {off} |-> IF x = off THEN d ELSE disk[x]]
    BY <1>1, <1>4 DEF block_command
  <2>2. ram' = ram
    BY <1>4 DEF block_command
  <2>3. \/ Has(buf, "R") /\ d = ram[vm[Page(buf)].ppn]
        \/ Page(buf) \in FreePage
    BY <2>1 DEF BufferData
  <2>4. Has(buf, "R") => vm[Page(buf)] = t /\ "R" \in t.prot
    BY BufferTranslated
  <2>5. /\ DOMAIN disk' = DOMAIN disk \cup {off} /\ disk'[off] = d
        /\ \A x \in DOMAIN disk \ {off} : disk'[x] = disk[x]
    BY <2>1
  <2>6. ("R" \in t.prot /\ disk'[off] = ram[t.ppn]) \/ Page(buf) \in FreePage
    BY <2>3, <2>4, <2>5
  <2> QED
    BY <2>2, <2>5, <2>6 DEF Transferred, off
<1> QED
  BY <1>2, <1>3, <1>4

LEMMA DmaStep ==
    ASSUME Inv, Sigsegv, <<hart.satp.ppn, Page(hart.urvb_buf)>> \notin dirty,
           URVIRT_BLOCK_SIZE * hart.urvb_block_id \in Offset
    PROVE  Transferred
<1>1. TypeOK
  BY DEF Inv
<1>2. status = "running"
  BY <1>1, SigsegvOutcome
<1>3. PICK scause \in PageFault, va \in Word : \E i : Outcome(scause, va, i)
  BY <1>1, SigsegvOutcome
<1>4. PICK i : Outcome(scause, va, i)
  BY <1>3
<1>5. CASE Trapped(scause, va) \/ GaveUp \/ PageAdded(scause, va)
  BY <1>5 DEF Trapped, Resume, GaveUp, PageAdded, Filled, Transferred
<1>6. ASSUME NEW h \in Hart, Stored(i, h)
      PROVE  Transferred
  <2>1. CASE UNCHANGED <<ram, disk>>
    BY <2>1 DEF Transferred
  <2>2. CASE \E cmd \in {1, 2}, conf \in FreePage : block_command(cmd, conf)
    BY <1>2, <2>2, CommandTransfers
  <2> QED
    BY <1>6, <2>1, <2>2 DEF Stored
<1> QED
  BY <1>4, <1>5, <1>6 DEF Outcome

(***************************************************************************)
(* The device's transfers go through the guest's tables: with the buffer's *)
(* entry fenced and an offset that does not wrap, a command never touches  *)
(* a frame the buffer is not mapped to nor another block, whatever the     *)
(* host's map was used for before; what it writes to the block is that     *)
(* frame, or the stub's own page when nothing is mapped at the buffer.     *)
(***************************************************************************)
THEOREM DmaThroughTablesAlways == Spec => DmaThroughTables
<1>1. Inv /\ [Next]_vars =>
        [\/ UNCHANGED <<ram, disk>>
         \/ ~ Sigsegv
         \/ <<hart.satp.ppn, Page(hart.urvb_buf)>> \in dirty
         \/ URVIRT_BLOCK_SIZE * hart.urvb_block_id \notin Offset
         \/ Transferred]_vars
  BY DmaStep
<1> QED
  BY <1>1, InvHolds, PTL DEF Spec, DmaThroughTables
=============================================================================
