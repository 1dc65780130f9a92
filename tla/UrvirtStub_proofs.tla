-------------------------- MODULE UrvirtStub_proofs --------------------------
(***************************************************************************)
(* Proofs about UrvirtStub for every layout, word size and guest: the type *)
(* invariant, and that the guest never runs with an enabled interrupt      *)
(* pending.                                                                *)
(***************************************************************************)
EXTENDS UrvirtStub, TLAPS

-----------------------------------------------------------------------------
(* The operators on harts *)

\* Moving the pc, forward or back, wraps within the word.
LEMMA AdvanceType ==
    ASSUME NEW h \in Hart, NEW n \in Int
    PROVE  advance(h, n) \in Hart
<1>1. h.pc + n \in Int
  BY DEF Hart, Word
<1>2. (h.pc + n) % WordSize \in Word
  BY <1>1, WordAssumption DEF Word
<1> QED
  BY <1>2 DEF advance, Hart

\* trap_target stays inside the word, vectored or not.
LEMMA TrapTargetType ==
    ASSUME NEW h \in Hart, NEW scause \in Word
    PROVE  trap_target(h, scause) \in Word
<1>1. h.stvec \in Word
  BY DEF Hart, Stvec
<1>2. h.stvec - (h.stvec % 4) \in Word
  BY <1>1, WordAssumption DEF Word
<1>3. (h.stvec - (h.stvec % 4) + scause * 4) % WordSize \in Word
  BY <1>2, WordAssumption DEF Word
<1> QED
  BY <1>2, <1>3 DEF trap_target

\* Setting and clearing the bits of a trap leaves the read-only ones alone.
LEMMA SetBitType ==
    ASSUME NEW st \in Sstatus, NEW b \in {"SIE", "SPIE", "SPP"}, NEW on
    PROVE  SetBit(st, b, on) \in Sstatus
  BY DEF SetBit, Sstatus, SstatusBit

LEMMA EnterTrapType ==
    ASSUME NEW h \in Hart, NEW scause \in Word, NEW stval \in Word
    PROVE  enter_trap(h, scause, stval) \in Hart
<1>1. trap_target(h, scause) \in Word
  BY TrapTargetType
<1> DEFINE st1 == SetBit(h.sstatus, "SPP", h.priv_mode = PRIV_S)
           st2 == SetBit(st1, "SPIE", "SIE" \in st1)
           st3 == SetBit(st2, "SIE", FALSE)
<1>2. st1 \in Sstatus
  BY SetBitType DEF Hart
<1> HIDE DEF st1
<1>3. st2 \in Sstatus
  BY <1>2, SetBitType
<1> HIDE DEF st2
<1>4. st3 \in Sstatus
  BY <1>3, SetBitType
<1> HIDE DEF st3
<1>5. enter_trap(h, scause, stval) =
        [h EXCEPT !.sepc = h.pc, !.scause = scause, !.stval = stval,
                  !.sstatus = st3, !.priv_mode = PRIV_S,
                  !.pc = trap_target(h, scause), !.should_clear_vm = TRUE]
  BY DEF enter_trap, st1, st2, st3
<1> QED
  BY <1>1, <1>4, <1>5 DEF Hart

\* The codes the stub raises are words, and the interrupt is not an exception.
LEMMA ScauseType ==
    {SCAUSE_ILLEGAL, SCAUSE_UECALL, SCAUSE_INSTR_PF, SCAUSE_LOAD_PF,
     SCAUSE_STORE_PF, SCAUSE_TIMER, 0} \subseteq Word
  BY WordAssumption DEF Word, SCAUSE_ILLEGAL, SCAUSE_UECALL, SCAUSE_INSTR_PF,
     SCAUSE_LOAD_PF, SCAUSE_STORE_PF, SCAUSE_TIMER, SCAUSE_IS_INT

LEMMA TakeInterruptType ==
    ASSUME NEW h \in Hart
    PROVE  take_interrupt(h) \in Hart
  BY EnterTrapType, ScauseType DEF take_interrupt

\* One trap entry settles the pending interrupt: it leaves S-mode with SIE off.
LEMMA InterruptSettled ==
    ASSUME NEW h \in Hart
    PROVE  ~ interrupt_due(take_interrupt(h))
<1>1. CASE ~ interrupt_due(h)
  BY <1>1 DEF take_interrupt
<1>2. CASE interrupt_due(h)
  <2>1. "SIE" \notin enter_trap(h, SCAUSE_TIMER, 0).sstatus
    BY DEF enter_trap, SetBit, Hart
  <2>2. enter_trap(h, SCAUSE_TIMER, 0).priv_mode = PRIV_S
    BY DEF enter_trap, Hart
  <2> QED
    BY <1>2, <2>1, <2>2 DEF take_interrupt, interrupt_due, PRIV_S
<1> QED
  BY <1>1, <1>2

LEMMA SretType ==
    ASSUME NEW h \in Hart
    PROVE  sret(h) \in Hart
<1> DEFINE st1 == SetBit(h.sstatus, "SIE", "SPIE" \in h.sstatus)
           st2 == SetBit(st1, "SPIE", TRUE)
           st3 == SetBit(st2, "SPP", FALSE)
<1>1. st1 \in Sstatus
  BY SetBitType DEF Hart
<1> HIDE DEF st1
<1>2. st2 \in Sstatus
  BY <1>1, SetBitType
<1> HIDE DEF st2
<1>3. st3 \in Sstatus
  BY <1>2, SetBitType
<1> HIDE DEF st3
<1>4. sret(h) = [h EXCEPT !.sstatus = st3,
                          !.priv_mode = IF "SPP" \notin h.sstatus THEN PRIV_U ELSE PRIV_S,
                          !.should_clear_vm = "SPP" \notin h.sstatus \/ h.should_clear_vm,
                          !.pc = h.sepc]
  BY DEF sret, st1, st2, st3
<1>5. ("SPP" \notin h.sstatus \/ h.should_clear_vm) \in BOOLEAN
  OBVIOUS
<1> QED
  BY <1>3, <1>4, <1>5 DEF Hart

LEMMA SfenceType ==
    ASSUME NEW h \in Hart
    PROVE  sfence_vma(h) \in Hart
<1>1. [h EXCEPT !.should_clear_vm = TRUE] \in Hart
  BY DEF Hart
<1> QED
  BY <1>1, AdvanceType DEF sfence_vma

LEMMA SanitizeType ==
    ASSUME NEW v \in Word
    PROVE  sanitize_stvec(v) \in Stvec
<1>1. CASE v % 4 \in {0, 1}
  BY <1>1 DEF sanitize_stvec, Stvec
<1>2. CASE v % 4 \notin {0, 1}
  <2>1. v - (v % 4) \in Word /\ (v - (v % 4)) % 4 = 0
    BY WordAssumption DEF Word
  <2> QED
    BY <1>2, <2>1 DEF sanitize_stvec, Stvec
<1> QED
  BY <1>1, <1>2

\* A CSR write of a well-formed operand keeps the hart well-formed: in
\* particular the ASID written to satp does not get into it.
LEMMA WriteCsrType ==
    ASSUME NEW h \in Hart, NEW csr \in ImplementedCsr, NEW v \in CsrOperand(csr)
    PROVE  write_csr(h, csr, v) \in Hart
<1>1. CASE csr = "sscratch"
  BY <1>1 DEF write_csr, CsrOperand, Hart
<1>2. CASE csr = "stvec"
  BY <1>2, SanitizeType DEF write_csr, CsrOperand, Hart
<1>3. CASE csr = "sepc"
  BY <1>3 DEF write_csr, CsrOperand, Hart
<1>4. CASE csr = "sstatus"
  <2>1. v \subseteq SstatusBit /\ h.sstatus \in Sstatus
    BY <1>4 DEF CsrOperand, Hart
  <2>2. Masked(v, h.sstatus, SSTATUS_WRITABLE_MASK) \in Sstatus
    BY <2>1 DEF Masked, Sstatus, SstatusBit, SSTATUS_WRITABLE_MASK
  <2> QED
    BY <1>4, <2>2 DEF write_csr, Hart
<1>5. CASE csr = "sie"
  <2>1. Masked(v, h.sie, SIX_WRITABLE_MASK) \in Six
    BY <1>5 DEF Masked, Six, SIX_WRITABLE_MASK, CsrOperand, Hart
  <2> QED
    BY <1>5, <2>1 DEF write_csr, Hart
<1>6. CASE csr = "sip"
  <2>1. Masked(v, h.sip, SIX_WRITABLE_MASK) \in Six
    BY <1>6 DEF Masked, Six, SIX_WRITABLE_MASK, CsrOperand, Hart
  <2> QED
    BY <1>6, <2>1 DEF write_csr, Hart
<1>7. CASE csr = "scause"
  BY <1>7 DEF write_csr, CsrOperand, Hart
<1>8. CASE csr = "stval"
  BY <1>8 DEF write_csr, CsrOperand, Hart
<1>9. CASE csr = "satp"
  <2>1. v \in [mode : 0..15, asid : Nat, ppn : Root]
    BY <1>9 DEF CsrOperand
  <2>2. v.mode \in {SATP_MODE_SV39, SATP_MODE_BARE} => set_satp_asid(v, 0) \in Satp
    BY <2>1 DEF set_satp_asid, Satp, SATP_MODE_SV39, SATP_MODE_BARE
  <2> QED
    BY <1>9, <2>2 DEF write_csr, Hart
<1> QED
  BY <1>1, <1>2, <1>3, <1>4, <1>5, <1>6, <1>7, <1>8, <1>9 DEF ImplementedCsr

\* What a CSR access writes is again an operand for that CSR.
LEMMA CsrOperandType ==
    ASSUME NEW h \in Hart, NEW csr \in ImplementedCsr, NEW v \in CsrOperand(csr),
           NEW op \in {"RW", "RS", "RC"}
    PROVE  csr_operand(op, read_csr(h, csr), v, csr) \in CsrOperand(csr)
<1>1. CASE csr = "sstatus"
  BY <1>1 DEF csr_operand, read_csr, CsrOperand, Hart, Sstatus
<1>2. CASE csr = "sie"
  BY <1>2 DEF csr_operand, read_csr, CsrOperand, Hart, Six, SixBit
<1>3. CASE csr = "sip"
  BY <1>3 DEF csr_operand, read_csr, CsrOperand, Hart, Six, SixBit
<1>4. CASE csr \notin {"sstatus", "sie", "sip"}
  BY <1>4 DEF csr_operand
<1> QED
  BY <1>1, <1>2, <1>3, <1>4

LEMMA CsrInstrType ==
    ASSUME NEW h \in Hart, NEW csr \in ImplementedCsr, NEW v \in CsrOperand(csr),
           NEW op \in {"RW", "RS", "RC"}, NEW will_write \in BOOLEAN
    PROVE  csr_instr(h, csr, op, will_write, v) \in Hart
<1>1. write_csr(h, csr, csr_operand(op, read_csr(h, csr), v, csr)) \in Hart
  BY CsrOperandType, WriteCsrType
<1> QED
  BY <1>1, AdvanceType DEF csr_instr

-----------------------------------------------------------------------------
(***************************************************************************)
(* The shapes a step can have.  Every invariant looks at a step through    *)
(* one of six shapes, so the actions are gone through only once.           *)
(***************************************************************************)

\* The data that the address translation does not depend on.
DataOK == /\ ram \in [RamPage -> Data]
          /\ DOMAIN disk \subseteq Offset
          /\ \A b \in DOMAIN disk : disk[b] \in Data
          /\ timer \in {"disarmed", "armed"}
          /\ alarm \in BOOLEAN

\* Nothing is left to unmap while the guest runs.
Settled == status = "running" => ~ hart.should_clear_vm

\* The handler returns to hart h without having mapped a page.  A fence, a
\* new address space and a new mode all ask for everything to be unmapped.
Returned(h, fence) == /\ Return(h, vm, fence)
                      /\ fence => h.should_clear_vm
                      /\ h.satp # hart.satp \/ h.priv_mode # hart.priv_mode
                           => h.should_clear_vm
                      /\ UNCHANGED <<pt, status>>
                      /\ status = "running"
                      /\ DataOK'

\* The handler maps page p as the guest's tables say and returns.
Filled(p, pte) == /\ p \in FreePage
                  /\ pte \in Pte /\ pte.kind = "leaf" /\ pte.ppn \in RamPage
                  /\ hart.satp.mode # SATP_MODE_BARE
                  /\ p \in VPage /\ pte = pt[hart.satp.ppn][p]
                  /\ Return(hart, [vm EXCEPT ![p] = RamMap(pte.ppn, pte.flags \cap Prot)],
                            FALSE)
                  /\ UNCHANGED <<pt, ram, disk, timer, alarm, status>>
                  /\ status = "running"

\* The process ends; the state of a nested handler is reached in one way.
Ended == /\ status' \in {"exited", "derailed", "corrupted", "collision",
                      "SIGSYS", "SIGILL", "SIGSEGV"}
         /\ status' = "derailed" => UnreadableInsn
         /\ UNCHANGED <<hart, vm, pt, ram, disk, timer, alarm, dirty>>

TableWritten == \E r \in Table, p \in VPage, pte \in PteChoice : GuestWritePte(r, p, pte)

\* The guest runs by itself, or the timer expires.
Undisturbed == /\ \/ hart' = hart
                  \/ \E a \in CodeAddr : hart' = [hart EXCEPT !.pc = a]
               /\ DataOK'
               /\ status = "running"
               /\ UNCHANGED <<vm, pt, status, dirty>>

Shape == \/ \E h \in Hart, fence \in BOOLEAN : Returned(h, fence)
         \/ \E p \in HostPage, pte \in Pte : Filled(p, pte)
         \/ Ended
         \/ TableWritten
         \/ Undisturbed
         \/ UNCHANGED vars

LEMMA TypeData == TypeOK => DataOK
  BY DEF TypeOK, DataOK

\* A handler that only changes the hart.
LEMMA ResumeShape ==
    ASSUME TypeOK, status = "running", NEW h \in Hart, NEW fence \in BOOLEAN,
           Resume(h, fence),
           fence => h.should_clear_vm,
           h.satp # hart.satp \/ h.priv_mode # hart.priv_mode => h.should_clear_vm
    PROVE  Shape
<1>1. DataOK'
  BY DEF TypeOK, DataOK, Resume
<1>2. Returned(h, fence)
  BY <1>1 DEF Returned, Resume
<1> QED
  BY <1>2 DEF Shape

\* Every trap entry asks for everything to be unmapped.
LEMMA TrapShape ==
    ASSUME TypeOK, status = "running", NEW h \in Hart,
           NEW scause \in Word, NEW stval \in Word,
           Resume(enter_trap(h, scause, stval), TRUE)
    PROVE  Shape
<1>1. enter_trap(h, scause, stval) \in Hart
  BY EnterTrapType
<1>2. enter_trap(h, scause, stval).should_clear_vm
  BY DEF enter_trap, Hart
<1> QED
  BY <1>1, <1>2, ResumeShape

LEMMA EbreakShape ==
    ASSUME NEW sig \in {"corrupted", "collision", "SIGSYS", "SIGILL", "SIGSEGV"}, Ebreak(sig)
    PROVE  Shape
  BY DEF Ebreak, Shape, Ended

\* What is at the buffer is a content of a page.
LEMMA BufferType ==
    ASSUME TypeOK, NEW conf
    PROVE  BufferData(conf) \subseteq Data
<1>1. CASE Has(hart.urvb_buf, "R")
  <2>1. vm[Page(hart.urvb_buf)].ppn \in RamPage
    BY <1>1 DEF Has, TypeOK, Mapping, GuestMapping, Unmapped, StubMap
  <2> QED
    BY <1>1, <2>1 DEF BufferData, TypeOK
<1>2. CASE ~ Has(hart.urvb_buf, "R")
  BY <1>2 DEF BufferData
<1> QED
  BY <1>1, <1>2

\* A block command changes RAM or the disk, to contents of the right type.
LEMMA BlockData ==
    ASSUME TypeOK, NEW cmd \in {1, 2}, NEW conf, block_command(cmd, conf),
           UNCHANGED <<timer, alarm>>
    PROVE  DataOK'
<1>1. CASE cmd = 1
  <2>1. ram' \in [RamPage -> Data] /\ disk' = disk
    BY <1>1 DEF block_command, TypeOK
  <2> QED
    BY <2>1 DEF TypeOK, DataOK
<1>2. CASE cmd = 2 /\ UNCHANGED <<ram, disk>>
  BY <1>2 DEF TypeOK, DataOK
<1>3. CASE cmd = 2 /\ ~ UNCHANGED <<ram, disk>>
  <2>1. PICK d \in BufferData(conf) :
           disk' = [x \in DOMAIN disk \cup {block_offset} |->
                      IF x = block_offset THEN d ELSE disk[x]]
    BY <1>3 DEF block_command
  <2>2. block_offset \in Offset /\ ram' = ram
    BY <1>3 DEF block_command
  <2>3. d \in Data
    BY BufferType
  <2>4. DOMAIN disk' \subseteq Offset /\ \A x \in DOMAIN disk' : disk'[x] \in Data
    BY <2>1, <2>2, <2>3 DEF TypeOK
  <2> QED
    BY <2>2, <2>4 DEF TypeOK, DataOK
<1> QED
  BY <1>1, <1>2, <1>3

\* A store to the device's page, whatever it does.
LEMMA MmioShape ==
    ASSUME TypeOK, status = "running", NEW i, NEW off \in Int, NEW data \in Word,
           MmioStore(i, off, data)
    PROVE  Shape
<1> DEFINE h  == advance(hart, mmio_advance(i))
           h1 == [h EXCEPT !.urvb_block_id = data]
           h2 == [h EXCEPT !.urvb_buf = data]
<1>1. h \in Hart /\ h.satp = hart.satp /\ h.priv_mode = hart.priv_mode
  <2>1. mmio_advance(i) \in Int
    BY DEF mmio_advance
  <2> QED
    BY <2>1, AdvanceType DEF TypeOK, advance, Hart
<1>2. h1 \in Hart /\ h1.satp = hart.satp /\ h1.priv_mode = hart.priv_mode
  BY <1>1 DEF Hart
<1>3. h2 \in Hart /\ h2.satp = hart.satp /\ h2.priv_mode = hart.priv_mode
  BY <1>1 DEF Hart
<1> HIDE DEF h, h1, h2
<1>4. \/ data \in {1, 2} /\ BlockCommand(h, data)
      \/ Resume(h1, FALSE)
      \/ Resume(h2, FALSE)
      \/ Ebreak("SIGSEGV")
  BY DEF MmioStore, h, h1, h2
<1>5. CASE data \in {1, 2} /\ BlockCommand(h, data)
  <2>1. CASE Ebreak("corrupted")
    BY <2>1, EbreakShape
  <2>2. CASE ~ Ebreak("corrupted")
    <3>1. PICK conf \in FreePage :
             /\ block_command(data, conf)
             /\ Return(h, vm, FALSE)
             /\ UNCHANGED <<pt, timer, alarm, status>>
      BY <1>5, <2>2 DEF BlockCommand
    <3>2. DataOK'
      BY <1>5, <3>1, BlockData
    <3>3. Returned(h, FALSE)
      BY <1>1, <3>1, <3>2 DEF Returned
    <3> QED
      BY <1>1, <3>3 DEF Shape
  <2> QED
    BY <2>1, <2>2
<1>6. CASE Resume(h1, FALSE)
  BY <1>2, <1>6, ResumeShape
<1>7. CASE Resume(h2, FALSE)
  BY <1>3, <1>7, ResumeShape
<1>8. CASE Ebreak("SIGSEGV")
  BY <1>8, EbreakShape
<1> QED
  BY <1>4, <1>5, <1>6, <1>7, <1>8

\* What the walk returns is the entry of the current address space.
LEMMA LookupType ==
    ASSUME TypeOK, NEW va \in Word
    PROVE  /\ lookup_pa(va) \in Pte \cup {BarePte}
           /\ lookup_pa(va).kind = "leaf" =>
                /\ hart.satp.mode # SATP_MODE_BARE
                /\ Page(va) \in VPage
                /\ lookup_pa(va) = pt[hart.satp.ppn][Page(va)]
<1>1. hart.satp.ppn \in Root
  BY DEF TypeOK, Hart, Satp
<1>2. CASE hart.satp.mode = SATP_MODE_BARE
  BY <1>2 DEF lookup_pa, BarePte
<1>3. CASE hart.satp.mode # SATP_MODE_BARE /\ Page(va) \in VPage
  BY <1>1, <1>3 DEF lookup_pa, TypeOK
<1>4. CASE hart.satp.mode # SATP_MODE_BARE /\ Page(va) \notin VPage
  BY <1>4 DEF lookup_pa, NoPte, Pte
<1> QED
  BY <1>2, <1>3, <1>4

\* handle_page_fault, in all its branches.
LEMMA PageFaultShape ==
    ASSUME TypeOK, status = "running", NEW va \in Word, NEW i,
           NEW scause \in {SCAUSE_INSTR_PF, SCAUSE_LOAD_PF, SCAUSE_STORE_PF},
           handle_page_fault(scause, va, i)
    PROVE  Shape
<1> DEFINE pte == lookup_pa(va)
<1>1. hart \in Hart /\ scause \in Word
  BY ScauseType DEF TypeOK
<1> HIDE DEF pte
<1>2. \/ Resume(enter_trap(hart, scause, va), TRUE)
      \/ Ebreak("SIGSEGV")
      \/ /\ pte.kind = "leaf" /\ pte.ppn \in RamPage
         /\ \E conf \in FreePage : MapPage(Page(va), pte, conf)
      \/ Mmio(scause, va, pte, i)
  BY DEF handle_page_fault, pte
<1>3. CASE Resume(enter_trap(hart, scause, va), TRUE)
  BY <1>1, <1>3, TrapShape
<1>4. CASE Ebreak("SIGSEGV")
  BY <1>4, EbreakShape
<1>5. CASE /\ pte.kind = "leaf" /\ pte.ppn \in RamPage
           /\ \E conf \in FreePage : MapPage(Page(va), pte, conf)
  <2>1. PICK conf \in FreePage : MapPage(Page(va), pte, conf)
    BY <1>5
  <2>2. CASE Page(va) \notin FreePage \ {conf}
    BY <2>1, <2>2, EbreakShape DEF MapPage
  <2>3. CASE Page(va) \in FreePage \ {conf}
    <3>1. /\ pte \in Pte
          /\ hart.satp.mode # SATP_MODE_BARE
          /\ Page(va) \in VPage /\ pte = pt[hart.satp.ppn][Page(va)]
      BY <1>5, LookupType DEF pte, BarePte
    <3>2. Filled(Page(va), pte)
      BY <1>5, <2>1, <2>3, <3>1 DEF Filled, MapPage
    <3>3. Page(va) \in HostPage
      BY <2>3 DEF FreePage
    <3> QED
      BY <3>1, <3>2, <3>3 DEF Shape
  <2> QED
    BY <2>2, <2>3
<1>6. CASE Mmio(scause, va, pte, i)
  <2>1. CASE Ebreak("SIGSEGV")
    BY <2>1, EbreakShape
  <2>2. CASE \E rs2 \in decode_sd(i) \ {-1}, d \in StoreData :
               MmioStore(i, va % PageSize, get_store_data(rs2, d))
    <3>1. PICK rs2 \in decode_sd(i) \ {-1}, d \in StoreData :
               MmioStore(i, va % PageSize, get_store_data(rs2, d))
      BY <2>2
    <3>2. get_store_data(rs2, d) \in Word
      BY GuestAssumption DEF get_store_data, TypeOK, Hart
    <3>3. va % PageSize \in Int
      BY LayoutAssumption DEF Word
    <3> QED
      BY <3>1, <3>2, <3>3, MmioShape
  <2> QED
    BY <1>6, <2>1, <2>2 DEF Mmio
<1> QED
  BY <1>2, <1>3, <1>4, <1>5, <1>6

LEMMA SegvShape ==
    ASSUME TypeOK, status = "running", NEW i, NEW a \in Word, SegvAt(i, a)
    PROVE  Shape
<1>1. segv_scause(i) \in {SCAUSE_INSTR_PF, SCAUSE_LOAD_PF, SCAUSE_STORE_PF}
  BY DEF segv_scause
<1> QED
  BY <1>1, PageFaultShape, EbreakShape DEF SegvAt

\* A CSR instruction: only an accepted write of satp changes the address
\* space, and it asks for everything to be unmapped.
LEMMA CsrShape ==
    ASSUME TypeOK, NEW csr \in DOMAIN CsrValue, NEW op \in {"RW", "RS", "RC"},
           NEW will_write \in BOOLEAN, NEW v \in CsrValue[csr],
           CsrInstr(csr, op, will_write, v)
    PROVE  Shape
<1> DEFINE h     == csr_instr(hart, csr, op, will_write, v)
           w     == write_csr(hart, csr, csr_operand(op, read_csr(hart, csr), v, csr))
           fence == /\ csr = "satp"
                    /\ op = "RW" \/ will_write
                    /\ v.mode \in {SATP_MODE_SV39, SATP_MODE_BARE}
<1>1. status = "running" /\ csr \in ImplementedCsr /\ Resume(h, fence)
  BY DEF CsrInstr, Privileged, Illegal
<1>2. v \in CsrOperand(csr) /\ hart \in Hart
  BY GuestAssumption DEF TypeOK
<1>3. h \in Hart
  BY <1>1, <1>2, CsrInstrType
<1>4. w \in Hart
  BY <1>1, <1>2, CsrOperandType, WriteCsrType
<1>5. w.priv_mode = hart.priv_mode
  BY <1>1, <1>2 DEF write_csr, ImplementedCsr, Hart
<1>6. csr # "satp" => w.satp = hart.satp
  BY <1>1, <1>2 DEF write_csr, ImplementedCsr, Hart
<1>7. csr = "satp" => IF v.mode \in {SATP_MODE_SV39, SATP_MODE_BARE}
                      THEN w.should_clear_vm ELSE w = hart
  BY <1>2 DEF write_csr, csr_operand, Hart
<1>8. h = IF op = "RW" \/ will_write THEN advance(w, 4) ELSE advance(hart, 4)
  BY DEF csr_instr
<1>9. \A x \in Hart : /\ advance(x, 4).satp = x.satp
                      /\ advance(x, 4).priv_mode = x.priv_mode
                      /\ advance(x, 4).should_clear_vm = x.should_clear_vm
  BY DEF advance, Hart
<1> HIDE DEF h, w
<1>10. fence => h.should_clear_vm
  BY <1>4, <1>7, <1>8, <1>9
<1>11. h.satp # hart.satp \/ h.priv_mode # hart.priv_mode => h.should_clear_vm
  BY <1>2, <1>4, <1>5, <1>6, <1>7, <1>8, <1>9
<1> QED
  BY <1>1, <1>3, <1>10, <1>11, ResumeShape

\* Every step has one of the shapes.
LEMMA NextShape ==
    ASSUME TypeOK, Next
    PROVE  Shape
<1> USE DEF Ecall, Illegal, Privileged
<1>1. hart \in Hart /\ 0 \in Word /\ SCAUSE_UECALL \in Word /\ SCAUSE_ILLEGAL \in Word
  BY ScauseType DEF TypeOK
<1>2. AfterEcall \in Hart /\ AfterEcall.satp = hart.satp
        /\ AfterEcall.priv_mode = hart.priv_mode
  <2>1. AfterEcall \in Hart
    BY <1>1, AdvanceType DEF AfterEcall
  <2> QED
    BY <1>1, <2>1 DEF AfterEcall, advance, Hart
<1>3. CASE EcallFromUser
  <2>1. -4 \in Int
    OBVIOUS
  <2>2. advance(AfterEcall, -4) \in Hart
    BY ONLY <1>2, <2>1, AdvanceType
  <2> QED
    BY <1>1, <1>3, <2>2, TrapShape DEF EcallFromUser
<1>4. CASE SbiPlain
  BY <1>2, <1>4, ResumeShape DEF SbiPlain
<1>5. CASE SbiGetcharFails
  BY <1>5, EbreakShape DEF SbiGetcharFails
<1>6. CASE SbiShutdown
  BY <1>6 DEF SbiShutdown, Shape, Ended
<1>7. ASSUME NEW when \in Deadline, SbiSetTimer(when)
      PROVE  Shape
  <2> DEFINE h == [AfterEcall EXCEPT !.sip = SetBit(@, "STI", when # "future")]
  <2>1. h \in Hart /\ h.satp = hart.satp /\ h.priv_mode = hart.priv_mode
    BY <1>2 DEF Hart, SetBit, Six
  <2>2. DataOK'
    BY <1>7 DEF SbiSetTimer, DataOK, TypeOK
  <2>3. Returned(h, FALSE)
    BY <1>7, <2>1, <2>2 DEF SbiSetTimer, Returned
  <2> QED
    BY <2>1, <2>3 DEF Shape
<1>8. CASE IllegalInUser
  BY <1>1, <1>8, TrapShape DEF IllegalInUser
<1>9. CASE CannotEmulate
  BY <1>9, EbreakShape DEF CannotEmulate
<1>10. CASE UnreadableInsn
  BY <1>10 DEF UnreadableInsn, Shape, Ended
<1>11. CASE SfenceVma
  <2>1. sfence_vma(hart) \in Hart /\ sfence_vma(hart).should_clear_vm
    BY <1>1, SfenceType DEF sfence_vma, advance, Hart
  <2> QED
    BY <1>11, <2>1, ResumeShape DEF SfenceVma
<1>12. CASE Wfi
  <2>1. advance(hart, 4) \in Hart
    BY <1>1, AdvanceType
  <2>2. advance(hart, 4).satp = hart.satp /\ advance(hart, 4).priv_mode = hart.priv_mode
    BY <1>1 DEF advance, Hart
  <2> QED
    BY <1>12, <2>1, <2>2, ResumeShape DEF Wfi
<1>13. CASE Sret
  <2>1. sret(hart) \in Hart /\ sret(hart).satp = hart.satp
    BY <1>1, SretType DEF sret, Hart
  <2>2. "SPP" \notin hart.sstatus => sret(hart).should_clear_vm
    BY <1>1 DEF sret, Hart
  <2>3. "SPP" \in hart.sstatus => sret(hart).priv_mode = hart.priv_mode
    BY <1>1, <1>13 DEF Sret, sret, Hart
  <2> QED
    BY <1>13, <2>1, <2>2, <2>3, ResumeShape DEF Sret
<1>14. ASSUME NEW csr \in DOMAIN CsrValue, NEW op \in {"RW", "RS", "RC"},
              NEW will_write \in BOOLEAN, NEW v \in CsrValue[csr],
              CsrInstr(csr, op, will_write, v)
       PROVE  Shape
  BY <1>14, CsrShape
<1>15. ASSUME NEW csr \in DOMAIN CsrValue, UnimplementedCsr(csr)
       PROVE  Shape
  BY <1>15, EbreakShape DEF UnimplementedCsr
<1>16. CASE TimerExpires
  <2>1. DataOK'
    BY <1>16 DEF TimerExpires, TypeOK, DataOK
  <2> QED
    BY <1>16, <2>1 DEF TimerExpires, Shape, Undisturbed
<1>17. CASE Sigalrm
  <2> DEFINE h == [hart EXCEPT !.sip = SetBit(@, "STI", TRUE)]
  <2>1. h \in Hart /\ h.satp = hart.satp /\ h.priv_mode = hart.priv_mode
    BY <1>1 DEF Hart, SetBit, Six
  <2>2. DataOK'
    BY <1>17 DEF Sigalrm, DataOK, TypeOK
  <2>3. Returned(h, FALSE)
    BY <1>17, <2>1, <2>2 DEF Sigalrm, Returned
  <2> QED
    BY <2>1, <2>3 DEF Shape
<1>18. CASE SegvFetch
  <2>1. hart.pc \in Word
    BY <1>1 DEF Hart
  <2> QED
    BY <1>18, <2>1, PageFaultShape DEF SegvFetch
<1>19. ASSUME NEW i \in DataInsn, SegvSecondHalf(i)
       PROVE  Shape
  <2>1. LastHalf(4) \in Word
    BY <1>1, WordAssumption DEF LastHalf, Hart, Word
  <2> QED
    BY <1>19, <2>1, SegvShape DEF SegvSecondHalf
<1>20. ASSUME NEW i \in DataInsn, NEW va \in DataAddr, SegvData(i, va)
       PROVE  Shape
  BY <1>20, GuestAssumption, SegvShape DEF SegvData
<1>21. ASSUME NEW a \in CodeAddr, GuestJump(a)
       PROVE  Shape
  <2>1. DataOK'
    BY <1>21 DEF GuestJump, TypeOK, DataOK
  <2> QED
    BY <1>21, <2>1 DEF GuestJump, Shape, Undisturbed
<1>22. ASSUME NEW r \in Table, NEW p \in VPage, NEW pte \in PteChoice,
              GuestWritePte(r, p, pte)
       PROVE  Shape
  BY <1>22 DEF Shape, TableWritten
<1>23. ASSUME NEW va \in DataAddr, NEW d \in Data, GuestStore(va, d)
       PROVE  Shape
  <2>1. DataOK'
    BY <1>23 DEF GuestStore, TypeOK, DataOK
  <2> QED
    BY <1>23, <2>1 DEF GuestStore, Shape, Undisturbed
<1>24. CASE Stopped
  BY <1>24 DEF Stopped, Shape
<1> QED
  BY <1>3, <1>4, <1>5, <1>6, <1>7, <1>8, <1>9, <1>10, <1>11, <1>12, <1>13, <1>14,
     <1>15, <1>16, <1>17, <1>18, <1>19, <1>20, <1>21, <1>22, <1>23, <1>24
     DEF Next, Sigsys, Sigill, Sigsegv, Guest

-----------------------------------------------------------------------------
(* The invariant *)

\* The return from the handler: the hart is settled, and either everything
\* but the stub is unmapped or nothing about the translation has changed.
LEMMA ReturnFacts ==
    ASSUME TypeOK, NEW h \in Hart, NEW m \in [HostPage -> Mapping],
           NEW fence \in BOOLEAN, Return(h, m, fence)
    PROVE  /\ hart' \in Hart
           /\ ~ hart'.should_clear_vm
           /\ ~ interrupt_due(hart')
           /\ vm' \in [HostPage -> Mapping]
           /\ dirty' \subseteq Root \X VPage
           /\ hart'.satp = h.satp
           /\ \/ vm' = clear_vm(m)
              \/ /\ vm' = m
                 /\ ~ h.should_clear_vm
                 /\ hart'.priv_mode = h.priv_mode
                 /\ fence \/ dirty' = dirty
<1> DEFINE h1 == take_interrupt(h)
<1>1. h1 \in Hart /\ ~ interrupt_due(h1)
  BY TakeInterruptType, InterruptSettled
<1>2. h1.satp = h.satp /\ (~ interrupt_due(h) => h1 = h)
  BY DEF take_interrupt, enter_trap, Hart
<1>3. interrupt_due(h) => h1.should_clear_vm
  BY DEF take_interrupt, enter_trap, Hart
<1>4. /\ hart' = [h1 EXCEPT !.should_clear_vm = FALSE]
      /\ vm' = IF h1.should_clear_vm THEN clear_vm(m) ELSE m
      /\ dirty' = IF fence \/ interrupt_due(h) THEN {} ELSE dirty
  BY DEF Return
<1>5. clear_vm(m) \in [HostPage -> Mapping]
  BY DEF clear_vm, Mapping
<1> HIDE DEF h1
<1>6. /\ hart' \in Hart /\ ~ hart'.should_clear_vm
      /\ hart'.satp = h1.satp /\ hart'.priv_mode = h1.priv_mode
      /\ hart'.sip = h1.sip /\ hart'.sie = h1.sie /\ hart'.sstatus = h1.sstatus
  BY <1>1, <1>4 DEF Hart
<1>7. ~ interrupt_due(hart')
  BY <1>1, <1>6 DEF interrupt_due
<1>8. dirty' \subseteq Root \X VPage
  BY <1>4 DEF TypeOK
<1> QED
  BY <1>2, <1>3, <1>4, <1>5, <1>6, <1>7, <1>8

LEMMA FillType ==
    ASSUME TypeOK, NEW p \in HostPage, NEW pte \in Pte, pte.ppn \in RamPage
    PROVE  [vm EXCEPT ![p] = RamMap(pte.ppn, pte.flags \cap Prot)] \in [HostPage -> Mapping]
<1>1. RamMap(pte.ppn, pte.flags \cap Prot) \in Mapping
  BY DEF RamMap, Mapping, GuestMapping
<1> QED
  BY <1>1 DEF TypeOK

LEMMA TypeInit == Init => TypeOK
<1> SUFFICES ASSUME Init PROVE TypeOK
  OBVIOUS
<1>1. {"FS", "XS", "SD"} \in Sstatus /\ {} \in Six /\ 0 \in Stvec
  BY ScauseType DEF Sstatus, SstatusBit, Six, Stvec
<1>2. hart \in Hart
  BY <1>1, LayoutAssumption, SatpAssumption, ScauseType
     DEF Init, initialize_priv, Hart, Satp, PRIV_S, PRIV_U, SATP_MODE_BARE
<1>3. vm \in [HostPage -> Mapping]
  BY DEF Init, Mapping, GuestMapping, RamMap
<1>4. pt \in [Root -> [VPage -> Pte]]
  BY DEF Init, NoPte, BrokenPte, Pte
<1>5. DataOK
  BY LayoutAssumption, GuestAssumption DEF Init, DataOK
<1> QED
  BY <1>2, <1>3, <1>4, <1>5 DEF Init, TypeOK, DataOK

LEMMA TypeStep == TypeOK /\ [Next]_vars => TypeOK'
<1> SUFFICES ASSUME TypeOK, [Next]_vars PROVE TypeOK'
  OBVIOUS
<1>1. CASE UNCHANGED vars
  BY <1>1 DEF vars, TypeOK
<1>2. ASSUME NEW h \in Hart, NEW fence \in BOOLEAN, Returned(h, fence)
      PROVE  TypeOK'
  <2>1. /\ hart' \in Hart /\ vm' \in [HostPage -> Mapping]
        /\ dirty' \subseteq Root \X VPage
    BY <1>2, ReturnFacts DEF Returned, TypeOK
  <2> QED
    BY <1>2, <2>1 DEF Returned, TypeOK, DataOK
<1>3. ASSUME NEW p \in HostPage, NEW pte \in Pte, Filled(p, pte)
      PROVE  TypeOK'
  <2>1. /\ hart' \in Hart /\ vm' \in [HostPage -> Mapping]
        /\ dirty' \subseteq Root \X VPage
    BY <1>3, FillType, ReturnFacts DEF Filled, TypeOK
  <2> QED
    BY <1>3, <2>1 DEF Filled, TypeOK
<1>4. CASE Ended
  BY <1>4 DEF Ended, TypeOK
<1>5. CASE TableWritten
  <2>1. PICK r \in Table, p \in VPage, pte \in PteChoice : GuestWritePte(r, p, pte)
    BY <1>5 DEF TableWritten
  <2>2. r \in Root /\ pte \in Pte
    BY GuestAssumption DEF Table
  <2>3. pt' \in [Root -> [VPage -> Pte]]
    BY <2>1, <2>2 DEF GuestWritePte, TypeOK
  <2>4. dirty' \subseteq Root \X VPage
    BY <2>1, <2>2 DEF GuestWritePte, TypeOK
  <2> QED
    BY <2>1, <2>3, <2>4 DEF GuestWritePte, TypeOK
<1>6. CASE Undisturbed
  <2>1. hart' \in Hart
    BY <1>6, GuestAssumption DEF Undisturbed, TypeOK, Hart
  <2> QED
    BY <1>6, <2>1 DEF Undisturbed, TypeOK, DataOK
<1> QED
  BY <1>1, <1>2, <1>3, <1>4, <1>5, <1>6, NextShape DEF Shape

(***************************************************************************)
(* The model is well typed for every instance: a CSR written by the guest, *)
(* a trap target or a wrapped pc never leaves the word, stvec never gets a *)
(* reserved mode, the read-only bits of sstatus, sie and sip stay as they  *)
(* were at the start, and what is mapped for the guest is of its RAM.      *)
(***************************************************************************)
THEOREM TypeCorrect == Spec => []TypeOK
  BY TypeInit, TypeStep, PTL DEF Spec

(***************************************************************************)
(* The inductive invariant.  NoStaleMapping is not inductive by itself: it *)
(* needs that unmapping spares the stub, so that nothing of the guest is   *)
(* left after it (StubIntact), and the type of satp and of the tables.     *)
(***************************************************************************)
Inv == TypeOK /\ Settled /\ InterruptTaken /\ StubIntact /\ NoStaleMapping

\* Once everything is unmapped, no page of the guest is left.
LEMMA ClearedGuest ==
    ASSUME TypeOK, StubIntact, NEW m \in [HostPage -> Mapping],
           \A p \in StubPage : m[p] = vm[p]
    PROVE  /\ \A p \in StubPage : clear_vm(m)[p] = StubMap
           /\ \A p \in HostPage : clear_vm(m)[p].kind # "guest"
<1>1. ASSUME NEW p \in HostPage
      PROVE  clear_vm(m)[p] = IF p \in StubPage THEN StubMap ELSE Unmapped
  <2>1. p \in StubPage <=> ~ (p < StubFirst \/ p >= StubEnd)
    BY LayoutAssumption DEF HostPage, StubPage
  <2> QED
    BY <2>1 DEF clear_vm, StubIntact
<1>2. StubPage \subseteq HostPage
  BY LayoutAssumption DEF HostPage, StubPage
<1> QED
  BY <1>1, <1>2 DEF StubMap, Unmapped

LEMMA InvInit == Init => Inv
<1> SUFFICES ASSUME Init PROVE Inv
  OBVIOUS
<1>1. TypeOK
  BY TypeInit
<1>2. Settled /\ InterruptTaken
  BY DEF Init, Settled, InterruptTaken, initialize_priv, interrupt_due
<1>3. StubIntact
  BY LayoutAssumption DEF Init, StubIntact, StubPage, HostPage
<1>4. NoStaleMapping
  BY DEF Init, NoStaleMapping, Translation, initialize_priv, StubMap, Unmapped
<1> QED
  BY <1>1, <1>2, <1>3, <1>4 DEF Inv

\* The handler returns without having mapped a page.
LEMMA InvReturned ==
    ASSUME Inv, NEW h \in Hart, NEW fence \in BOOLEAN, Returned(h, fence)
    PROVE  Settled' /\ InterruptTaken' /\ StubIntact' /\ NoStaleMapping'
<1> USE DEF Inv
<1>1. vm \in [HostPage -> Mapping]
  BY DEF TypeOK
<1>2. /\ ~ hart'.should_clear_vm
      /\ ~ interrupt_due(hart')
      /\ hart'.satp = h.satp
      /\ \/ vm' = clear_vm(vm)
         \/ /\ vm' = vm
            /\ ~ h.should_clear_vm
            /\ hart'.priv_mode = h.priv_mode
            /\ fence \/ dirty' = dirty
  BY <1>1, ReturnFacts DEF Returned
<1>3. Settled' /\ InterruptTaken'
  BY <1>2 DEF Settled, InterruptTaken, interrupt_due
<1>4. CASE vm' = clear_vm(vm)
  BY <1>1, <1>3, <1>4, ClearedGuest DEF StubIntact, NoStaleMapping
<1>5. CASE vm' # clear_vm(vm)
  <2>1. vm' = vm /\ hart'.satp = hart.satp /\ dirty' = dirty /\ pt' = pt
    BY <1>2, <1>5 DEF Returned
  <2>2. \A p \in HostPage : Translation(hart.satp, p)' = Translation(hart.satp, p)
    BY <2>1 DEF Translation
  <2>3. NoStaleMapping'
    BY <2>1, <2>2 DEF NoStaleMapping, Returned
  <2> QED
    BY <1>3, <2>1, <2>3 DEF StubIntact
<1> QED
  BY <1>4, <1>5

\* The handler maps one page, from the entry the tables hold for it now.
LEMMA InvFilled ==
    ASSUME Inv, NEW q \in HostPage, NEW pte \in Pte, Filled(q, pte)
    PROVE  Settled' /\ InterruptTaken' /\ StubIntact' /\ NoStaleMapping'
<1> USE DEF Inv
<1> DEFINE m == [vm EXCEPT ![q] = RamMap(pte.ppn, pte.flags \cap Prot)]
<1>1. m \in [HostPage -> Mapping] /\ hart \in Hart /\ vm \in [HostPage -> Mapping]
  BY FillType DEF Filled, TypeOK
<1>2. /\ ~ hart'.should_clear_vm
      /\ ~ interrupt_due(hart')
      /\ hart'.satp = hart.satp
      /\ vm' = clear_vm(m) \/ (vm' = m /\ dirty' = dirty)
  BY <1>1, ReturnFacts DEF Filled
<1>3. Settled' /\ InterruptTaken'
  BY <1>2 DEF Settled, InterruptTaken, interrupt_due
<1>4. \A p \in StubPage : p # q
  BY DEF Filled, FreePage, StubIntact, StubMap
<1>5. \A p \in HostPage \ {q} : m[p] = vm[p]
  BY <1>1
<1>6. \A p \in StubPage : m[p] = vm[p]
  BY <1>4, <1>5, LayoutAssumption DEF StubPage, HostPage
<1>7. m[q] = RamMap(pte.ppn, pte.flags \cap Prot)
  BY <1>1
<1> HIDE DEF m
<1>8. CASE vm' = clear_vm(m)
  BY <1>1, <1>3, <1>6, <1>8, ClearedGuest DEF StubIntact, NoStaleMapping
<1>9. CASE vm' = m /\ dirty' = dirty
  <2>1. pt' = pt /\ status' = status
    BY DEF Filled
  <2>2. \A p \in HostPage : Translation(hart.satp, p)' = Translation(hart.satp, p)
    BY <1>2, <2>1 DEF Translation
  <2>3. Translation(hart.satp, q) = m[q]
    BY <1>7 DEF Filled, Translation
  <2>4. NoStaleMapping'
    BY <1>2, <1>5, <1>9, <2>1, <2>2, <2>3 DEF NoStaleMapping
  <2> QED
    BY <1>3, <1>6, <1>9, <2>4 DEF StubIntact
<1> QED
  BY <1>2, <1>8, <1>9

\* The guest writes its tables: only that entry may now disagree.
LEMMA InvTableWritten ==
    ASSUME Inv, TableWritten
    PROVE  Settled' /\ InterruptTaken' /\ StubIntact' /\ NoStaleMapping'
<1> USE DEF Inv
<1>1. PICK r \in Table, q \in VPage, pte \in PteChoice : GuestWritePte(r, q, pte)
  BY DEF TableWritten
<1>2. /\ pt' = [pt EXCEPT ![r][q] = pte]
      /\ dirty' = dirty \cup {<<r, q>>}
      /\ UNCHANGED <<hart, vm, status>>
  BY <1>1 DEF GuestWritePte
<1>3. Settled' /\ InterruptTaken' /\ StubIntact'
  BY <1>2 DEF Settled, InterruptTaken, interrupt_due, StubIntact
<1>4. ASSUME NEW p \in HostPage, <<hart.satp.ppn, p>> \notin dirty'
      PROVE  Translation(hart.satp, p)' = Translation(hart.satp, p)
  <2>1. hart.satp.ppn \in Root /\ r \in Root
    BY DEF TypeOK, Hart, Satp, Table
  <2>2. hart.satp.ppn # r \/ p # q
    BY <1>2, <1>4
  <2>3. p \in VPage => pt'[hart.satp.ppn][p] = pt[hart.satp.ppn][p]
    BY <1>2, <2>1, <2>2 DEF TypeOK
  <2>4. hart' = hart
    BY <1>2
  <2>5. CASE p \notin VPage
    BY <2>4, <2>5 DEF Translation
  <2>6. CASE p \in VPage
    BY <2>3, <2>4, <2>6 DEF Translation
  <2> QED
    BY <2>5, <2>6
<1>5. NoStaleMapping'
  BY <1>2, <1>4 DEF NoStaleMapping
<1> QED
  BY <1>3, <1>5

LEMMA InvUndisturbed ==
    ASSUME Inv, Undisturbed
    PROVE  Settled' /\ InterruptTaken' /\ StubIntact' /\ NoStaleMapping'
<1> USE DEF Inv
<1>1. /\ hart'.satp = hart.satp /\ hart'.should_clear_vm = hart.should_clear_vm
      /\ hart'.sip = hart.sip /\ hart'.sie = hart.sie
      /\ hart'.sstatus = hart.sstatus /\ hart'.priv_mode = hart.priv_mode
  BY DEF Undisturbed, TypeOK, Hart
<1>2. UNCHANGED <<vm, pt, status, dirty>>
  BY DEF Undisturbed
<1>3. \A p \in HostPage : Translation(hart.satp, p)' = Translation(hart.satp, p)
  BY <1>1, <1>2 DEF Translation
<1> QED
  BY <1>1, <1>2, <1>3 DEF Settled, InterruptTaken, interrupt_due, StubIntact, NoStaleMapping

LEMMA InvStep == Inv /\ [Next]_vars => Inv'
<1> SUFFICES ASSUME Inv, [Next]_vars PROVE Inv'
  OBVIOUS
<1>1. TypeOK /\ TypeOK'
  BY TypeStep DEF Inv
<1>2. CASE UNCHANGED vars
  BY <1>2 DEF vars, Inv, TypeOK, Settled, InterruptTaken, interrupt_due, StubIntact,
     NoStaleMapping, Translation
<1>3. CASE \E h \in Hart, fence \in BOOLEAN : Returned(h, fence)
  BY <1>1, <1>3, InvReturned DEF Inv
<1>4. CASE \E p \in HostPage, pte \in Pte : Filled(p, pte)
  BY <1>1, <1>4, InvFilled DEF Inv
<1>5. CASE Ended
  BY <1>1, <1>5 DEF Ended, Inv, Settled, InterruptTaken, StubIntact, NoStaleMapping
<1>6. CASE TableWritten
  BY <1>1, <1>6, InvTableWritten DEF Inv
<1>7. CASE Undisturbed
  BY <1>1, <1>7, InvUndisturbed DEF Inv
<1> QED
  BY <1>1, <1>2, <1>3, <1>4, <1>5, <1>6, <1>7, NextShape DEF Shape

LEMMA InvHolds == Spec => []Inv
  BY InvInit, InvStep, PTL DEF Spec

(***************************************************************************)
(* The check at the end of handler() is enough: however sip, sie, sstatus  *)
(* and the mode got their values, the guest never runs with an enabled     *)
(* interrupt pending.                                                      *)
(***************************************************************************)
THEOREM InterruptTakenAlways == Spec => []InterruptTaken
<1>1. Inv => InterruptTaken
  BY DEF Inv
<1> QED
  BY <1>1, InvHolds, PTL

(***************************************************************************)
(* No page table the guest can write and no sequence of flushes unmaps or  *)
(* replaces a page of the stub.                                            *)
(***************************************************************************)
THEOREM StubIntactAlways == Spec => []StubIntact
<1>1. Inv => StubIntact
  BY DEF Inv
<1> QED
  BY <1>1, InvHolds, PTL

(***************************************************************************)
(* A guest that fences never runs on a translation its tables do not give. *)
(***************************************************************************)
THEOREM NoStaleMappingAlways == Spec => []NoStaleMapping
<1>1. Inv => NoStaleMapping
  BY DEF Inv
<1> QED
  BY <1>1, InvHolds, PTL

-----------------------------------------------------------------------------
(* The nested handler *)

\* An instruction that the guest executes and the tables do not map is on a
\* page written since the last fence.
LEMMA ExecutedUnmapped ==
    ASSUME Inv, status = "running", NEW a \in Word, Has(a, "X"),
           lookup_pa(a).kind = "invalid"
    PROVE  <<hart.satp.ppn, Page(a)>> \in dirty
<1>1. Page(a) \in HostPage /\ vm[Page(a)].kind = "guest"
  BY DEF Has
<1>2. hart.satp.mode # SATP_MODE_BARE
        /\ (Page(a) \in VPage => pt[hart.satp.ppn][Page(a)].kind # "leaf")
  BY DEF lookup_pa, BarePte
<1>3. Translation(hart.satp, Page(a)) = Unmapped
  BY <1>2 DEF Translation
<1> QED
  BY <1>1, <1>3 DEF Inv, NoStaleMapping, Unmapped

\* The SIGILL handler that cannot read the instruction.
LEMMA UnreadableDirty ==
    ASSUME Inv, UnreadableInsn, status' = "derailed"
    PROVE  \E a \in {hart.pc, LastHalf(4)} : <<hart.satp.ppn, Page(a)>> \in dirty
<1> DEFINE a == IF Has(hart.pc, "R") THEN LastHalf(4) ELSE hart.pc
<1>1. hart.pc \in Word /\ LastHalf(4) \in Word
  BY WordAssumption DEF Inv, TypeOK, Hart, LastHalf, Word
<1>2. status = "running" /\ Has(hart.pc, "X")
  BY DEF UnreadableInsn, Illegal, Fetched
<1>3. Has(hart.pc, "R") => Has(LastHalf(4), "X")
  BY DEF UnreadableInsn, Illegal, Fetched, Readable
<1>4. lookup_pa(a).kind = "invalid"
  <2>1. status' = IF lookup_pa(a).kind = "invalid" THEN "derailed" ELSE "SIGILL"
    BY DEF UnreadableInsn
  <2> HIDE DEF a
  <2> QED BY <2>1
<1>5. CASE Has(hart.pc, "R")
  BY <1>1, <1>2, <1>3, <1>4, <1>5, ExecutedUnmapped
<1>6. CASE ~ Has(hart.pc, "R")
  BY <1>1, <1>2, <1>4, <1>6, ExecutedUnmapped
<1> QED
  BY <1>5, <1>6

\* One step.
LEMMA DerailedStep ==
    Inv /\ DerailedOnlyUnfenced /\ [Next]_vars => DerailedOnlyUnfenced'
<1> SUFFICES ASSUME Inv, DerailedOnlyUnfenced, [Next]_vars, status' = "derailed"
             PROVE  (\E a \in {hart.pc, LastHalf(4)} : <<hart.satp.ppn, Page(a)>> \in dirty)'
  BY DEF DerailedOnlyUnfenced
<1>1. CASE UNCHANGED vars
  BY <1>1 DEF vars, DerailedOnlyUnfenced, LastHalf, Page
<1>2. CASE Ended
  <2>1. \E a \in {hart.pc, LastHalf(4)} : <<hart.satp.ppn, Page(a)>> \in dirty
    BY <1>2, UnreadableDirty DEF Ended
  <2> QED BY <1>2, <2>1 DEF Ended, LastHalf, Page
<1>3. CASE \/ \E h \in Hart, fence \in BOOLEAN : Returned(h, fence)
           \/ \E p \in HostPage, pte \in Pte : Filled(p, pte)
           \/ TableWritten
           \/ Undisturbed
  BY <1>3 DEF Returned, Filled, TableWritten, GuestWritePte, Undisturbed
<1> QED
  BY <1>1, <1>2, <1>3, NextShape DEF Inv, Shape

(***************************************************************************)
(* A signal handler runs on top of another and returns into the guest only *)
(* if the guest executes from a page it has changed without a fence.       *)
(***************************************************************************)
THEOREM DerailedOnlyUnfencedAlways == Spec => []DerailedOnlyUnfenced
<1>1. Init => DerailedOnlyUnfenced
  BY DEF Init, DerailedOnlyUnfenced
<1> QED
  BY <1>1, InvHolds, DerailedStep, PTL DEF Spec
=============================================================================
