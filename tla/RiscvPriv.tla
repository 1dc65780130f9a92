------------------------------ MODULE RiscvPriv ------------------------------
(***************************************************************************)
(* The emulated hart: the privileged state of struct priv_state and the pc *)
(* of the interrupted guest, with the functions of riscv-priv.c that       *)
(* change them.  Every function that mutates *priv and *ucontext is an     *)
(* operator from a hart to a hart.                                         *)
(*                                                                         *)
(* sstatus, sie and sip are sets of the names of the bits that are set.    *)
(* The other CSRs are words modulo WordSize (2^64 in the code); satp is    *)
(* the record of its three fields.  The general registers are not kept:    *)
(* the guest is free, so what it reads back cannot restrict what it does.  *)
(***************************************************************************)
EXTENDS InsnDecode

CONSTANTS
    WordSize,   \* number of values of a uintptr_t
    Root        \* the values of satp.PPN: page numbers of root page tables

\* Every exception code is below the interrupt bit, and the interrupt bit
\* shifted left by two leaves the word.
ASSUME WordAssumption == /\ WordSize \in Nat
                         /\ WordSize >= 64
                         /\ WordSize % 4 = 0
ASSUME SatpAssumption == 0 \in Root

Word == 0 .. (WordSize - 1)

PRIV_U == 0
PRIV_S == 16

\* FS and XS are two-bit fields that are only ever off or dirty.
SstatusBit == {"SIE", "SPIE", "SPP", "SUM", "MXR", "FS", "XS", "SD"}
SSTATUS_WRITABLE_MASK == {"MXR", "SUM", "SPP", "SPIE", "SIE"}

SixBit == {"SSI", "STI"}
SIX_WRITABLE_MASK == {"STI"}

\* The CSRs as they are kept: what the guest cannot write stays as it was at
\* the start, and stvec never has a reserved mode.
Sstatus == {s \in SUBSET SstatusBit : {"FS", "XS", "SD"} \subseteq s}
Six     == SUBSET {"STI"}
Stvec   == {v \in Word : v % 4 \in {0, 1}}

SATP_MODE_BARE == 0
SATP_MODE_SV39 == 8
\* satp as it is kept: the guest may write any ASID and reads back zero.
Satp == [mode : {SATP_MODE_BARE, SATP_MODE_SV39}, asid : {0}, ppn : Root]

SCAUSE_IS_INT == WordSize \div 2
SCAUSE_TIMER  == SCAUSE_IS_INT + 5

\* struct priv_state, without the configuration the loader leaves in it and
\* the event counters, and with the pc slot of the interrupted context.
Hart == [pc : Word, priv_mode : {PRIV_U, PRIV_S},
         sstatus : Sstatus, sscratch : Word, stvec : Stvec,
         sepc : Word, scause : Word, stval : Word,
         sip : Six, sie : Six, satp : Satp,
         urvb_block_id : Word, urvb_buf : Word, should_clear_vm : BOOLEAN]

SetBit(s, b, on) == IF on THEN s \cup {b} ELSE s \ {b}
Masked(new, old, mask) == (new \cap mask) \cup (old \ mask)

\* The fields initialize_priv leaves alone are zero in a fresh CONFIG_FD.
initialize_priv(start) ==
    [pc |-> start, priv_mode |-> PRIV_S, sstatus |-> {"FS", "XS", "SD"},
     sscratch |-> 0, stvec |-> 0, sepc |-> 0, scause |-> 0, stval |-> 0,
     sip |-> {}, sie |-> {},
     satp |-> [mode |-> SATP_MODE_BARE, asid |-> 0, ppn |-> 0],
     urvb_block_id |-> 0, urvb_buf |-> 0, should_clear_vm |-> FALSE]

advance(h, n) == [h EXCEPT !.pc = (h.pc + n) % WordSize]

-----------------------------------------------------------------------------
(* CSR accesses *)

ImplementedCsr == {"sscratch", "stvec", "sepc", "sstatus", "sie", "sip",
                   "scause", "stval", "satp"}

\* The values an instruction may carry for a CSR.
CsrOperand(csr) == CASE csr = "sstatus"        -> SUBSET SstatusBit
                     [] csr \in {"sie", "sip"} -> SUBSET SixBit
                     [] csr = "satp"           -> [mode : 0..15, asid : Nat, ppn : Root]
                     [] OTHER                  -> Word

\* WARL: the reserved modes 2 and 3 read back as direct.
sanitize_stvec(v) == IF v % 4 \in {0, 1} THEN v ELSE v - (v % 4)

set_satp_asid_mutant(v, asid) == v
set_satp_asid(v, asid) == [v EXCEPT !.asid = asid]

read_csr(h, csr) == h[csr]

write_csr(h, csr, v) ==
    CASE csr = "sscratch" -> [h EXCEPT !.sscratch = v]
      [] csr = "stvec"    -> [h EXCEPT !.stvec = sanitize_stvec(v)]
      [] csr = "sepc"     -> [h EXCEPT !.sepc = v]
      [] csr = "sstatus"  -> [h EXCEPT !.sstatus =
                                Masked(v, h.sstatus, SSTATUS_WRITABLE_MASK)]
      [] csr = "sie"      -> [h EXCEPT !.sie = Masked(v, h.sie, SIX_WRITABLE_MASK)]
      [] csr = "sip"      -> [h EXCEPT !.sip = Masked(v, h.sip, SIX_WRITABLE_MASK)]
      [] csr = "scause"   -> [h EXCEPT !.scause = v]
      [] csr = "stval"    -> [h EXCEPT !.stval = v]
      [] csr = "satp"     ->
            IF v.mode \in {SATP_MODE_SV39, SATP_MODE_BARE}
            THEN [h EXCEPT !.satp = set_satp_asid(v, 0), !.should_clear_vm = TRUE]
            ELSE h

\* What csrrw, csrrs and csrrc write, for an operand of the CSR's own kind.
\* The bitwise result on a word or on satp is not computed: the operand of
\* csrrs and csrrc then stands for the word that results.
csr_operand(op, orig, v, csr) ==
    CASE op = "RS" /\ csr \in {"sstatus", "sie", "sip"} -> orig \cup v
      [] op = "RC" /\ csr \in {"sstatus", "sie", "sip"} -> orig \ v
      [] OTHER -> v

\* A CSR instruction; will_write is false for csrrs and csrrc with x0 or a
\* zero immediate.
csr_instr_mutant(h, csr, op, will_write, v) ==  \* the pc left at the instruction
    IF op = "RW" \/ will_write
    THEN write_csr(h, csr, csr_operand(op, read_csr(h, csr), v, csr))
    ELSE h
csr_instr(h, csr, op, will_write, v) ==
    IF op = "RW" \/ will_write
    THEN advance(write_csr(h, csr, csr_operand(op, read_csr(h, csr), v, csr)), 4)
    ELSE advance(h, 4)

-----------------------------------------------------------------------------
(* Traps *)

sfence_vma_mutant(h) == advance(h, 4)
sfence_vma(h) == advance([h EXCEPT !.should_clear_vm = TRUE], 4)

\* SPIE set before it is copied to SIE.
sret_mutant(h) ==
    LET st1 == SetBit(h.sstatus, "SPIE", TRUE)
        st2 == SetBit(SetBit(st1, "SIE", "SPIE" \in st1), "SPP", FALSE)
    IN  [h EXCEPT !.sstatus = st2,
                  !.priv_mode = IF "SPP" \in h.sstatus THEN PRIV_S ELSE PRIV_U,
                  !.should_clear_vm = TRUE,
                  !.pc = h.sepc]

\* No flush on the way to U-mode.
sret_flush_mutant(h) ==
    LET st1 == SetBit(h.sstatus, "SIE", "SPIE" \in h.sstatus)
        st2 == SetBit(SetBit(st1, "SPIE", TRUE), "SPP", FALSE)
    IN  [h EXCEPT !.sstatus = st2,
                  !.priv_mode = IF "SPP" \in h.sstatus THEN PRIV_S ELSE PRIV_U,
                  !.pc = h.sepc]

sret(h) ==
    LET toUser == "SPP" \notin h.sstatus
        st1    == SetBit(h.sstatus, "SIE", "SPIE" \in h.sstatus)
        st2    == SetBit(SetBit(st1, "SPIE", TRUE), "SPP", FALSE)
    IN  [h EXCEPT !.sstatus = st2,
                  !.priv_mode = IF toUser THEN PRIV_U ELSE PRIV_S,
                  !.should_clear_vm = toUser \/ h.should_clear_vm,
                  !.pc = h.sepc]

\* base + scause * 4 relies on the interrupt bit being multiplied away.
trap_target(h, scause) ==
    LET mode == h.stvec % 4
        base == h.stvec - mode
    IN  IF mode = 0 \/ scause < SCAUSE_IS_INT THEN base
        ELSE (base + scause * 4) % WordSize

enter_trap(h, scause, stval) ==
    LET st1 == SetBit(h.sstatus, "SPP", h.priv_mode = PRIV_S)
        st2 == SetBit(st1, "SPIE", "SIE" \in st1)
    IN  [h EXCEPT !.sepc = h.pc, !.scause = scause, !.stval = stval,
                  !.sstatus = SetBit(st2, "SIE", FALSE),
                  !.priv_mode = PRIV_S,
                  !.pc = trap_target(h, scause),
                  !.should_clear_vm = TRUE]

\* The condition at the end of handler() for taking the timer interrupt.
interrupt_due(h) == /\ "STI" \in h.sip
                    /\ "STI" \in h.sie
                    /\ "SIE" \in h.sstatus \/ h.priv_mode < PRIV_S

\* U-mode does not count as interrupts enabled.
take_interrupt_mutant(h) ==
    IF interrupt_due(h) /\ "SIE" \in h.sstatus THEN enter_trap(h, SCAUSE_TIMER, 0) ELSE h
take_interrupt(h) == IF interrupt_due(h) THEN enter_trap(h, SCAUSE_TIMER, 0) ELSE h
=============================================================================
