----------------------------- MODULE InsnDecode -----------------------------
(***************************************************************************)
(* The instruction decoding that the SIGSEGV path of the handler relies    *)
(* on: which kind of page fault a faulting instruction stands for, and     *)
(* which register an emulated MMIO store takes its data from.              *)
(*                                                                         *)
(* An instruction is the record of the fields the code looks at:           *)
(*   low     the two lowest bits (3 for a 32-bit instruction);             *)
(*   opcode  the major opcode, by name, of a 32-bit instruction;           *)
(*   funct3  bits 14..12 of a 32-bit, 15..13 of a 16-bit instruction;      *)
(*   rs2     the register number in the position of the store's source     *)
(*           (bits 24..20, or bits 6..2, with the "| 8" of c.sd applied).  *)
(***************************************************************************)
EXTENDS Integers

\* LOAD_FP and STORE_FP are opcodes of the ISA that riscv-bits.h does not name;
\* LR is the load-reserved instruction, which shares its opcode with AMO.
Opcode == {"LOAD", "STORE", "AMO", "LR", "SYSTEM", "LOAD_FP", "STORE_FP", "OTHER"}

Insn == [low : 0..3, opcode : Opcode, funct3 : 0..7, rs2 : 0..31]

\* The exception codes the stub raises (riscv-bits.h).
SCAUSE_ILLEGAL  == 2
SCAUSE_UECALL   == 8
SCAUSE_INSTR_PF == 12
SCAUSE_LOAD_PF  == 13
SCAUSE_STORE_PF == 15

\* An operator whose name ends in _mutant is the next definition with a bug
\* put in: the runs use it to show that their properties notice the bug.
rvc_looks_like_load(i)  == i.low \in {0, 2} /\ i.funct3 \in {1, 2, 3}
rvc_looks_like_store_mutant(i) == i.low \in {0, 2} /\ i.funct3 \in {5, 7}
rvc_looks_like_store(i) == i.low \in {0, 2} /\ i.funct3 \in {5, 6, 7}

(***************************************************************************)
(* The cause handler() assigns to a SIGSEGV whose address is not the pc.   *)
(***************************************************************************)
segv_scause(i) ==
    CASE i.low # 3 /\ rvc_looks_like_load(i)        -> SCAUSE_LOAD_PF
      [] i.low # 3 /\ rvc_looks_like_store(i)       -> SCAUSE_STORE_PF
      [] i.low = 3 /\ i.opcode = "LOAD"             -> SCAUSE_LOAD_PF
      [] i.low = 3 /\ i.opcode \in {"STORE", "AMO", "LR"} -> SCAUSE_STORE_PF
      [] OTHER                                      -> SCAUSE_INSTR_PF

(***************************************************************************)
(* "byte & 0b11 == 0b11" parses as "byte & (0b11 == 0b11)": the test that  *)
(* the MMIO path uses for a 32-bit instruction looks at the lowest bit     *)
(* only.                                                                   *)
(***************************************************************************)
lowest_bit_set(i) == i.low % 2 = 1

(***************************************************************************)
(* decode_sd, as the set of values it may return: the source register of a *)
(* doubleword store, or -1.  Control runs off the end of the function for  *)
(* a 32-bit instruction that is not a STORE, and then the value is         *)
(* undefined.                                                              *)
(***************************************************************************)
decode_sd(i) ==
    IF lowest_bit_set(i)
    THEN IF i.opcode = "STORE"
         THEN IF i.funct3 = 3 THEN {i.rs2} ELSE {-1}
         ELSE -1..31
    ELSE IF \/ i.low = 0 /\ i.funct3 = 7     \* c.sd
            \/ i.low = 2 /\ i.funct3 = 3     \* c.sdsp, in the code's words
         THEN {i.rs2}
         ELSE {-1}

\* How far the MMIO path advances the pc over the emulated store.
mmio_advance_mutant(i) == 4
mmio_advance(i) == IF lowest_bit_set(i) THEN 4 ELSE 2

-----------------------------------------------------------------------------
(***************************************************************************)
(* The ISA's own reading of the same fields, to compare the code with.     *)
(***************************************************************************)
InsnLength(i) == IF i.low = 3 THEN 4 ELSE 2

\* Instructions that read, and that write, data memory.
IsLoad(i)  == \/ i.low = 3 /\ i.opcode \in {"LOAD", "LOAD_FP", "LR"}
              \/ i.low \in {0, 2} /\ i.funct3 \in {1, 2, 3}
IsStore(i) == \/ i.low = 3 /\ i.opcode \in {"STORE", "STORE_FP", "AMO"}
              \/ i.low \in {0, 2} /\ i.funct3 \in {5, 6, 7}

\* Stores of a 64-bit integer register: sd, c.sd and c.sdsp.
IsStoreDoubleword(i) == \/ i.low = 3 /\ i.opcode = "STORE" /\ i.funct3 = 3
                        \/ i.low \in {0, 2} /\ i.funct3 = 7
=============================================================================
