------------------------------ MODULE MCUrvirt ------------------------------
(***************************************************************************)
(* The instances of UrvirtStub that TLC checks: what the guest may do in   *)
(* each.  Words have eight bits and pages 32 bytes.                        *)
(***************************************************************************)
EXTENDS DocClaims, TLC

Leaf(ppn, flags) == [kind |-> "leaf", flags |-> flags, ppn |-> ppn]
Sv39(root) == [mode |-> SATP_MODE_SV39, asid |-> 1, ppn |-> root]
Bare       == [mode |-> SATP_MODE_BARE, asid |-> 0, ppn |-> 0]
BadMode    == [mode |-> 9, asid |-> 0, ppn |-> 1]

Insn32(opcode, funct3, rs2) ==
    [low |-> 3, opcode |-> opcode, funct3 |-> funct3, rs2 |-> rs2]
Insn16(low, funct3, rs2) ==
    [low |-> low, opcode |-> "OTHER", funct3 |-> funct3, rs2 |-> rs2]

\* A guest kernel that traps, returns and is interrupted, on one page.
TrapCsr == "stvec" :> {8, 9, 10} @@ "sepc" :> {0}
           @@ "sstatus" :> {{"SIE"}, {"SPP", "SPIE"}}
           @@ "sie" :> {{"SSI", "STI"}} @@ "sip" :> {{"STI"}}
           @@ "satp" :> {Sv39(1), BadMode} @@ "time" :> {0}
           @@ "sscratch" :> {0} @@ "scause" :> {0} @@ "stval" :> {0}
TrapPte == {Leaf(0, {"R", "W", "X"})}

\* A guest that maps, remaps and revokes a data page and its code page.
PagingCsr == "stvec" :> {8} @@ "sstatus" :> {{"SPP"}} @@ "satp" :> {Sv39(1)}
PagingPte == {NoPte, BrokenPte, Leaf(0, {"R", "W", "X"}), Leaf(0, {"X"}),
              Leaf(1, {"R"}), Leaf(1, {"R", "W"})}
PagingInsn == {Insn32("LOAD", 3, 0), Insn32("STORE", 3, 10),
               Insn16(0, 2, 8), Insn16(2, 6, 8), Insn32("AMO", 3, 11)}

\* A guest that switches between two address spaces, with their own frames.
SpaceCsr == "satp" :> {Sv39(0), Sv39(1), Sv39(2), Bare} @@ "stvec" :> {8}
SpacePte == {Leaf(0, {"R", "W", "X"}), Leaf(1, {"R", "W", "X"})}

\* A guest that drives the block device, mapped at page 4, with buffers on page
\* 0 and on page 3, which it maps to either page of RAM.  Blocks have 32 bytes.
BlockCsr == "satp" :> {Sv39(1)}
BlockPte == {Leaf(1, {"R", "W", "X"}), Leaf(0, {"R", "W"}), Leaf(5, {"R", "W"})}
BlockInsn == {Insn32("STORE", 3, 10), Insn32("STORE", 2, 10), Insn16(0, 7, 9)}

\* It maps its code at page 0 and its buffer at page 3, and is followed up to
\* its first trap or return to U-mode.
BlockGuest == /\ pt[1][0] \in {NoPte, Leaf(1, {"R", "W", "X"})}
              /\ pt[1][3] \in (BlockPte \cup {NoPte}) \ {Leaf(UrvbPage, {"R", "W"})}
              /\ pt[1][4] \in {NoPte, Leaf(UrvbPage, {"R", "W"})}
              /\ hart.scause = 0 /\ hart.priv_mode = PRIV_S

\* What a page holds is only ever copied.
DataSymmetry == Permutations(Data)

\* The guests of the runs that refute a sentence of the documentation.
CsdInsn     == {Insn16(0, 7, 9)}
SdZeroInsn  == {Insn32("STORE", 3, 0)}
BufferPte   == {Leaf(0, {"R", "W", "X"}), Leaf(1, {"R", "W"}), Leaf(5, {"R", "W"})}
=============================================================================
