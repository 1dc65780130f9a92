----------------------------- MODULE TestKernel -----------------------------
(***************************************************************************)
(* The repository's own guest, src/test-kernel: kernel_main goes to        *)
(* U-mode, umode prints a text with one ecall per character for ever, and  *)
(* the trap handler stvec prints the character and returns behind the      *)
(* ecall.  It never writes satp.  Instructions that the host executes      *)
(* without a signal (moves, the handler's stack) are left out; the         *)
(* addresses are four bytes apart as the remaining ones are.               *)
(***************************************************************************)
EXTENDS UrvirtStub

CONSTANTS umode, stvec      \* the addresses of the two functions

\* An instruction of the kernel at address a.
Instr(a, action) == hart.pc = a /\ action

kernel_main ==
    \/ Instr(KernelStart, CsrInstr("sstatus", "RC", TRUE, {"SPP"}))
    \/ Instr(KernelStart + 4, CsrInstr("stvec", "RW", TRUE, stvec))
    \/ Instr(KernelStart + 8, CsrInstr("sepc", "RW", TRUE, umode))
    \/ Instr(KernelStart + 12, Sret)

\* An ecall, and the jump back to it for the next character.
umode_loop == \/ Instr(umode, EcallFromUser)
              \/ Instr(umode + 4, GuestJump(umode))

\* sepc and sstatus are saved before the ecall and written back after it:
\* nothing else changes them in between.
stvec_handler ==
    \/ Instr(stvec, CsrInstr("sstatus", "RS", FALSE, {}))
    \/ Instr(stvec + 4, CsrInstr("sepc", "RS", FALSE, 0))
    \/ Instr(stvec + 8, SbiPlain)
    \/ Instr(stvec + 12, CsrInstr("sepc", "RW", TRUE, (hart.sepc + 4) % WordSize))
    \/ Instr(stvec + 16, CsrInstr("sstatus", "RW", TRUE, hart.sstatus))
    \/ Instr(stvec + 20, Sret)

TestKernelNext == kernel_main \/ umode_loop \/ stvec_handler \/ Sigsegv \/ Stopped

TestKernelSpec == Init /\ [][TestKernelNext]_vars

(***************************************************************************)
(* "I wrote this with ecall from user mode", in an endless loop: the test  *)
(* kernel keeps running.                                                   *)
(***************************************************************************)
KeepsPrinting == status = "running"
=============================================================================
