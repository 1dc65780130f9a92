---------------------------- MODULE SeccompFilter ----------------------------
(***************************************************************************)
(* The seccomp program that tells the stub's system calls from the guest's *)
(* ecalls: the twelve instructions of gen_addr_filter, run by the kernel   *)
(* on every ecall of the process.  Classic BPF has 32-bit registers, so    *)
(* the program compares the two halves of the instruction pointer with     *)
(* the halves of the bounds, and its jumps are offsets counted by hand.    *)
(***************************************************************************)
EXTENDS Integers, Sequences

CONSTANTS
    Half,       \* number of values of a half word (2^32)
    Addr        \* the addresses considered

ASSUME HalfAssumption == Half \in Nat \ {0}
ASSUME AddrAssumption == Addr \subseteq 0 .. (Half * Half - 1)

high(a) == a \div Half
low(a)  == a % Half

\* Instructions: a load of half an ip, a conditional jump, a return.
load_high        == [op |-> "ld", k |-> 1, jt |-> 0, jf |-> 0]
load_low         == [op |-> "ld", k |-> 0, jt |-> 0, jf |-> 0]
BPF_JUMP(op, k, jt, jf) == [op |-> op, k |-> k, jt |-> jt, jf |-> jf]
SECCOMP_RET_ALLOW == [op |-> "ret", k |-> 1, jt |-> 0, jf |-> 0]
SECCOMP_RET_TRAP  == [op |-> "ret", k |-> 0, jt |-> 0, jf |-> 0]

\* The comment on each line is its index in the array of the source.  The
\* first mutant includes the end of the range, the second one leaves an
\* offset as it was before a line was taken out.
gen_addr_filter_mutant(start, end) == <<
    load_high,                                  \* 0
    BPF_JUMP("jeq", high(start), 0, 2),         \* 1
    load_low,                                   \* 2
    BPF_JUMP("jge", low(start), 1, 7),          \* 3
    BPF_JUMP("jgt", high(start), 0, 6),         \* 4
    load_high,                                  \* 5
    BPF_JUMP("jeq", high(end), 0, 2),           \* 6
    load_low,                                   \* 7
    BPF_JUMP("jgt", low(end), 2, 1),            \* 8
    BPF_JUMP("jgt", high(end), 1, 0),           \* 9
    SECCOMP_RET_ALLOW,                          \* 10
    SECCOMP_RET_TRAP >>                         \* 11

gen_addr_filter_jump_mutant(start, end) ==
    [gen_addr_filter_mutant(start, end) EXCEPT ![4].jf = 8, ![9].op = "jge"]

gen_addr_filter(start, end) == <<
    load_high,                                  \* 0
    BPF_JUMP("jeq", high(start), 0, 2),         \* 1
    load_low,                                   \* 2
    BPF_JUMP("jge", low(start), 1, 7),          \* 3
    BPF_JUMP("jgt", high(start), 0, 6),         \* 4
    load_high,                                  \* 5
    BPF_JUMP("jeq", high(end), 0, 2),           \* 6
    load_low,                                   \* 7
    BPF_JUMP("jge", low(end), 2, 1),            \* 8
    BPF_JUMP("jgt", high(end), 1, 0),           \* 9
    SECCOMP_RET_ALLOW,                          \* 10
    SECCOMP_RET_TRAP >>                         \* 11

VARIABLES
    start, end, \* the bounds the filter was generated for
    ip,         \* seccomp_data.instruction_pointer of this system call
    at,         \* the index of the next instruction of the program
    acc,        \* the accumulator
    verdict     \* "none" while the program runs, then "allow" or "trap"

vars == <<start, end, ip, at, acc, verdict>>

filt == gen_addr_filter(start, end)
insn == filt[at + 1]

Verdict == {"none", "allow", "trap"}

\* The types, and that no jump leaves the program.
TypeOK == /\ {start, end, ip} \subseteq Addr
          /\ at \in 0..11
          /\ acc \in 0 .. (Half - 1)
          /\ verdict \in Verdict

Init == /\ start \in Addr
        /\ end \in Addr
        /\ start <= end
        /\ ip \in Addr
        /\ at = 0
        /\ acc = 0
        /\ verdict = "none"

-----------------------------------------------------------------------------
(* The BPF interpreter *)

Running(op) == verdict = "none" /\ insn.op = op

BpfLoad == /\ Running("ld")
           /\ acc' = IF insn.k = 1 THEN high(ip) ELSE low(ip)
           /\ at' = at + 1
           /\ UNCHANGED <<start, end, ip, verdict>>

BpfJump(op, taken) ==
    /\ Running(op)
    /\ at' = at + 1 + (IF taken THEN insn.jt ELSE insn.jf)
    /\ UNCHANGED <<start, end, ip, acc, verdict>>

BpfReturn == /\ Running("ret")
             /\ verdict' = IF insn.k = 1 THEN "allow" ELSE "trap"
             /\ UNCHANGED <<start, end, ip, at, acc>>

\* The kernel runs the program again for the next system call of the process.
NextSyscall(a) == /\ verdict # "none"
                  /\ ip' = a
                  /\ at' = 0
                  /\ acc' = 0
                  /\ verdict' = "none"
                  /\ UNCHANGED <<start, end>>

Step == \/ BpfLoad
        \/ BpfJump("jeq", acc = insn.k)
        \/ BpfJump("jge", acc >= insn.k)
        \/ BpfJump("jgt", acc > insn.k)
        \/ BpfReturn

Next == Step \/ \E a \in Addr : NextSyscall(a)

Spec == Init /\ [][Next]_vars

-----------------------------------------------------------------------------
(***************************************************************************)
(* The filter allows a system call exactly when its instruction pointer is *)
(* in the stub's range, whichever halves the two bounds share and whatever *)
(* the low half does at a carry.                                           *)
(***************************************************************************)
FilterExact ==
    /\ verdict = "allow" => start <= ip /\ ip < end
    /\ verdict = "trap"  => ip < start \/ end <= ip
=============================================================================
