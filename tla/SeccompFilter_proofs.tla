------------------------- MODULE SeccompFilter_proofs -------------------------
(***************************************************************************)
(* The generated filter is exact for every range of addresses, whatever    *)
(* the width of a half word.                                               *)
(***************************************************************************)
EXTENDS SeccompFilter, TLAPS

Word == 0 .. (Half * Half - 1)

LEMMA TimesMonotone ==
    ASSUME NEW n \in Nat, NEW x \in Int, NEW y \in Int, x <= y
    PROVE  x * n <= y * n
<1> DEFINE d == y - x
<1>1. d \in Nat /\ y = x + d
  OBVIOUS
<1>2. d * n \in Nat
  BY <1>1
<1>3. (x + d) * n = x * n + d * n
  BY <1>1
<1>4. x * n \in Int
  OBVIOUS
<1> HIDE DEF d
<1> QED BY <1>1, <1>2, <1>3, <1>4

\* An address is its two halves put together, and the low half is a half word.
LEMMA Halves ==
    ASSUME NEW a \in Word
    PROVE  /\ high(a) \in 0 .. (Half - 1)
           /\ low(a) \in 0 .. (Half - 1)
           /\ a = high(a) * Half + low(a)
<1> DEFINE q == a \div Half
           r == a % Half
<1>1. a = q * Half + r /\ r \in 0 .. (Half - 1) /\ q \in Int /\ a \in Nat /\ a < Half * Half
  BY HalfAssumption DEF Word
<1> HIDE DEF q, r
<1>2. q >= 0
  <2>1. SUFFICES ASSUME q <= -1 PROVE FALSE
    BY <1>1
  <2>2. q * Half <= (-1) * Half
    BY <1>1, <2>1, HalfAssumption, TimesMonotone
  <2>3. (-1) * Half = - Half /\ q * Half \in Int
    BY <1>1, HalfAssumption
  <2> QED BY <1>1, <2>2, <2>3, HalfAssumption
<1>3. q <= Half - 1
  <2>1. SUFFICES ASSUME Half <= q PROVE FALSE
    BY <1>1, HalfAssumption
  <2>2. Half * Half <= q * Half
    BY <1>1, <2>1, HalfAssumption, TimesMonotone
  <2>3. Half * Half \in Int /\ q * Half \in Int
    BY <1>1, HalfAssumption
  <2> QED BY <1>1, <2>2, <2>3, HalfAssumption
<1> QED BY <1>1, <1>2, <1>3, HalfAssumption DEF high, low, q, r

\* Addresses are ordered as their halves are.
LEMMA HalvesOrder ==
    ASSUME NEW a \in Word, NEW b \in Word
    PROVE  /\ high(a) > high(b) => a > b
           /\ high(a) = high(b) => (a >= b <=> low(a) >= low(b))
<1>1. /\ high(a) \in Nat /\ high(b) \in Nat
      /\ low(a) \in 0 .. (Half - 1) /\ low(b) \in 0 .. (Half - 1)
      /\ a = high(a) * Half + low(a)
      /\ b = high(b) * Half + low(b)
      /\ a \in Nat /\ b \in Nat
  BY Halves DEF Word
<1>2. ASSUME high(a) > high(b) PROVE a > b
  <2>1. high(a) * Half >= (high(b) + 1) * Half
    BY <1>1, <1>2, HalfAssumption, TimesMonotone
  <2>2. (high(b) + 1) * Half = high(b) * Half + Half
    BY <1>1, HalfAssumption
  <2> QED BY <1>1, <2>1, <2>2, HalfAssumption
<1>3. ASSUME high(a) = high(b) PROVE a >= b <=> low(a) >= low(b)
  <2> DEFINE base == high(a) * Half
  <2>1. base \in Int
    BY <1>1, HalfAssumption
  <2>2. a = base + low(a) /\ b = base + low(b)
    BY <1>1, <1>3
  <2> HIDE DEF base
  <2> QED BY <1>1, <2>1, <2>2
<1> QED BY <1>2, <1>3

-----------------------------------------------------------------------------
(***************************************************************************)
(* What is known of the instruction pointer before each instruction.       *)
(***************************************************************************)
AfterStart == start <= ip
Inside     == start <= ip /\ ip < end
Outside    == ip < start \/ end <= ip

Known ==
    /\ at = 1 => acc = high(ip)
    /\ at \in {2, 3} => high(ip) = high(start)
    /\ at = 3 => acc = low(ip)
    /\ at = 4 => acc = high(ip) /\ high(ip) # high(start)
    /\ at \in 5..9 => AfterStart
    /\ at = 6 => acc = high(ip)
    /\ at \in {7, 8} => high(ip) = high(end)
    /\ at = 8 => acc = low(ip)
    /\ at = 9 => acc = high(ip) /\ high(ip) # high(end)
    /\ at = 10 => Inside
    /\ at = 11 => Outside

\* A verdict is given at one of the two return instructions.
Given == /\ verdict = "allow" => at = 10
         /\ verdict = "trap"  => at = 11

FilterInv == TypeOK /\ Known /\ Given

LEMMA InitFilterInv == Init => FilterInv
BY HalfAssumption DEF Init, FilterInv, TypeOK, Known, Given, Verdict

\* The instruction at each index.
LEMMA Program ==
    /\ at \in {0, 5} => insn = load_high
    /\ at \in {2, 7} => insn = load_low
    /\ at = 1 => insn = BPF_JUMP("jeq", high(start), 0, 2)
    /\ at = 3 => insn = BPF_JUMP("jge", low(start), 1, 7)
    /\ at = 4 => insn = BPF_JUMP("jgt", high(start), 0, 6)
    /\ at = 6 => insn = BPF_JUMP("jeq", high(end), 0, 2)
    /\ at = 8 => insn = BPF_JUMP("jge", low(end), 2, 1)
    /\ at = 9 => insn = BPF_JUMP("jgt", high(end), 1, 0)
    /\ at = 10 => insn = SECCOMP_RET_ALLOW
    /\ at = 11 => insn = SECCOMP_RET_TRAP
<1> DEFINE F == filt
<1>1. /\ F[1] = load_high /\ F[6] = load_high
      /\ F[3] = load_low /\ F[8] = load_low
      /\ F[2] = BPF_JUMP("jeq", high(start), 0, 2)
      /\ F[4] = BPF_JUMP("jge", low(start), 1, 7)
      /\ F[5] = BPF_JUMP("jgt", high(start), 0, 6)
      /\ F[7] = BPF_JUMP("jeq", high(end), 0, 2)
      /\ F[9] = BPF_JUMP("jge", low(end), 2, 1)
      /\ F[10] = BPF_JUMP("jgt", high(end), 1, 0)
      /\ F[11] = SECCOMP_RET_ALLOW
      /\ F[12] = SECCOMP_RET_TRAP
  BY DEF filt, gen_addr_filter
<1>2. insn = F[at + 1]
  BY DEF insn
<1> HIDE DEF F
<1> QED BY <1>1, <1>2

USE DEF load_high, load_low, BPF_JUMP, SECCOMP_RET_ALLOW, SECCOMP_RET_TRAP

LEMMA NextFilterInv == FilterInv /\ [Next]_vars => FilterInv'
<1> SUFFICES ASSUME FilterInv, [Next]_vars PROVE FilterInv'
  OBVIOUS
<1>0. /\ start \in Word /\ end \in Word /\ ip \in Word
      /\ start \in Int /\ end \in Int /\ ip \in Int
  <2>1. /\ \A a \in Addr : a \in Word
        /\ \A a \in Word : a \in Int
    BY AddrAssumption DEF Word
  <2> QED BY <2>1 DEF FilterInv, TypeOK
<1>h. /\ high(ip) \in 0 .. (Half - 1) /\ low(ip) \in 0 .. (Half - 1)
      /\ high(start) \in Int /\ low(start) \in Int
      /\ high(end) \in Int /\ low(end) \in Int
      /\ acc \in Int
  BY <1>0, Halves DEF FilterInv, TypeOK
<1>1. CASE BpfLoad
  <2>1. at \in {0, 2, 5, 7}
    BY <1>1, Program DEF BpfLoad, Running, FilterInv, TypeOK
  <2>2. acc' = (IF at \in {0, 5} THEN high(ip) ELSE low(ip)) /\ at' = at + 1
    BY <1>1, <2>1, Program DEF BpfLoad
  <2>3. start' = start /\ end' = end /\ ip' = ip /\ verdict' = "none" /\ verdict = "none"
    BY <1>1 DEF BpfLoad, Running
  <2> QED BY <1>h, <2>1, <2>2, <2>3
          DEF FilterInv, TypeOK, Known, Given, AfterStart, Verdict, high, low
<1>2. ASSUME \/ BpfJump("jeq", acc = insn.k)
             \/ BpfJump("jge", acc >= insn.k)
             \/ BpfJump("jgt", acc > insn.k)
      PROVE  FilterInv'
  <2>1. at \in {1, 3, 4, 6, 8, 9}
    BY <1>2, Program DEF BpfJump, Running, FilterInv, TypeOK
  <2>2. start' = start /\ end' = end /\ ip' = ip /\ acc' = acc
        /\ verdict' = "none" /\ verdict = "none"
    BY <1>2 DEF BpfJump, Running
  <2>3. high(ip)' = high(ip) /\ low(ip)' = low(ip)
        /\ high(start)' = high(start) /\ high(end)' = high(end)
    BY <2>2 DEF high, low
  <2>4. CASE at = 1
    <3>1. at' = IF acc = high(start) THEN 2 ELSE 4
      BY <1>2, <2>4, Program DEF BpfJump, Running
    <3> QED BY <2>2, <2>3, <2>4, <3>1 DEF FilterInv, TypeOK, Known, Given, Verdict
  <2>5. CASE at = 3
    <3>1. at' = IF acc >= low(start) THEN 5 ELSE 11
      BY <1>2, <2>5, Program DEF BpfJump, Running
    <3>2. ip >= start <=> acc >= low(start)
      BY <1>0, <2>5, HalvesOrder DEF FilterInv, Known
    <3> QED BY <1>0, <2>2, <2>3, <2>5, <3>1, <3>2
            DEF FilterInv, TypeOK, Known, Given, AfterStart, Outside, Verdict
  <2>6. CASE at = 4
    <3>1. at' = IF acc > high(start) THEN 5 ELSE 11
      BY <1>2, <2>6, Program DEF BpfJump, Running
    <3>2. /\ acc > high(start) => ip >= start
          /\ ~ (acc > high(start)) => ip < start
      BY <1>0, <1>h, <2>6, HalvesOrder DEF FilterInv, Known
    <3> QED BY <1>0, <2>2, <2>3, <2>6, <3>1, <3>2
            DEF FilterInv, TypeOK, Known, Given, AfterStart, Outside, Verdict
  <2>7. CASE at = 6
    <3>1. at' = IF acc = high(end) THEN 7 ELSE 9
      BY <1>2, <2>7, Program DEF BpfJump, Running
    <3> QED BY <2>2, <2>3, <2>7, <3>1
            DEF FilterInv, TypeOK, Known, Given, AfterStart, Verdict
  <2>8. CASE at = 8
    <3>1. at' = IF acc >= low(end) THEN 11 ELSE 10
      BY <1>2, <2>8, Program DEF BpfJump, Running
    <3>2. ip >= end <=> acc >= low(end)
      BY <1>0, <2>8, HalvesOrder DEF FilterInv, Known
    <3> QED BY <1>0, <2>2, <2>3, <2>8, <3>1, <3>2
            DEF FilterInv, TypeOK, Known, Given, AfterStart, Inside, Outside, Verdict
  <2>9. CASE at = 9
    <3>1. at' = IF acc > high(end) THEN 11 ELSE 10
      BY <1>2, <2>9, Program DEF BpfJump, Running
    <3>2. /\ acc > high(end) => ip >= end
          /\ ~ (acc > high(end)) => ip < end
      BY <1>0, <1>h, <2>9, HalvesOrder DEF FilterInv, Known
    <3> QED BY <1>0, <2>2, <2>3, <2>9, <3>1, <3>2
            DEF FilterInv, TypeOK, Known, Given, AfterStart, Inside, Outside, Verdict
  <2> QED BY <2>1, <2>4, <2>5, <2>6, <2>7, <2>8, <2>9
<1>3. CASE BpfReturn
  <2>1. at \in {10, 11}
    BY <1>3, Program DEF BpfReturn, Running, FilterInv, TypeOK
  <2>2. verdict' = IF at = 10 THEN "allow" ELSE "trap"
    BY <1>3, <2>1, Program DEF BpfReturn
  <2> QED BY <1>3, <2>1, <2>2
          DEF BpfReturn, FilterInv, TypeOK, Known, Given, Inside, Outside, Verdict
<1>4. ASSUME NEW a \in Addr, NextSyscall(a) PROVE FilterInv'
  BY <1>4, HalfAssumption DEF NextSyscall, FilterInv, TypeOK, Known, Given, Verdict
<1>5. CASE UNCHANGED vars
  BY <1>5 DEF vars, FilterInv, TypeOK, Known, Given, AfterStart, Inside, Outside, high, low
<1> QED BY <1>1, <1>2, <1>3, <1>4, <1>5 DEF Next, Step

(***************************************************************************)
(* No jump of the program leaves it, for every range: the hand-counted     *)
(* offsets always land on one of the twelve instructions.                  *)
(***************************************************************************)
THEOREM FilterTypeCorrect == Spec => []TypeOK
<1>1. FilterInv => TypeOK
  BY DEF FilterInv
<1> QED BY <1>1, InitFilterInv, NextFilterInv, PTL DEF Spec

(***************************************************************************)
(* gen_addr_filter tells the stub's system calls from the guest's exactly, *)
(* for every range, every instruction pointer and every width of a word.   *)
(***************************************************************************)
THEOREM FilterExactAlways == Spec => []FilterExact
<1>1. FilterInv => FilterExact
  BY DEF FilterInv, Known, Given, Inside, Outside, FilterExact
<1> QED BY <1>1, InitFilterInv, NextFilterInv, PTL DEF Spec
=============================================================================
