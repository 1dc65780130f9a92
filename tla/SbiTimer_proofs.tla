---------------------------- MODULE SbiTimer_proofs ----------------------------
(***************************************************************************)
(* sbi_set_timer loses no wake-up, for every set of deadlines whose        *)
(* intervals fit in a word (NoWrap); and it implements the timer with one  *)
(* deadline of SbiDeadline when the time CSR ticks at 1 MHz or faster, on  *)
(* kernels that keep a stale SIGALRM and on those that discard it.         *)
(***************************************************************************)
EXTENDS SbiTimer, TLAPS

USE TimerAssumption

\* The interval of a deadline ahead is not cut short.
LEMMA DeltaExact ==
    ASSUME NoWrap, TypeOK, arg0 \in Deadline, cur_time < arg0
    PROVE  delta_ns = (arg0 - cur_time) * 1000
<1> DEFINE x == (arg0 - cur_time) * 1000
<1>1. x \in Nat /\ x < WordSize
  BY DEF NoWrap, TypeOK
<1>2. x % WordSize = x
  <2> HIDE DEF x
  <2> QED BY <1>1
<1> QED BY <1>2 DEF delta_ns

LEMMA DeltaType == TypeOK => delta_ns \in Nat
<1> SUFFICES ASSUME TypeOK PROVE delta_ns \in Nat
  OBVIOUS
<1> DEFINE x == (arg0 - cur_time) * 1000
<1>1. x \in Int
  BY DEF TypeOK
<1> HIDE DEF x
<1>2. x % WordSize \in 0 .. (WordSize - 1)
  BY <1>1
<1> QED BY <1>2 DEF delta_ns, x

(***************************************************************************)
(* What each step does, with the Booleans as equivalences: the facts the   *)
(* proofs below start from.                                                *)
(***************************************************************************)
LEMMA TickStep ==
    ASSUME TypeOK, Tick
    PROVE  /\ pending' \in BOOLEAN /\ (pending' <=> pending \/ left \in 1..TickNs)
           /\ now' = IF now < MaxTime THEN now + 1 ELSE now
           /\ left' = IF left > TickNs THEN left - TickNs ELSE 0
           /\ left' \in Nat
           /\ UNCHANGED <<stage, arg0, cur_time, stip, timecmp, kept, stale, written, acts>>
<1>1. pending' \in BOOLEAN /\ (pending' <=> pending \/ left \in 1..TickNs)
  BY Zenon DEF Tick, TypeOK
<1> QED BY <1>1 DEF Tick, TypeOK

LEMMA SetTimeStep ==
    ASSUME TypeOK, SetTime
    PROVE  /\ pending' \in BOOLEAN /\ (pending' <=> pending /\ ~ DropStale)
           /\ kept' \in BOOLEAN /\ (kept' <=> pending')
           /\ left' = delta_ns /\ left' \in Nat
           /\ stage = "settime" /\ stage' = "sip"
           /\ UNCHANGED <<now, arg0, cur_time, stip, timecmp, stale, written, acts>>
<1>1. /\ pending' \in BOOLEAN /\ (pending' <=> pending /\ ~ DropStale)
      /\ kept' \in BOOLEAN /\ (kept' <=> pending')
  BY Zenon DEF SetTime, TypeOK
<1> QED BY <1>1, DeltaType DEF SetTime

LEMMA SetSipStep ==
    ASSUME TypeOK, SetSip
    PROVE  /\ stip' \in BOOLEAN /\ (stip' <=> arg0 <= cur_time)
           /\ stage = "sip" /\ stage' = "guest"
           /\ timecmp' = arg0 /\ stale' = kept /\ ~ written' /\ written' \in BOOLEAN
           /\ acts' = 1 - acts
           /\ UNCHANGED <<now, arg0, cur_time, left, pending, kept>>
<1>1. stip' \in BOOLEAN /\ (stip' <=> arg0 <= cur_time)
  <2>1. stip' = (arg0 <= cur_time)
    BY DEF SetSip
  <2>2. (arg0 <= cur_time) \in BOOLEAN
    OBVIOUS
  <2> QED BY <2>1, <2>2, Zenon
<1>2. ~ written' /\ written' \in BOOLEAN
  BY Zenon DEF SetSip
<1> QED BY <1>1, <1>2 DEF SetSip

LEMMA GuestSipStep ==
    ASSUME TypeOK, NEW b \in BOOLEAN, GuestSip(b)
    PROVE  /\ stip' = b /\ stip' \in BOOLEAN /\ written' /\ written' \in BOOLEAN
           /\ stage = "guest" /\ acts' = 1 - acts
           /\ UNCHANGED <<now, stage, arg0, cur_time, left, pending, timecmp, kept, stale>>
<1>1. stip' \in BOOLEAN /\ written' /\ written' \in BOOLEAN
  BY Zenon DEF GuestSip
<1> QED BY <1>1 DEF GuestSip, GuestRuns

-----------------------------------------------------------------------------
\* The booleans of TypeOK are those of Init.
LEMMA InitType == Init => TypeOK
<1> SUFFICES ASSUME Init PROVE TypeOK
  OBVIOUS
<1>1. /\ pending \in BOOLEAN /\ stip \in BOOLEAN
      /\ kept \in BOOLEAN /\ stale \in BOOLEAN /\ written \in BOOLEAN
  BY Zenon DEF Init
<1>2. now = 0 /\ stage = "guest" /\ arg0 = 0 /\ cur_time = 0 /\ left = 0 /\ timecmp = Never
      /\ acts = 0
  BY DEF Init
<1> QED BY <1>1, <1>2 DEF TypeOK, Never

\* Every step keeps the types, whether or not an interval leaves the word.
LEMMA NextType == TypeOK /\ [Next]_vars => TypeOK'
<1> SUFFICES ASSUME TypeOK, [Next]_vars PROVE TypeOK'
  OBVIOUS
<1> USE DEF TypeOK, Never
<1>1. CASE Tick
  BY <1>1, TickStep
<1>2. ASSUME NEW d \in Deadline, Call(d) PROVE TypeOK'
  BY <1>2 DEF Call
<1>3. CASE ReadTime
  BY <1>3 DEF ReadTime
<1>4. CASE SetTime
  BY <1>4, SetTimeStep
<1>5. CASE SetSip
  BY <1>5, SetSipStep
<1>6. CASE Sigalrm
  BY <1>6 DEF Sigalrm
<1>7. ASSUME NEW b \in BOOLEAN, GuestSip(b) PROVE TypeOK'
  BY <1>7, GuestSipStep
<1>8. CASE UNCHANGED vars
  BY <1>8 DEF vars
<1> QED BY <1>1, <1>2, <1>3, <1>4, <1>5, <1>6, <1>7, <1>8 DEF Next

(***************************************************************************)
(* The interval given to the host timer is never negative, for every       *)
(* deadline: one in the past or far ahead wraps to an unsigned interval.   *)
(***************************************************************************)
THEOREM TimerTypeCorrect == Spec => []TypeOK
BY InitType, NextType, PTL DEF Spec

-----------------------------------------------------------------------------
(***************************************************************************)
(* A call that has armed the timer for a deadline ahead has its signal     *)
(* pending or coming.  It is what WakeupNotLost needs at the return.       *)
(***************************************************************************)
Coming == stage = "sip" /\ cur_time < arg0 => pending \/ left > 0

\* The argument of a call being handled is a deadline of the guest.
InCall == stage # "guest" => arg0 \in Deadline

WakeInv == TypeOK /\ InCall /\ Coming /\ WakeupNotLost

LEMMA InitWakeInv == Init => WakeInv
<1> SUFFICES ASSUME Init PROVE WakeInv
  OBVIOUS
<1>1. TypeOK
  BY InitType
<1>2. stage = "guest" /\ timecmp = Never
  BY DEF Init
<1>3. InCall /\ Coming /\ WakeupNotLost
  BY <1>2 DEF InCall, Coming, WakeupNotLost
<1> QED BY <1>1, <1>3 DEF WakeInv

LEMMA NextWakeInv == NoWrap /\ WakeInv /\ [Next]_vars => WakeInv'
<1> SUFFICES ASSUME NoWrap, WakeInv, [Next]_vars PROVE WakeInv'
  OBVIOUS
<1> USE DEF WakeInv, TypeOK, InCall, Coming, WakeupNotLost, Never
<1>0. TypeOK /\ TypeOK'
  BY NextType
<1>1. CASE Tick
  BY <1>0, <1>1, TickStep
<1>2. ASSUME NEW d \in Deadline, Call(d) PROVE WakeInv'
  BY <1>0, <1>2 DEF Call, GuestRuns
<1>3. CASE ReadTime
  BY <1>0, <1>3 DEF ReadTime
<1>4. CASE SetTime
  <2>1. cur_time < arg0 => delta_ns > 0
    BY <1>0, <1>4, SetTimeStep, DeltaExact
  <2> QED BY <1>0, <1>4, <2>1, SetTimeStep
<1>5. CASE SetSip
  BY <1>0, <1>5, SetSipStep
<1>6. CASE Sigalrm
  BY <1>0, <1>6 DEF Sigalrm
<1>7. ASSUME NEW b \in BOOLEAN, GuestSip(b) PROVE WakeInv'
  BY <1>0, <1>7, GuestSipStep
<1>8. CASE UNCHANGED vars
  BY <1>0, <1>8 DEF vars
<1> QED BY <1>1, <1>2, <1>3, <1>4, <1>5, <1>6, <1>7, <1>8 DEF Next

(***************************************************************************)
(* Wherever the host timer expires in the handler, STIP is set or the      *)
(* signal that sets it is on its way, unless the guest has cleared STIP.   *)
(***************************************************************************)
THEOREM WakeupNeverLost == ASSUME NoWrap PROVE Spec => []WakeupNotLost
<1>1. WakeInv => WakeupNotLost
  BY DEF WakeInv
<1> QED BY <1>1, InitWakeInv, NextWakeInv, PTL DEF Spec

-----------------------------------------------------------------------------
(***************************************************************************)
(* Neither a pending signal, other than one left over (old), nor a running *)
(* timer belongs to an earlier deadline than t: the ns left are enough for *)
(* the ticks that are missing.                                             *)
(***************************************************************************)
NoneBefore(t, old) == /\ pending => t <= now \/ old
                      /\ left > 0 => (t - now) * TickNs <= left /\ t # Never

EarlyInv ==
    /\ TypeOK /\ InCall
    /\ stage \in {"settime", "sip"} => cur_time <= now
    /\ stage = "sip" => NoneBefore(arg0, kept) /\ (kept => timecmp <= now \/ stale)
    /\ stage # "sip" => NoneBefore(timecmp, stale)

LEMMA InitEarlyInv == Init => EarlyInv
<1> SUFFICES ASSUME Init PROVE EarlyInv
  OBVIOUS
<1>1. TypeOK
  BY InitType
<1>2. stage = "guest" /\ ~ pending /\ ~ (left > 0)
  BY DEF Init
<1> QED BY <1>1, <1>2 DEF EarlyInv, InCall, NoneBefore

\* A tick takes TickNs off both sides, and the last one reaches the deadline.
LEMMA TickArithmetic ==
    ASSUME NEW t \in Int, NEW n \in Int, NEW l \in Int, (t - n) * TickNs <= l
    PROVE  /\ (t - (n + 1)) * TickNs <= l - TickNs
           /\ l <= TickNs => t <= n + 1
<1> DEFINE x == t - n
<1>1. x \in Int /\ x * TickNs <= l
  OBVIOUS
<1>2. (x - 1) * TickNs = x * TickNs - TickNs
  BY <1>1
<1>3. t - (n + 1) = x - 1
  OBVIOUS
<1>4. ASSUME l <= TickNs PROVE x <= 1
  <2>1. SUFFICES ASSUME x >= 2 PROVE FALSE
    BY <1>1
  <2>2. x * TickNs >= 2 * TickNs
    <3>1. (x - 2) \in Nat /\ TickNs \in Nat
      BY <1>1, <2>1
    <3>2. (x - 2) * TickNs \in Nat
      BY <3>1
    <3>3. (x - 2) * TickNs = x * TickNs - 2 * TickNs
      BY <1>1
    <3> QED BY <3>2, <3>3, <1>1
  <2> QED BY <2>2, <1>1, <1>4
<1> QED BY <1>1, <1>2, <1>3, <1>4

\* The interval of a call is long enough when a tick takes no more than 1000 ns.
LEMMA IntervalEnough ==
    ASSUME FastClock, NEW a \in Int, NEW c \in Int, NEW n \in Int, c <= n, c < a
    PROVE  (a - n) * TickNs <= (a - c) * 1000
<1> DEFINE y == a - c
           k == n - c
<1>1. y \in Nat /\ k \in Nat /\ a - n = y - k
  OBVIOUS
<1>2. y * TickNs <= y * 1000
  <2>1. (1000 - TickNs) \in Nat
    BY DEF FastClock
  <2>2. y * (1000 - TickNs) \in Nat
    BY <1>1, <2>1
  <2>3. y * (1000 - TickNs) = y * 1000 - y * TickNs
    BY <1>1
  <2> QED BY <1>1, <2>2, <2>3
<1>3. k * TickNs \in Nat
  BY <1>1
<1>4. (y - k) * TickNs = y * TickNs - k * TickNs
  BY <1>1
<1> QED BY <1>1, <1>2, <1>3, <1>4

LEMMA TickNoneBefore ==
    ASSUME TypeOK, Tick, NEW t \in 0..Never, NEW old \in BOOLEAN, NoneBefore(t, old)
    PROVE  /\ pending' => t <= now' \/ old
           /\ left' > 0 => (t - now') * TickNs <= left' /\ t # Never
<1> USE DEF TypeOK, Never
<1>1. CASE left > 0
  <2>1. (t - now) * TickNs <= left /\ t <= MaxTime
    BY <1>1 DEF NoneBefore
  <2>2. (t - (now + 1)) * TickNs <= left - TickNs /\ (left <= TickNs => t <= now + 1)
    BY <2>1, TickArithmetic
  <2>3. pending' => t <= now' \/ old
    BY <2>1, <2>2, TickStep DEF NoneBefore
  <2>4. ASSUME left' > 0 PROVE (t - now') * TickNs <= left'
    <3>1. left' = left - TickNs
      BY <2>4, TickStep
    <3>2. CASE now < MaxTime
      BY <2>2, <3>1, <3>2, TickStep
    <3>3. CASE now = MaxTime
      <4>1. now' = now
        BY <3>3, TickStep
      <4>2. (now - t) * TickNs \in Nat
        BY <2>1, <3>3
      <4>3. (t - now) * TickNs = - ((now - t) * TickNs)
        OBVIOUS
      <4> HIDE DEF TypeOK
      <4>4. left' \in Nat
        BY TickStep DEF TypeOK
      <4> QED BY <4>1, <4>2, <4>3, <4>4
    <3> QED BY <3>2, <3>3
  <2> QED BY <2>1, <2>3, <2>4
<1>2. CASE ~ (left > 0)
  BY <1>2, TickStep DEF NoneBefore
<1> QED BY <1>1, <1>2

LEMMA NextEarlyInv == NoWrap /\ FastClock /\ EarlyInv /\ [Next]_vars => EarlyInv'
<1> SUFFICES ASSUME NoWrap, FastClock, EarlyInv, [Next]_vars PROVE EarlyInv'
  OBVIOUS
<1>0. TypeOK /\ TypeOK'
  BY NextType DEF EarlyInv
<1> USE DEF EarlyInv, InCall
<1>1. CASE Tick
  <2>1. /\ stage' = stage /\ arg0' = arg0 /\ cur_time' = cur_time /\ timecmp' = timecmp
        /\ kept' = kept /\ stale' = stale /\ now <= now'
    BY <1>0, <1>1, TickStep DEF TypeOK
  <2>2. ASSUME stage = "sip" PROVE NoneBefore(arg0, kept)'
    <3>1. arg0 \in 0..Never /\ kept \in BOOLEAN
      BY <1>0 DEF TypeOK, Never
    <3>2. NoneBefore(arg0, kept)
      BY <2>2
    <3>3. /\ pending' => arg0 <= now' \/ kept
          /\ left' > 0 => (arg0 - now') * TickNs <= left' /\ arg0 # Never
      BY <1>0, <1>1, <3>1, <3>2, TickNoneBefore
    <3> QED BY <2>1, <3>3 DEF NoneBefore
  <2>3. stage # "sip" => NoneBefore(timecmp, stale)'
    BY <1>0, <1>1, <2>1, TickNoneBefore DEF NoneBefore, TypeOK, Never
  <2>4. cur_time <= now => cur_time' <= now'
    BY <1>0, <2>1 DEF TypeOK
  <2>5. timecmp <= now => timecmp' <= now'
    BY <1>0, <2>1 DEF TypeOK, Never
  <2> QED BY <1>0, <2>1, <2>2, <2>3, <2>4, <2>5
<1>2. ASSUME NEW d \in Deadline, Call(d) PROVE EarlyInv'
  BY <1>0, <1>2 DEF Call, GuestRuns, NoneBefore
<1>3. CASE ReadTime
  BY <1>0, <1>3 DEF ReadTime, NoneBefore, TypeOK
<1>4. CASE SetTime
  <2>1. arg0 \in Deadline /\ cur_time <= now /\ NoneBefore(timecmp, stale)
    BY <1>0, <1>4, SetTimeStep
  <2>2. cur_time < arg0 => (arg0 - now) * TickNs <= delta_ns
    BY <1>0, <2>1, DeltaExact, IntervalEnough DEF TypeOK
  <2>3. ~ (cur_time < arg0) => (arg0 - now) * TickNs <= 0
    <3>1. ASSUME ~ (cur_time < arg0) PROVE now - arg0 \in Nat
      BY <1>0, <2>1, <3>1 DEF TypeOK
    <3>2. ASSUME now - arg0 \in Nat PROVE (now - arg0) * TickNs \in Nat
      BY <3>2
    <3>3. (arg0 - now) * TickNs = - ((now - arg0) * TickNs)
      BY <1>0 DEF TypeOK
    <3> QED BY <3>1, <3>2, <3>3
  <2>4. left' = delta_ns /\ left' \in Nat
    BY <1>0, <1>4, SetTimeStep
  <2>5. (arg0 - now) * TickNs <= left' /\ arg0 # Never
    <3>1. arg0 \in 0..MaxTime /\ now \in 0..MaxTime /\ cur_time \in 0..MaxTime
      BY <1>0 DEF TypeOK
    <3>2. (arg0 - now) * TickNs \in Int
      BY <3>1
    <3> QED BY <2>2, <2>3, <2>4, <3>1, <3>2 DEF Never
  <2>6. NoneBefore(arg0, kept)'
    BY <1>0, <1>4, <2>5, SetTimeStep DEF NoneBefore
  <2>7. kept' => timecmp' <= now' \/ stale'
    BY <1>0, <1>4, <2>1, SetTimeStep DEF NoneBefore
  <2> QED BY <1>0, <1>4, <2>1, <2>6, <2>7, SetTimeStep
<1>5. CASE SetSip
  BY <1>0, <1>5, SetSipStep DEF NoneBefore
<1>6. CASE Sigalrm
  BY <1>0, <1>6 DEF Sigalrm, NoneBefore
<1>7. ASSUME NEW b \in BOOLEAN, GuestSip(b) PROVE EarlyInv'
  BY <1>0, <1>7, GuestSipStep DEF NoneBefore
<1>8. CASE UNCHANGED vars
  BY <1>0, <1>8 DEF vars, NoneBefore
<1> QED BY <1>1, <1>2, <1>3, <1>4, <1>5, <1>6, <1>7, <1>8 DEF Next

-----------------------------------------------------------------------------
(* The abstract specification *)

\* A step of the call, of the clock, of the signal or of the guest is one of
\* the promise.
LEMMA PromiseStep ==
    ASSUME EarlyInv, [Next]_vars
    PROVE  [Promise!Next]_(Promise!deadlineVars)
<1> USE DEF Promise!deadlineVars, Promise!Next
<1>0. TypeOK
  BY DEF EarlyInv
<1>1. CASE Tick
  BY <1>1 DEF Tick, Promise!Tick
<1>2. CASE (\E d \in Deadline : Call(d)) \/ ReadTime \/ SetTime
  BY <1>2 DEF Call, ReadTime, SetTime
<1>3. CASE SetSip
  <2>1. /\ stage = "sip" /\ timecmp' = arg0 /\ now' = now /\ stale' = kept
        /\ acts' = 1 - acts
        /\ stip' \in BOOLEAN /\ (stip' <=> arg0 <= cur_time)
    BY <1>0, <1>3, SetSipStep
  <2>2. arg0 \in Deadline /\ cur_time <= now /\ (kept => timecmp <= now \/ stale)
    BY <2>1 DEF EarlyInv, InCall
  <2>3. stip' => arg0 <= now
    BY <1>0, <2>1, <2>2 DEF TypeOK
  <2>4. stip' \in {FALSE, arg0 <= now}
    <3>1. (arg0 <= now) \in BOOLEAN
      OBVIOUS
    <3> QED BY <2>1, <2>3, <3>1, Zenon
  <2>5. stale' \in {FALSE, timecmp <= now \/ stale}
    <3>1. (timecmp <= now) \in BOOLEAN /\ kept \in BOOLEAN /\ stale \in BOOLEAN
      BY <1>0 DEF TypeOK
    <3> QED BY <2>1, <2>2, <3>1, Zenon
  <2>6. written' = FALSE
    BY <1>3 DEF SetSip
  <2> QED BY <2>1, <2>2, <2>4, <2>5, <2>6 DEF Promise!SetTimer
<1>4. CASE Sigalrm
  <2>1. timecmp <= now \/ stale
    BY <1>4 DEF Sigalrm, EarlyInv, NoneBefore
  <2> QED BY <1>4, <2>1 DEF Sigalrm, Promise!Raise
<1>5. ASSUME NEW b \in BOOLEAN, GuestSip(b) PROVE Promise!Next
  BY <1>5 DEF GuestSip, Promise!GuestSip
<1>6. CASE UNCHANGED vars
  BY <1>6 DEF vars
<1> QED BY <1>1, <1>2, <1>3, <1>4, <1>5, <1>6 DEF Next

(***************************************************************************)
(* sbi_set_timer, with the host timer, the clock, SIGALRM and the guest's  *)
(* writes of sip around it, implements the timer with one deadline that    *)
(* the guest is promised, with at most one early raise after a call, by a  *)
(* signal of an earlier deadline.                                          *)
(***************************************************************************)
THEOREM DeadlineRefinement == ASSUME NoWrap, FastClock PROVE Spec => DeadlineKept
<1>1. Init => Promise!Init
  BY DEF Init, Promise!Init, Never, Promise!Never
<1>2. EarlyInv /\ [Next]_vars => [Promise!Next]_(Promise!deadlineVars)
  BY PromiseStep
<1> QED BY <1>1, <1>2, InitEarlyInv, NextEarlyInv, PTL DEF Spec, DeadlineKept, Promise!Spec
=============================================================================
