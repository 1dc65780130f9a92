------------------------------- MODULE SbiTimer -------------------------------
(***************************************************************************)
(* sbi_set_timer looked at from inside.  The handler reads the time, arms  *)
(* the host timer with the difference, and then sets sip.STIP; the clock   *)
(* runs on and the host timer may expire between any two of these.  SIGALRM*)
(* is masked until the handler returns, so an expiry leaves the signal     *)
(* pending.  UrvirtStub takes the whole call as one step.                  *)
(*                                                                         *)
(* The time CSR counts ticks, the host timer nanoseconds.  The code takes a*)
(* tick for 1000 ns; how long one really takes, TickNs, the code cannot    *)
(* know.  The clock stops at MaxTime, which stands for all later times; the*)
(* host timer goes on counting.                                            *)
(***************************************************************************)
EXTENDS Integers

CONSTANTS
    WordSize,   \* number of values of a uintptr_t
    MaxTime,    \* the last time told apart
    Deadline,   \* the arguments of the guest's calls
    TickNs,     \* the ns that a tick of the time CSR really takes
    DropStale   \* timer_settime discards a SIGALRM already pending: FALSE on
                \* the kernels of urvirt's time, TRUE since Linux 6.13

ASSUME TimerAssumption ==
    /\ WordSize \in Nat \ {0}
    /\ MaxTime \in Nat
    /\ Deadline \subseteq 0..MaxTime
    /\ TickNs \in Nat \ {0}
    /\ DropStale \in BOOLEAN

\* No deadline is so far away that the interval in ns leaves the word.
NoWrap == \A d \in Deadline : d * 1000 < WordSize

\* The time CSR ticks at 1 MHz or faster.
FastClock == TickNs <= 1000

Never == MaxTime + 1

VARIABLES
    now,        \* the time CSR
    stage,      \* where the process is: in the guest, or before a step of the call
    arg0,       \* the argument of the call being handled
    cur_time,   \* what the call read from the time CSR
    left,       \* ns until the host timer expires, 0 when disarmed
    pending,    \* SIGALRM is pending
    stip,       \* sip.STIP
    timecmp,    \* history: the deadline of the last completed call
    kept,       \* history: a SIGALRM was pending when the call armed the timer
    stale,      \* history: and is still pending after that call
    written,    \* history: the guest has written sip.STIP since that call
    acts        \* history: flips with every call that returns and every such write

vars == <<now, stage, arg0, cur_time, left, pending, stip, timecmp,
          kept, stale, written, acts>>

TypeOK == /\ now \in 0..MaxTime
          /\ stage \in {"guest", "read", "settime", "sip"}
          /\ arg0 \in 0..MaxTime
          /\ cur_time \in 0..MaxTime
          /\ left \in Nat
          /\ pending \in BOOLEAN
          /\ stip \in BOOLEAN
          /\ timecmp \in 0..Never
          /\ kept \in BOOLEAN /\ stale \in BOOLEAN /\ written \in BOOLEAN
          /\ acts \in {0, 1}

Init == /\ now = 0
        /\ stage = "guest"
        /\ arg0 = 0
        /\ cur_time = 0
        /\ left = 0
        /\ pending = FALSE
        /\ stip = FALSE
        /\ timecmp = Never
        /\ kept = FALSE /\ stale = FALSE /\ written = FALSE
        /\ acts = 0

\* A tick of the clock; the host timer may expire with it.
Tick == /\ now' = IF now < MaxTime THEN now + 1 ELSE now
        /\ left' = IF left > TickNs THEN left - TickNs ELSE 0
        /\ pending' = (pending \/ left \in 1..TickNs)
        /\ UNCHANGED <<stage, arg0, cur_time, stip, timecmp, kept, stale, written, acts>>

\* The guest executes an instruction: a signal that is pending and not masked
\* is delivered first.
GuestRuns == stage = "guest" /\ ~ pending

\* The guest's ecall; SIGALRM is masked from here on.
Call(d) == /\ GuestRuns
           /\ stage' = "read"
           /\ arg0' = d
           /\ UNCHANGED <<now, cur_time, left, pending, stip, timecmp, kept, stale, written, acts>>

ReadTime == /\ stage = "read"
            /\ stage' = "settime"
            /\ cur_time' = now
            /\ UNCHANGED <<now, arg0, left, pending, stip, timecmp, kept, stale, written, acts>>

\* The unsigned interval in ns.
delta_ns_mutant == (arg0 - cur_time) * 1000     \* signed
delta_ns == ((arg0 - cur_time) * 1000) % WordSize

\* A zero interval disarms the timer.
SetTime == /\ stage = "settime"
           /\ stage' = "sip"
           /\ left' = delta_ns
           /\ pending' = (pending /\ ~ DropStale)
           /\ kept' = pending'
           /\ UNCHANGED <<now, arg0, cur_time, stip, timecmp, stale, written, acts>>

\* The call returns, and SIGALRM is unmasked.
SetSip == /\ stage = "sip"
          /\ stage' = "guest"
          /\ stip' = (arg0 <= cur_time)
          /\ timecmp' = arg0 /\ stale' = kept /\ written' = FALSE
          /\ acts' = 1 - acts
          /\ UNCHANGED <<now, arg0, cur_time, left, pending, kept>>

\* The mutants: SIGALRM is not masked in the handler; it stays masked after it.
Sigalrm_mutant == /\ pending
                  /\ pending' = FALSE
                  /\ stip' = TRUE
                  /\ stale' = FALSE
                  /\ UNCHANGED <<now, stage, arg0, cur_time, left, timecmp, kept, written, acts>>
Sigalrm_masked_mutant == /\ stage = "guest" /\ timecmp = Never
                         /\ pending
                         /\ pending' = FALSE
                         /\ stip' = TRUE
                         /\ stale' = FALSE
                         /\ UNCHANGED <<now, stage, arg0, cur_time, left, timecmp, kept, written, acts>>
Sigalrm == /\ stage = "guest"
           /\ pending
           /\ pending' = FALSE
           /\ stip' = TRUE
           /\ stale' = FALSE
           /\ UNCHANGED <<now, stage, arg0, cur_time, left, timecmp, kept, written, acts>>

\* STIP is among the bits of sip that the guest's csr instructions write.
GuestSip(b) == /\ GuestRuns
               /\ stip' = b
               /\ written' = TRUE
               /\ acts' = 1 - acts
               /\ UNCHANGED <<now, stage, arg0, cur_time, left, pending, timecmp, kept, stale>>

Next == \/ Tick
        \/ \E d \in Deadline : Call(d)
        \/ ReadTime \/ SetTime \/ SetSip
        \/ Sigalrm
        \/ \E b \in BOOLEAN : GuestSip(b)

Spec == Init /\ [][Next]_vars

\* Time passes, the handler is straight-line code, and the kernel delivers a
\* pending signal once it is unmasked.
Fairness == /\ WF_vars(Tick)
            /\ WF_vars(ReadTime \/ SetTime \/ SetSip)
            /\ WF_vars(Sigalrm)

FairSpec == Spec /\ Fairness

-----------------------------------------------------------------------------
(***************************************************************************)
(* The wake-up is never lost: while the guest runs without STIP after a    *)
(* call, the signal is pending or the host timer is still going to send    *)
(* it, at whatever point of the call the timer expired and whatever signal *)
(* was left over, unless the guest has cleared STIP by itself.             *)
(***************************************************************************)
WakeupNotLost ==
    stage = "guest" /\ timecmp # Never /\ ~ stip /\ ~ written => pending \/ left > 0

(***************************************************************************)
(* "SBI set_timer maintains sip.STIP = (timecmp <= time)" (doc/notes.md),  *)
(* in the direction that signals threaten: STIP is never set before the    *)
(* deadline, unless the guest sets it by itself.                           *)
(***************************************************************************)
NotEarly == stage = "guest" /\ stip /\ ~ written => timecmp <= now

(***************************************************************************)
(* "sip.STIP is taken some time after time >= stime_value": once the       *)
(* deadline has passed, STIP gets set, unless the guest sets another one   *)
(* or writes STIP.                                                         *)
(***************************************************************************)
DeadlineHonoured ==
    stage = "guest" /\ timecmp <= now ~> stip \/ written \/ stage # "guest"

(***************************************************************************)
(* What the guest may rely on: the four steps of the call, the clock, the  *)
(* signal and the guest's own writes do to STIP what SbiDeadline allows.   *)
(* A signal raises STIP early at most once after a call, and only one that *)
(* an earlier deadline had left pending; none that arrives in the middle   *)
(* of the call shows.                                                      *)
(***************************************************************************)
Promise == INSTANCE SbiDeadline

DeadlineKept == Promise!Spec
=============================================================================
