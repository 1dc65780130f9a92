----------------------------- MODULE SbiDeadline -----------------------------
(***************************************************************************)
(* What sbi_set_timer promises the guest, without a host timer or a        *)
(* handler: there is one deadline, the one of the last call; STIP is       *)
(* raised at some time after it, and once raised it stays until the next   *)
(* call, which clears it unless its own deadline has passed, or until the  *)
(* guest writes it.  A call may miss that its deadline has just passed;    *)
(* STIP is then raised later.                                              *)
(*                                                                         *)
(* A call whose predecessor's deadline had passed may leave one signal     *)
(* behind (stale), which then raises STIP once whatever the new deadline.  *)
(*                                                                         *)
(* What the guest does can be seen (written, acts), so that a raise is     *)
(* never taken for a call or for a write of the guest's own.               *)
(***************************************************************************)
EXTENDS Integers

CONSTANTS
    MaxTime,    \* the last time told apart
    Deadline    \* the arguments of the guest's calls

Never == MaxTime + 1

VARIABLES
    now,        \* the time
    timecmp,    \* the deadline of the last call
    stip,       \* sip.STIP
    stale,      \* a signal of an earlier deadline was left behind
    written,    \* the guest has written STIP since the last call
    acts        \* flips with every call and every write of the guest

deadlineVars == <<now, timecmp, stip, stale, written, acts>>

Init == /\ now = 0 /\ timecmp = Never
        /\ stip = FALSE /\ stale = FALSE /\ written = FALSE /\ acts = 0

Tick == /\ now' = IF now < MaxTime THEN now + 1 ELSE now
        /\ UNCHANGED <<timecmp, stip, stale, written, acts>>

SetTimer(d) == /\ timecmp' = d
               /\ stip' \in {FALSE, d <= now}
               /\ stale' \in {FALSE, timecmp <= now \/ stale}
               /\ written' = FALSE
               /\ acts' = 1 - acts
               /\ UNCHANGED now

Raise == /\ timecmp <= now \/ stale
         /\ stip' = TRUE
         /\ stale' = FALSE
         /\ UNCHANGED <<now, timecmp, written, acts>>

GuestSip(b) == /\ stip' = b
               /\ written' = TRUE
               /\ acts' = 1 - acts
               /\ UNCHANGED <<now, timecmp, stale>>

Next == \/ Tick \/ Raise
        \/ \E d \in Deadline : SetTimer(d)
        \/ \E b \in BOOLEAN : GuestSip(b)

Spec == Init /\ [][Next]_deadlineVars
=============================================================================
