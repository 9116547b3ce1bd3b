----------------------------- MODULE CallMailbox -----------------------------
(***************************************************************************)
(* What a CallQueue promises to its users, with no threads, locks or       *)
(* batches: calls are numbered in the order in which Enqueue accepted      *)
(* them, they are delivered one by one in that order, each exactly once,   *)
(* and WaitForPendingCalls returns only for a call that was delivered.     *)
(***************************************************************************)
EXTENDS Naturals, Sequences

VARIABLES
    posted,    \* how many calls were accepted: the last call's number
    delivered, \* the numbers of the delivered calls, in delivery order
    flushed    \* the latest call a WaitForPendingCalls has waited for

mailboxVars == <<posted, delivered, flushed>>

Init ==
    /\ posted = 0
    /\ delivered = << >>
    /\ flushed = 0

Post ==
    /\ posted' = posted + 1
    /\ UNCHANGED <<delivered, flushed>>

(* A delivered call may itself post one more call.                         *)
Deliver ==
    /\ Len(delivered) < posted
    /\ delivered' = Append(delivered, Len(delivered) + 1)
    /\ posted' \in {posted, posted + 1}
    /\ UNCHANGED flushed

(* WaitForPendingCalls may return for any call that has been delivered.    *)
Flushed ==
    /\ flushed' \in flushed .. Len(delivered)
    /\ UNCHANGED <<posted, delivered>>

Next == Post \/ Deliver \/ Flushed

Spec == Init /\ [][Next]_mailboxVars
=============================================================================
