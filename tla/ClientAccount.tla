---------------------------- MODULE ClientAccount ----------------------------
(***************************************************************************)
(* What a trade promises its client, in confirmed money only: what it      *)
(* received, what it paid, what it gave back.  No leg, no case, no order   *)
(* of commands; Settlement is shown to implement it.                       *)
(***************************************************************************)
EXTENDS Integers

CONSTANT Terms   \* the values the two obligations may have, above zero

VARIABLES
  status,      \* OPEN, COMPLETED or CANCELLED
  payout,      \* what the client is to be paid
  receivable,  \* what the client is to bring
  received, paid,
  unwound,     \* given back because the trade is being undone
  returned     \* given back because it arrived beyond the receivable

vars == <<status, payout, receivable, received, paid, unwound, returned>>

Init ==
  /\ status = "OPEN"
  /\ payout \in Terms /\ receivable \in Terms
  /\ received = 0 /\ paid = 0 /\ unwound = 0 /\ returned = 0

\* Money comes in: also on a completed trade, never on a cancelled one.
Receive ==
  /\ status # "CANCELLED"
  /\ received' \in Nat /\ received' > received
  /\ status' \in {status, "COMPLETED"}
  /\ UNCHANGED <<payout, receivable, paid, unwound, returned>>

Pay ==
  /\ status = "OPEN" /\ unwound = 0
  /\ paid' \in Nat /\ paid' > paid /\ paid' <= payout
  /\ status' \in {"OPEN", "COMPLETED"}
  /\ UNCHANGED <<payout, receivable, received, unwound, returned>>

Unwind ==
  /\ status = "OPEN" /\ paid = 0
  /\ unwound' \in Nat /\ unwound' > unwound
  /\ unwound' + returned <= received
  /\ UNCHANGED <<status, payout, receivable, received, paid, returned>>

\* Only what is beyond the receivable, and beyond what was returned already; what
\* came in on a completed trade can go back too.
ReturnExcess ==
  /\ status # "CANCELLED"
  /\ returned' \in Nat /\ returned' > returned
  /\ returned' <= received - receivable
  /\ unwound + returned' <= received
  /\ status' \in {status, "COMPLETED"}
  /\ UNCHANGED <<payout, receivable, received, paid, unwound>>

\* The terms follow an approved adjustment, never below what already moved.
Adjust ==
  /\ status = "OPEN"
  /\ payout' \in Terms /\ payout' >= paid
  /\ receivable' \in Terms /\ receivable' >= received
  /\ status' \in {"OPEN", "COMPLETED"}
  /\ UNCHANGED <<received, paid, unwound, returned>>

Complete ==
  /\ status = "OPEN" /\ status' = "COMPLETED"
  /\ UNCHANGED <<payout, receivable, received, paid, unwound, returned>>

Cancel ==
  /\ status = "OPEN" /\ status' = "CANCELLED"
  /\ paid = 0 /\ unwound + returned = received
  /\ UNCHANGED <<payout, receivable, received, paid, unwound, returned>>

\* A trade completes only with both sides settled.
CompletesSettled ==
  status' = "COMPLETED" /\ status # "COMPLETED" =>
    paid' = payout' /\ received' - returned' = receivable' /\ unwound' = 0

Next ==
  /\ Receive \/ Pay \/ Unwind \/ ReturnExcess \/ Adjust \/ Complete \/ Cancel
  /\ CompletesSettled

Spec == Init /\ [][Next]_vars

-----------------------------------------------------------------------------
TypeOK ==
  /\ status \in {"OPEN", "COMPLETED", "CANCELLED"}
  /\ payout \in Terms /\ receivable \in Terms
  /\ received \in Nat /\ paid \in Nat /\ unwound \in Nat /\ returned \in Nat

\* FI-20 and FI-25: the client is never paid more than agreed, never given back
\* more than it brought, and never both paid and unwound.
NeverOverpaid ==
  /\ paid <= payout
  /\ unwound + returned <= received
  /\ paid = 0 \/ unwound = 0

\* T9, T10: a cancelled trade paid nothing and gave everything back.
CancelledIsEven ==
  status = "CANCELLED" => paid = 0 /\ unwound + returned = received

\* FI-21: a completed trade paid exactly what it owed and has its receivable;
\* only money that came in later can be on top of it.
CompletedIsPaid ==
  status = "COMPLETED" =>
    /\ paid = payout /\ unwound = 0
    /\ received - returned >= receivable
=============================================================================
