------------------------------- MODULE Delivery -------------------------------
(***************************************************************************)
(* What the outbox promises of one event to whoever published it and to    *)
(* those who consume it: each consumer takes it once, what was taken stays *)
(* taken, and its status says whether all have.  No batch, no savepoint,   *)
(* no neighbour, no worker; Outbox is shown to implement it.               *)
(***************************************************************************)
EXTENDS Integers

CONSTANTS
  Consumers,  \* who has to take it
  MaxAttempts

VARIABLES
  status,   \* ABSENT, PENDING, DISPATCHED or FAILED
  attempts, \* counted so far
  taken     \* who has taken it, on record

vars == <<status, attempts, taken>>

Init == status = "ABSENT" /\ attempts = 0 /\ taken = {}

Publish == status = "ABSENT" /\ status' = "PENDING" /\ UNCHANGED <<attempts, taken>>

\* All that were missing have taken it.
Complete ==
  /\ status = "PENDING" /\ Consumers # {}
  /\ taken' = Consumers /\ status' = "DISPATCHED" /\ attempts' = attempts + 1

\* Some have taken it and one has not, or there is nobody to take it.  The attempt
\* may go uncounted; the last one that counts is the end of it.
FallShort ==
  /\ status = "PENDING"
  /\ taken \subseteq taken' /\ taken' \subseteq Consumers /\ (Consumers # {} => taken' # Consumers)
  /\ \/ UNCHANGED <<status, attempts>>
     \/ /\ attempts' = attempts + 1
        /\ status' = IF attempts' >= MaxAttempts THEN "FAILED" ELSE "PENDING"

Next == Publish \/ Complete \/ FallShort

Spec == Init /\ [][Next]_vars

-----------------------------------------------------------------------------
\* The status is the truth: dispatched is what everybody it is for has taken, and
\* somebody it is for; what is not there or not yet given up has attempts left.
StatusTrue ==
  /\ status \in {"ABSENT", "PENDING", "DISPATCHED", "FAILED"} /\ attempts \in Nat
  /\ taken \subseteq Consumers
  /\ status = "DISPATCHED" <=> taken = Consumers /\ Consumers # {}
  /\ status \in {"ABSENT", "PENDING"} => attempts < MaxAttempts
  /\ status = "FAILED" => attempts = MaxAttempts
=============================================================================
