------------------------------- MODULE Payment -------------------------------
(***************************************************************************)
(* What the signer promises whoever asked it for a payment: a transfer     *)
(* that happens once or not at all, and an answer that is true for good.   *)
(* No transaction, worker or provider; ChainSend is shown to implement it, *)
(* for the payout and for the top-up.                                      *)
(***************************************************************************)
CONSTANT Transfers  \* what could pay it

VARIABLES
  told,   \* what the records say: OPEN, PAID or CANCELLED
  moved   \* the transfers the chain carries

vars == <<told, moved>>

Init == told = "OPEN" /\ moved = {}

\* A block takes a transfer, the only one; a block not yet final is undone.
Move == told = "OPEN" /\ moved = {} /\ \E t \in Transfers : moved' = {t} /\ UNCHANGED told
Undo == told = "OPEN" /\ moved' = {} /\ UNCHANGED told

\* The answer is given once: paid when it is, cancelled when it never will be.
Confirm == told = "OPEN" /\ moved # {} /\ told' = "PAID" /\ UNCHANGED moved
Cancel == told = "OPEN" /\ moved = {} /\ told' = "CANCELLED" /\ UNCHANGED moved

Next == Move \/ Undo \/ Confirm \/ Cancel

Spec == Init /\ [][Next]_vars

-----------------------------------------------------------------------------
\* It is paid at most once, and what the records say is what happened.
ToldTrue ==
  /\ told \in {"OPEN", "PAID", "CANCELLED"}
  /\ moved \subseteq Transfers /\ \A t, u \in moved : t = u
  /\ told = "PAID" => moved # {}
  /\ told = "CANCELLED" => moved = {}
=============================================================================
