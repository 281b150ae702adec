---------------------------------- MODULE MCTrader ----------------------------------
(***************************************************************************)
(* Two requests, of one unit and of two, and a block that holds either of  *)
(* them or both; on two instances in one: every state is one of at least   *)
(* one of them, as are the states that lead to it.                         *)
(***************************************************************************)
EXTENDS TraderOrders, TLC

CONSTANTS a, b
MCSize == (a :> 1) @@ (b :> 2)

\* Rates are only ever compared.
Interchangeable == Permutations(Rates)

\* The trader alone delivers, no more than is open, and no side is adjusted.
Trading == \A o \in Orders :
             deal[o].adjusted = 0 /\ applied[o].state = "NONE" /\ DeliveryOpen(o) >= 0

\* A trader that changes one setting (to go online), and one order: its side is adjusted, and
\* its reserve and the desk's recordings deliver as well.
Owing == changes <= 1 /\ In({"NONE"}) # {}

Instances == Trading \/ Owing
=============================================================================
