--------------------------------- MODULE Sums ---------------------------------
(***************************************************************************)
(* What the rows of a table add up to, as the columns sum(amount_minor)    *)
(* and sum(capacity_minor) of the queries do: a sum counts units, so that  *)
(* facts about it follow from facts about finite sets (see SumsProofs).    *)
(***************************************************************************)
EXTENDS Integers, FiniteSets

Units(amount, rows) == UNION {{r} \X (1 .. amount[r]) : r \in rows}
Sum(amount, rows) == Cardinality(Units(amount, rows))
=============================================================================
