------------------------------ MODULE MCFunding ------------------------------
(* Funding for TLC: legs and settlements are interchangeable.                  *)
EXTENDS Funding, TLC

MCTerms == [base |-> 2, client |-> 1, route |-> 2]
MCDeltas == {[base |-> 0, client |-> 0, route |-> 1], [base |-> 0, client |-> 0, route |-> -1],
             [base |-> -1, client |-> 0, route |-> 0], [base |-> 1, client |-> 0, route |-> 1]}
Symmetry == Permutations(Legs) \cup Permutations(Settlements)
=============================================================================
