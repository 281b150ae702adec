------------------------------ MODULE MCQuotes ------------------------------
(* Quotes for TLC: recipients are interchangeable, and so are sessions. *)
EXTENDS Quotes, TLC

Symmetry == Permutations(Users) \cup Permutations(Sessions)
=============================================================================
