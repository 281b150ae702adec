----------------------------- MODULE MCSettlement -----------------------------
(* Settlement for TLC.  Legs are told apart by nothing but their id. *)
EXTENDS Settlement, TLC

\* The desk opens a case of its own on a BUY; a SELL has the cases of its deposits.
MCMaxCases == [BUY_USDT |-> 1, SELL_USDT |-> 0]
Symmetry == Permutations(LegIds)
=============================================================================
