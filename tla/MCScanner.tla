------------------------------ MODULE MCScanner ------------------------------
(***************************************************************************)
(* Scanner for TLC, on three instances in one: every state is one of at    *)
(* least one of them, as are the states that lead to it.                   *)
(***************************************************************************)
EXTENDS Scanner, TLC

Symmetry == Permutations(Transfers) \cup Permutations(Trades)

Holding(S) == {s \in S : assigned[s] # Unassigned}
AtWallet == {t \in Transfers : dest[t] \in Wallets}
First    == CHOOSE r \in Runs : TRUE

\* Two subjects, trades or the obligation, at one address, and a desk that hands over
\* every transfer; all that follows a record.
Desk == Cardinality(Holding(Subjects)) <= 2 /\ cursor = NoCursor /\ head <= 2 /\ AtWallet = {}

\* The runs: one command at a time, only for what a run has found, and nothing confirmed.
Finding ==
  /\ Cardinality(looked) <= 1
  /\ \A c \in looked : \E r \in Runs : c.t \in run[r].todo
  /\ absent = {} /\ \A t \in Transfers : rec[t] \in {"NONE", "DETECTED"}

\* One trade and its address, which one run reads beside the wallet.
OneScan ==
  /\ Cardinality(Holding(Trades)) <= 1 /\ Holding(Obligations) \cup ended \subseteq Trades
  /\ AtWallet = {} /\ \A r \in Runs \ {First} : run[r] = IdleReading

\* The wallet alone, with two runs.
TwoScans == (\A a \in Addresses : status[a] = "ABSENT") /\ ended = {}

Instances == Desk \/ (Finding /\ (OneScan \/ TwoScans))
=============================================================================
