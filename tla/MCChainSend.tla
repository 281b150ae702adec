------------------------------ MODULE MCChainSend ------------------------------
EXTENDS ChainSend, TLC

\* Two transactions for the payout, so that one may replace a dead one.
MCMaxAttempts == [s \in Sends |-> IF s = "PAYOUT" THEN 2 ELSE 1]

\* One each, for the run that looks at progress.
OneEach == [s \in Sends |-> 1]

\* Workers and providers are interchangeable in every safety property.
Interchangeable == Permutations(Workers) \cup Permutations(Providers)
=============================================================================
