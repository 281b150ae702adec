------------------------------- MODULE MCOutbox -------------------------------
(* Outbox for TLC: an event with two handlers, one with one, and one of a type  *)
(* that no handler of this release takes.                                       *)
EXTENDS Outbox

CONSTANTS h1, h2

MCMatching == <<<<h1, h2>>, <<h1>>, <<>>>>
=============================================================================
