------------------------------ MODULE AtMostOnce ------------------------------
(***************************************************************************)
(* What the pipeline promises of a request that changes something: it is   *)
(* done in one step, once for its key however often it is asked and by     *)
(* whom, and who is answered is answered with what was done for the very   *)
(* request he made.  A recovery takes work back, and whoever was answered  *)
(* with it was not.  No transaction, no claim, no lock: Commands, with the *)
(* trail and its recoveries, is shown to implement it.                     *)
(***************************************************************************)
CONSTANTS
  Attempts, KeyOf(_), HashOf(_),  \* who asks, with which key and request
  NoKey, Nothing

VARIABLES
  done,  \* the work done: its key, its request, what is answered
  heard  \* what an attempt was answered, or Nothing

vars == <<done, heard>>

Init == done = {} /\ heard = [a \in Attempts |-> Nothing]

\* Work not done before.
Works(key, hash, w) == w \notin done /\ w.key = key /\ w.hash = hash /\ done' = done \cup {w}

Do(a) ==
  /\ heard[a] = Nothing
  /\ KeyOf(a) # NoKey => \A w \in done : w.key # KeyOf(a)
  /\ \E w \in done' : Works(KeyOf(a), HashOf(a), w) /\ heard' = [heard EXCEPT ![a] = w.result]

\* The same request again: its answer, and nothing done.
Hear(a) ==
  /\ heard[a] = Nothing /\ KeyOf(a) # NoKey
  /\ \E w \in done : w.key = KeyOf(a) /\ w.hash = HashOf(a) /\ heard' = [heard EXCEPT ![a] = w.result]
  /\ UNCHANGED done

\* The answer was lost on its way.
AskAgain(a) ==
  /\ heard[a] # Nothing /\ KeyOf(a) # NoKey
  /\ heard' = [heard EXCEPT ![a] = Nothing]
  /\ UNCHANGED done

\* The system's own work.
DoOwn == \E w \in done' : Works(NoKey, Nothing, w) /\ UNCHANGED heard

Recover ==
  /\ done' \subseteq done
  /\ heard' = [a \in Attempts |-> IF \E w \in done' : w.result = heard[a] THEN heard[a] ELSE Nothing]

Next ==
  \/ \E a \in Attempts : Do(a) \/ Hear(a) \/ AskAgain(a)
  \/ DoOwn \/ Recover

Spec == Init /\ [][Next]_vars
=============================================================================
