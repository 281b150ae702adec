------------------------------- MODULE Commands -------------------------------
(***************************************************************************)
(* The mutation pipeline.  A command claims its idempotency key, checks    *)
(* the caller, runs its handler, writes its audit event and completes the  *)
(* key in one read-committed transaction; the database makes a second      *)
(* claim of a key wait for the first to commit or to roll back.  A request *)
(* whose key is completed is answered from it, after the caller is checked *)
(* again, and a key used for another request is refused.  An audit event   *)
(* takes its number and its time when it is inserted, and is seen when its *)
(* transaction commits.                                                    *)
(***************************************************************************)
EXTENDS Integers

CONSTANTS
  Attempts,      \* executions of commands; a retry is an attempt of its own
  KeyOf(_),      \* the scope and idempotency key an attempt carries
  HashOf(_),     \* its request hash: command, actor, surface and payload
  NoKey, NoRow,
  TxLimit,       \* a transaction ends within so many ticks of its audit event
  MaxTime,       \* bound: the clock
  MaxSeq         \* bound: the numbers of audit events

ASSUME CommandsAssumption == {TxLimit, MaxTime, MaxSeq} \subseteq Nat

VARIABLES
  now,      \* statement_timestamp()
  timeline, \* inrp2p_database_identity(): a recovery starts another
  keys,     \* idempotency_key, its committed rows: what each stores
  events,   \* audit_event, its committed rows
  nextSeq,  \* the sequence behind audit_event.seq: no rollback gives back a number
  wrote,    \* the audit event of an attempt's open transaction, or NoRow
  answer    \* what it answered the caller: an event of the command that ran, or NoRow

commandVars == <<now, timeline, keys, events, nextSeq, wrote, answer>>

-----------------------------------------------------------------------------
\* What a handler answers names what it did: here, the event it wrote.
Result(e) == [seq |-> e.seq, id |-> e.id]

Asks(a) == wrote[a] = NoRow /\ answer[a] = NoRow
\* The unique index: an uncommitted row of the key makes another insert wait.
ClaimedElsewhere(a) == \E b \in Attempts : wrote[b] # NoRow /\ KeyOf(b) = KeyOf(a)
MayClaim(a) == KeyOf(a) # NoKey => KeyOf(a) \notin DOMAIN keys /\ ~ClaimedElsewhere(a)
\* Defect: the key alone names the request.
SameKey(row, a) == TRUE
SameRequest(row, a) == row.hash = HashOf(a)

Init ==
  /\ now = 1 /\ timeline = 1 /\ nextSeq = 1 /\ events = {}
  /\ keys = [k \in {} |-> NoRow]
  /\ wrote = [a \in Attempts |-> NoRow]
  /\ answer = [a \in Attempts |-> NoRow]

\* BEGIN; the key's row inserted where there is none; authorize; the handler,
\* which appends its audit event.
Run(a) ==
  /\ Asks(a) /\ MayClaim(a) /\ nextSeq =< MaxSeq
  /\ wrote' = [wrote EXCEPT ![a] =
       [seq |-> nextSeq, at |-> now, id |-> <<timeline, a>>, key |-> KeyOf(a), hash |-> HashOf(a)]]
  /\ nextSeq' = nextSeq + 1
  /\ UNCHANGED <<now, timeline, keys, events, answer>>

\* The key COMPLETED with the result, and COMMIT.
Commit(a) ==
  /\ wrote[a] # NoRow
  /\ events' = events \cup {wrote[a]}
  /\ keys' = [k \in DOMAIN keys \cup ({KeyOf(a)} \ {NoKey}) |->
       IF k = KeyOf(a) THEN [hash |-> HashOf(a), response |-> Result(wrote[a])] ELSE keys[k]]
  /\ answer' = [answer EXCEPT ![a] = Result(wrote[a])]
  /\ wrote' = [wrote EXCEPT ![a] = NoRow]
  /\ UNCHANGED <<now, timeline, nextSeq>>

\* The handler refuses, a statement times out, the process or the connection
\* dies: all of it is rolled back, the claim with it, and the caller may ask again.
RollBack(a) ==
  /\ wrote[a] # NoRow
  /\ wrote' = [wrote EXCEPT ![a] = NoRow]
  /\ UNCHANGED <<now, timeline, keys, events, nextSeq, answer>>

\* The key's row is there and completed: its answer, when the request is the same
\* and authorize passes again; a refusal changes nothing.
Replay(a) ==
  /\ Asks(a) /\ KeyOf(a) \in DOMAIN keys
  /\ SameRequest(keys[KeyOf(a)], a)
  /\ answer' = [answer EXCEPT ![a] = keys[KeyOf(a)].response]
  /\ UNCHANGED <<now, timeline, keys, events, nextSeq, wrote>>

\* The caller never heard the answer and asks again with his key.
AskAgain(a) ==
  /\ answer[a] # NoRow /\ KeyOf(a) # NoKey
  /\ answer' = [answer EXCEPT ![a] = NoRow]
  /\ UNCHANGED <<now, timeline, keys, events, nextSeq, wrote>>

\* No transaction outlives TxLimit.
TimeMayPass ==
  now < MaxTime /\ \A a \in Attempts : wrote[a] # NoRow => now - wrote[a].at < TxLimit

Tick ==
  /\ TimeMayPass
  /\ now' = now + 1
  /\ UNCHANGED <<timeline, keys, events, nextSeq, wrote, answer>>

\* A key's work is done once: of the events committed under a key there is one,
\* and whoever was answered was answered with the event of the very request he
\* made (pipeline.ts:75): never with another's, never with one rolled back.
RunsOnce ==
  /\ \A e, f \in events : e.key = f.key /\ e.key # NoKey => e = f
  /\ \A a \in Attempts : answer[a] # NoRow =>
       \E e \in events : Result(e) = answer[a] /\ e.key = KeyOf(a) /\ e.hash = HashOf(a)

CommandNext ==
  \/ \E a \in Attempts : Run(a) \/ Commit(a) \/ RollBack(a) \/ Replay(a) \/ AskAgain(a)
  \/ Tick

CommandSpec == Init /\ [][CommandNext]_commandVars

(* What callers are promised: see AtMostOnce. *)
WorkDone == {[key |-> e.key, hash |-> e.hash, result |-> Result(e)] : e \in events}
Requests == INSTANCE AtMostOnce WITH Nothing <- NoRow, done <- WorkDone, heard <- answer
=============================================================================
