-------------------------------- MODULE Outbox --------------------------------
(***************************************************************************)
(* The transactional outbox.  Commands insert events in their transaction; *)
(* dispatchers claim the oldest pending ones (FOR UPDATE SKIP LOCKED) and  *)
(* run every matching handler in order, all in one transaction: a failing  *)
(* event is rolled back to a savepoint and counted, the batch goes on.     *)
(* Handlers do their work on connections of their own, so what they did    *)
(* stays done whatever becomes of the dispatcher's transaction.            *)
(***************************************************************************)
EXTENDS Integers, Sequences, FiniteSets

CONSTANTS
  Events,      \* the events, numbered in the order of created_at
  Handlers,    \* the registered handlers
  Matching,    \* the handlers of each event, in the order they are registered
  Workers,     \* the worker processes, each with one dispatch at a time
  BatchSize,   \* how many events a dispatch claims (50)
  MaxAttempts, \* attempts after which an event is given up (10)
  MaxCrashes   \* bound: how many times a dispatcher dies in a run

ASSUME OutboxAssumption ==
  /\ Events \subseteq Nat /\ IsFiniteSet(Events)
  /\ Matching \in [Events -> Seq(Handlers)]
  /\ BatchSize \in Nat \ {0} /\ MaxAttempts \in Nat \ {0} /\ MaxCrashes \in Nat

VARIABLES
  rows,      \* outbox_event, as committed
  delivered, \* outbox_delivery, as committed: <<event, handler>>
  dispatch,  \* the dispatch each worker is in
  effects,   \* how often each <<event, handler>> ran to its end
  crashes

outboxVars == <<rows, delivered, dispatch, effects, crashes>>

-----------------------------------------------------------------------------
Statuses == {"ABSENT", "PENDING", "DISPATCHED", "FAILED"}
Row == [status : Statuses, attempts : 0 .. MaxAttempts]
Pairs == Events \X Handlers

\* What a dispatcher's transaction sees and has written so far.
Data == [rows : [Events -> Row], delivered : SUBSET Pairs]
Savepoint == [name : {"event", "handler"}, data : Data]

Idle == [claimed |-> {}, todo |-> {}, step |-> 0,
         data |-> [rows |-> [e \in Events |-> [status |-> "ABSENT", attempts |-> 0]],
                   delivered |-> {}],
         saves |-> <<>>]

Busy(w) == dispatch[w].claimed # {}
Locked  == UNION {dispatch[w].claimed : w \in Workers}
Pending == {e \in Events : rows[e].status = "PENDING"}

\* Defect: the claim does not lock.
FreeOrLocked == Pending
Free == Pending \ Locked

\* The event a dispatch is at: it takes them in the order of created_at.
Current(w) == CHOOSE e \in dispatch[w].todo : \A o \in dispatch[w].todo : e <= o

\* The latest savepoint of a name, 0 if none is alive.
LastSave(saves, name) ==
  LET at == {i \in DOMAIN saves : saves[i].name = name}
  IN  IF at = {} THEN 0 ELSE CHOOSE i \in at : \A j \in at : j <= i

\* The row of an event that failed once more.
Counted(row) ==
  [status   |-> IF row.attempts + 1 >= MaxAttempts THEN "FAILED" ELSE "PENDING",
   attempts |-> row.attempts + 1]

\* Defect: a failure is only noted, never counted.
FailedUncounted(d, e, saves) ==
  [d EXCEPT !.todo = @ \ {e}, !.step = 0, !.saves = saves]
\* The catch block: roll back to the latest outbox_handler savepoint, to
\* outbox_event if there is none, and write the failed attempt.  Savepoints up to
\* the one rolled back to stay alive; e.attempts is the value read by the claim.
Failed(d, e, saves) ==
  LET handler == LastSave(saves, "handler")
      to      == IF handler # 0 THEN handler ELSE LastSave(saves, "event")
  IN  [d EXCEPT !.todo = @ \ {e}, !.step = 0,
                !.saves = SubSeq(saves, 1, to),
                !.data = [saves[to].data EXCEPT !.rows[e] = Counted(rows[e])]]

-----------------------------------------------------------------------------
OutboxInit ==
  /\ rows = [e \in Events |-> [status |-> "ABSENT", attempts |-> 0]]
  /\ delivered = {}
  /\ dispatch = [w \in Workers |-> Idle]
  /\ effects = [p \in Pairs |-> 0]
  /\ crashes = 0

\* enqueueOutbox, at the commit of the command: not in the order of created_at.
Enqueue(e) ==
  /\ rows[e].status = "ABSENT"
  /\ rows' = [rows EXCEPT ![e].status = "PENDING"]
  /\ UNCHANGED <<delivered, dispatch, effects, crashes>>

\* The claim: the oldest BatchSize pending events nobody else has locked.
Claim(w) ==
  /\ ~Busy(w) /\ Free # {}
  /\ \E S \in SUBSET Free :
       /\ Cardinality(S) = IF Cardinality(Free) < BatchSize THEN Cardinality(Free) ELSE BatchSize
       /\ \A e \in S, o \in Free \ S : e <= o
       /\ dispatch' = [dispatch EXCEPT ![w] = [Idle EXCEPT !.claimed = S, !.todo = S,
                         !.data = [rows |-> rows, delivered |-> {}]]]
  /\ UNCHANGED <<rows, delivered, effects, crashes>>

\* savepoint outbox_event, and the events nobody handles.
OpenEvent(w) ==
  LET d == dispatch[w]
      saves == Append(d.saves, [name |-> "event", data |-> d.data])
  IN  /\ d.todo # {} /\ d.step = 0
      /\ dispatch' = [dispatch EXCEPT ![w] =
           IF Matching[Current(w)] = <<>> THEN Failed(d, Current(w), saves)
                                          ELSE [d EXCEPT !.step = 1, !.saves = saves]]
      /\ UNCHANGED <<rows, delivered, effects, crashes>>

\* The handler a dispatch is at, while one is left.
AtHandler(w) == dispatch[w].step \in DOMAIN Matching[Current(w)]
Here(w) == <<Current(w), Matching[Current(w)][dispatch[w].step]>>

\* Defect: the delivery rows are not looked at.
DoneIgnored(w) == FALSE
\* Deliveries recorded before the claim or earlier in this transaction.
Done(w) == Here(w) \in delivered \cup dispatch[w].data.delivered

SkipHandler(w) ==
  /\ dispatch[w].step > 0 /\ AtHandler(w) /\ Done(w)
  /\ dispatch' = [dispatch EXCEPT ![w].step = @ + 1]
  /\ UNCHANGED <<rows, delivered, effects, crashes>>

\* savepoint outbox_handler, the handler, its delivery, the savepoint's release.
RunHandler(w) ==
  /\ dispatch[w].step > 0 /\ AtHandler(w) /\ ~Done(w)
  /\ effects' = [effects EXCEPT ![Here(w)] = @ + 1]
  /\ dispatch' = [dispatch EXCEPT ![w].step = @ + 1, ![w].data.delivered = @ \cup {Here(w)}]
  /\ UNCHANGED <<rows, delivered, crashes>>

\* The handler throws: outbox_handler is alive, and stays so.
FailHandler(w) ==
  /\ dispatch[w].step > 0 /\ AtHandler(w) /\ ~Done(w)
  /\ dispatch' = [dispatch EXCEPT ![w] =
       Failed(@, Current(w), Append(@.saves, [name |-> "handler", data |-> @.data]))]
  /\ UNCHANGED <<rows, delivered, effects, crashes>>

\* Defect: an event is done as soon as one handler took it.
FinishEventEarly(w) ==
  /\ dispatch[w].step > 1
  /\ dispatch' = [dispatch EXCEPT ![w].todo = @ \ {Current(w)}, ![w].step = 0,
       ![w].data.rows[Current(w)] = [status |-> "DISPATCHED", attempts |-> rows[Current(w)].attempts + 1]]
  /\ UNCHANGED <<rows, delivered, effects, crashes>>
\* Every handler is through: dispatched, and outbox_event is released with every
\* savepoint above it.
FinishEvent(w) ==
  /\ dispatch[w].step > 0 /\ ~AtHandler(w)
  /\ dispatch' = [dispatch EXCEPT ![w].todo = @ \ {Current(w)}, ![w].step = 0,
       ![w].saves = SubSeq(@, 1, LastSave(@, "event") - 1),
       ![w].data.rows[Current(w)] = [status |-> "DISPATCHED", attempts |-> rows[Current(w)].attempts + 1]]
  /\ UNCHANGED <<rows, delivered, effects, crashes>>

\* The batch is through and the transaction commits.
CommitBatch(w) ==
  /\ Busy(w) /\ dispatch[w].todo = {}
  /\ rows' = [e \in Events |-> IF e \in dispatch[w].claimed THEN dispatch[w].data.rows[e] ELSE rows[e]]
  /\ delivered' = delivered \cup dispatch[w].data.delivered
  /\ dispatch' = [dispatch EXCEPT ![w] = Idle]
  /\ UNCHANGED <<effects, crashes>>

\* The worker dies, or loses its connection: nothing of the batch is kept.
Crash(w) ==
  /\ Busy(w) /\ crashes < MaxCrashes
  /\ crashes' = crashes + 1
  /\ dispatch' = [dispatch EXCEPT ![w] = Idle]
  /\ UNCHANGED <<rows, delivered, effects>>

-----------------------------------------------------------------------------
Dispatch(w) ==
  \/ Claim(w) \/ OpenEvent(w)
  \/ SkipHandler(w) \/ RunHandler(w) \/ FailHandler(w)
  \/ FinishEvent(w) \/ CommitBatch(w)

OutboxNext ==
  \/ \E e \in Events : Enqueue(e)
  \/ \E w \in Workers : Dispatch(w) \/ Crash(w)

\* A job is queued with every event and the cron dispatches every minute; a
\* handler returns or throws.
OutboxSpec == OutboxInit /\ [][OutboxNext]_outboxVars /\ \A w \in Workers : WF_outboxVars(Dispatch(w))

(* What it promises of each event: see Delivery. *)
ConsumersOf(e) == {Matching[e][i] : i \in DOMAIN Matching[e]}
Promised(e) == INSTANCE Delivery WITH Consumers <- ConsumersOf(e), status <- rows[e].status,
                 attempts <- rows[e].attempts, taken <- {h \in Handlers : <<e, h>> \in delivered}

-----------------------------------------------------------------------------
OutboxTypeOK ==
  /\ rows \in [Events -> Row]
  /\ delivered \subseteq Pairs
  /\ \A w \in Workers :
       /\ dispatch[w].todo \subseteq dispatch[w].claimed /\ dispatch[w].claimed \subseteq Events
       /\ dispatch[w].step \in Nat
       /\ dispatch[w].data \in Data
       /\ \A i \in DOMAIN dispatch[w].saves : dispatch[w].saves[i] \in Savepoint
  /\ effects \in [Pairs -> Nat]
  /\ crashes \in 0 .. MaxCrashes

\* An event is dispatched only with a delivery of every handler that matches it,
\* and never when there is none ("never mark it dispatched silently"): no
\* rollback to a savepoint, failure of a neighbour or crash takes one without the
\* other.
DispatchedIsDelivered ==
  /\ OutboxTypeOK
  /\ \A e \in Events : rows[e].status = "DISPATCHED" =>
       /\ Matching[e] # <<>>
       /\ \A i \in DOMAIN Matching[e] : <<e, Matching[e][i]>> \in delivered

\* A delivery that was recorded is never run again: not after a crash, and not by
\* a second worker.
RecordedNotRepeated ==
  [][\A p \in Pairs : effects'[p] > effects[p] => p \notin delivered]_outboxVars

\* While every event has a handler, a handler runs an event to its end at most
\* once more than the dispatchers died, however its neighbours fail.
RunsOnceUnlessCrashed ==
  (\A e \in Events : rows[e].status # "ABSENT" => Matching[e] # <<>>) =>
    \A p \in Pairs : effects[p] <= 1 + crashes

\* Every event ends: dispatched, or given up after MaxAttempts and kept visible.
EveryEventEnds ==
  \A e \in Events : rows[e].status = "PENDING" ~> rows[e].status \in {"DISPATCHED", "FAILED"}
=============================================================================
