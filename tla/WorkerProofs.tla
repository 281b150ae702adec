----------------------------- MODULE WorkerProofs -----------------------------
(* What the worker's jobs rest on.  Of the commands and the trail they leave,   *)
(* for any attempts, keys and requests and across any number of recoveries: the *)
(* work of a key is done once, and a sealed range never changes.  For the first *)
(* it has to be known what an open transaction will commit and what a completed *)
(* key stores; for the second, where the numbers of what is open and of what    *)
(* comes next lie; and both for the moment a recovery goes back to.  Of the     *)
(* archive: no export is refused, and it verifies.  For that the seals of this  *)
(* database are a line, every range in the bucket branches off it where another *)
(* ends, and what a recovery lost is explained or waits for a heartbeat.  Of    *)
(* the outbox, for any events, handlers and workers: an event reported          *)
(* dispatched was delivered, and a handler runs again only for a dispatcher     *)
(* that died, and each event goes its way as if it were alone.  Of the scanner, *)
(* for any addresses, budgets and runs: no final transfer is passed, each pays  *)
(* for who was given its address, and confirmed money stays.                    *)
EXTENDS AuditTrail, Outbox, Scanner, FiniteSetTheorems, WellFoundedInduction, TLAPS

\* A set of numbers has a least, and below a bound a greatest.
LEMMA LeastIn ==
  ASSUME NEW S \in SUBSET Nat, S # {} PROVE \E x \in S : \A y \in S : x <= y
<1>1. \E x \in S : \A y \in S : ~ (<<y, x>> \in OpToRel(<, Nat))
  BY NatLessThanWellFounded, WFMin, Zenon
<1>2. OpToRel(<, Nat) = {q \in Nat \X Nat : q[1] < q[2]}
  BY Zenon DEF OpToRel
<1>3. \A x, y \in Nat : ~ (<<y, x>> \in OpToRel(<, Nat)) => ~ (y < x)
  BY <1>2
<1>4. PICK x \in S : \A y \in S : ~ (y < x)
  BY <1>1, <1>3, Zenon
<1>5. \A y \in S : x <= y
  BY <1>4
<1> QED BY <1>5

LEMMA GreatestIn ==
  ASSUME NEW S \in SUBSET Nat, S # {}, NEW n \in Nat, \A x \in S : x < n
  PROVE  \E x \in S : \A y \in S : y <= x
<1> DEFINE T == {n - x : x \in S}
<1>1. T \subseteq Nat /\ T # {}
  <2>1. \A x \in S : n - x \in Nat
    OBVIOUS
  <2> QED BY <2>1
<1>2. PICK t \in T : \A u \in T : t <= u
  <2> HIDE DEF T
  <2> QED BY <1>1, LeastIn
<1>3. PICK x \in S : t = n - x
  BY <1>2
<1>4. \A y \in S : y <= x
  <2> SUFFICES ASSUME NEW y \in S PROVE y <= x
    OBVIOUS
  <2>1. t <= n - y
    BY <1>2
  <2> QED BY <1>3, <2>1
<1> QED BY <1>4

LEMMA MaxIn ==
  ASSUME NEW S \in SUBSET Nat, S # {}, NEW n \in Nat, \A x \in S : x < n
  PROVE  Max(S) \in S /\ \A x \in S : Max(S) >= x
<1>1. PICK x \in S : \A y \in S : y <= x
  BY GreatestIn
<1>2. \A y \in S : x >= y
  BY <1>1
<1> QED BY <1>2 DEF Max

-----------------------------------------------------------------------------
(* The commands and the trail. *)

Keys == {KeyOf(a) : a \in Attempts}
Hashes == {HashOf(a) : a \in Attempts}
Event == [seq : Nat, at : Nat, id : Nat \X (Attempts \cup {"FENCE", "LIFT"}),
          key : Keys \cup {NoKey}, hash : Hashes \cup {NoRow}]
Answers == {Result(e) : e \in Event}
Rows == [hash : Hashes, response : Answers]

\* The types of the pipeline's variables.
TypeOK ==
  /\ now \in Nat /\ timeline \in Nat /\ nextSeq \in Nat
  /\ events \in SUBSET Event
  /\ wrote \in [Attempts -> Event \cup {NoRow}]
  /\ answer \in [Attempts -> Answers \cup {NoRow}]
  /\ keys \in [DOMAIN keys -> Rows]

\* An open transaction's event is of its own request, and holds its key alone.
Claims ==
  \A a \in Attempts : wrote[a] # NoRow =>
    /\ wrote[a].key = KeyOf(a) /\ wrote[a].hash = HashOf(a)
    /\ KeyOf(a) # NoKey =>
         /\ KeyOf(a) \notin DOMAIN keys
         /\ \A b \in Attempts : wrote[b] # NoRow /\ KeyOf(b) = KeyOf(a) => b = a

\* A completed key stores the answer and the request of the event committed under it.
StoredIn(ks, es) ==
  /\ NoKey \notin DOMAIN ks
  /\ \A e \in es : e.key # NoKey => e.key \in DOMAIN ks
  /\ \A k \in DOMAIN ks : \E e \in es :
       Result(e) = ks[k].response /\ e.key = k /\ e.hash = ks[k].hash
Stored == StoredIn(keys, events)

Pipeline == TypeOK /\ Claims /\ Stored /\ RunsOnce

LEMMA ResultType == \A e \in Event : Result(e) \in Answers
  BY DEF Answers

LEMMA InitHolds == Init => Pipeline
  BY CommandsAssumption DEF Init, Pipeline, TypeOK, Claims, Stored, StoredIn, RunsOnce

\* A transaction that opens takes its key where no row and no claim of it is.
LEMMA RunHolds == ASSUME Pipeline, NEW a \in Attempts, Run(a) PROVE Pipeline'
<1> DEFINE e == [seq |-> nextSeq, at |-> now, id |-> <<timeline, a>>, key |-> KeyOf(a), hash |-> HashOf(a)]
<1>1. e \in Event /\ wrote' = [wrote EXCEPT ![a] = e]
  BY DEF Pipeline, TypeOK, Event, Keys, Hashes, Run
<1>2. TypeOK'
  BY <1>1 DEF Pipeline, TypeOK, Run
<1>3. Claims'
  <2> SUFFICES ASSUME NEW c \in Attempts, wrote'[c] # NoRow
               PROVE /\ wrote'[c].key = KeyOf(c) /\ wrote'[c].hash = HashOf(c)
                     /\ KeyOf(c) # NoKey =>
                          /\ KeyOf(c) \notin DOMAIN keys'
                          /\ \A b \in Attempts : wrote'[b] # NoRow /\ KeyOf(b) = KeyOf(c) => b = c
    BY DEF Claims
  <2>1. \A b \in Attempts : b # a => wrote'[b] = wrote[b]
    BY <1>1 DEF Pipeline, TypeOK
  <2>2. wrote'[a] = e
    BY <1>1 DEF Pipeline, TypeOK
  <2>3. keys' = keys /\ wrote[a] = NoRow
    BY DEF Run, Asks
  <2>4. KeyOf(a) # NoKey => KeyOf(a) \notin DOMAIN keys /\ \A b \in Attempts : wrote[b] # NoRow => KeyOf(b) # KeyOf(a)
    BY DEF Run, MayClaim, ClaimedElsewhere
  <2>5. CASE c = a
    BY <2>1, <2>2, <2>3, <2>4, <2>5
  <2>6. CASE c # a
    BY <2>1, <2>3, <2>4, <2>6 DEF Pipeline, Claims
  <2> QED BY <2>5, <2>6
<1>4. Stored' /\ RunsOnce'
  BY DEF Pipeline, Run, Stored, StoredIn, RunsOnce
<1> QED BY <1>2, <1>3, <1>4 DEF Pipeline

\* What commits is the first event of its key.
LEMMA CommitHolds == ASSUME Pipeline, NEW a \in Attempts, Commit(a) PROVE Pipeline'
<1> DEFINE e == wrote[a]
<1> DEFINE taken == {KeyOf(a)} \ {NoKey}
<1>1. e \in Event /\ e.key = KeyOf(a) /\ e.hash = HashOf(a) /\ Result(e) \in Answers
  BY ResultType DEF Pipeline, TypeOK, Claims, Commit
<1>2. /\ events' = events \cup {e}
      /\ wrote' = [wrote EXCEPT ![a] = NoRow]
      /\ answer' = [answer EXCEPT ![a] = Result(e)]
      /\ keys' = [k \in DOMAIN keys \cup taken |->
                   IF k = KeyOf(a) THEN [hash |-> HashOf(a), response |-> Result(e)] ELSE keys[k]]
      /\ UNCHANGED <<now, timeline, nextSeq>>
  BY DEF Commit
<1>3. KeyOf(a) # NoKey => KeyOf(a) \notin DOMAIN keys
  BY DEF Pipeline, Claims, Commit
<1>4. DOMAIN keys' = DOMAIN keys \cup taken
  BY <1>2
<1>5. \A k \in DOMAIN keys : keys'[k] = keys[k]
  BY <1>2, <1>3 DEF Pipeline, Stored, StoredIn
<1>6. \A k \in taken : k = KeyOf(a) /\ keys'[k] = [hash |-> HashOf(a), response |-> Result(e)]
  BY <1>2
<1>7. TypeOK'
  <2>1. keys' \in [DOMAIN keys' -> Rows]
    <3>1. \A k \in DOMAIN keys' : keys'[k] \in Rows
      BY <1>1, <1>4, <1>5, <1>6 DEF Pipeline, TypeOK, Rows, Hashes
    <3> QED BY <1>2, <1>4, <3>1
  <2> QED BY <1>1, <1>2, <2>1 DEF Pipeline, TypeOK
<1>8. Claims'
  <2>1. \A b \in Attempts : wrote'[b] # NoRow => b # a /\ wrote'[b] = wrote[b]
    BY <1>2 DEF Pipeline, TypeOK
  <2>2. \A b \in Attempts : b # a /\ wrote[b] # NoRow /\ KeyOf(b) # NoKey => KeyOf(b) # KeyOf(a)
    BY DEF Pipeline, Claims, Commit
  <2> QED BY <1>4, <2>1, <2>2 DEF Pipeline, Claims
<1>9. Stored'
  <2>1. NoKey \notin DOMAIN keys'
    BY <1>4 DEF Pipeline, Stored, StoredIn
  <2>2. \A f \in events' : f.key # NoKey => f.key \in DOMAIN keys'
    BY <1>1, <1>2, <1>4 DEF Pipeline, Stored, StoredIn
  <2>3. \A k \in DOMAIN keys' : \E f \in events' :
          Result(f) = keys'[k].response /\ f.key = k /\ f.hash = keys'[k].hash
    <3>1. \A k \in DOMAIN keys : \E f \in events' :
            Result(f) = keys'[k].response /\ f.key = k /\ f.hash = keys'[k].hash
      BY <1>2, <1>5 DEF Pipeline, Stored, StoredIn
    <3>2. \A k \in taken : Result(e) = keys'[k].response /\ e.key = k /\ e.hash = keys'[k].hash
      BY <1>1, <1>6
    <3>3. e \in events'
      BY <1>2
    <3> HIDE DEF e, taken
    <3> QED BY <1>4, <3>1, <3>2, <3>3
  <2> QED BY <2>1, <2>2, <2>3 DEF Stored, StoredIn
<1>10. RunsOnce'
  <2>1. \A f, g \in events' : f.key = g.key /\ f.key # NoKey => f = g
    BY <1>1, <1>2, <1>3 DEF Pipeline, Stored, StoredIn, RunsOnce
  <2>2. \A b \in Attempts : answer'[b] # NoRow =>
          \E f \in events' : Result(f) = answer'[b] /\ f.key = KeyOf(b) /\ f.hash = HashOf(b)
    <3>1. answer'[a] = Result(e) /\ \A b \in Attempts : b # a => answer'[b] = answer[b]
      BY <1>2 DEF Pipeline, TypeOK
    <3> QED BY <1>1, <1>2, <3>1 DEF Pipeline, RunsOnce
  <2> QED BY <2>1, <2>2 DEF RunsOnce
<1> QED BY <1>7, <1>8, <1>9, <1>10 DEF Pipeline

\* A replay answers with the event of the same request.
LEMMA ReplayHolds == ASSUME Pipeline, NEW a \in Attempts, Replay(a) PROVE Pipeline'
<1> DEFINE row == keys[KeyOf(a)]
<1>1. /\ row.hash = HashOf(a) /\ row \in Rows
      /\ answer' = [answer EXCEPT ![a] = row.response]
      /\ UNCHANGED <<now, timeline, keys, events, nextSeq, wrote>>
  BY DEF Replay, SameRequest, Pipeline, TypeOK
<1>2. TypeOK' /\ Claims' /\ Stored'
  BY <1>1 DEF Pipeline, TypeOK, Claims, Stored, StoredIn, Rows, Hashes
<1>3. \E e \in events : Result(e) = row.response /\ e.key = KeyOf(a) /\ e.hash = HashOf(a)
  BY <1>1 DEF Pipeline, Stored, StoredIn, Replay
<1>4. answer'[a] = row.response /\ \A b \in Attempts : b # a => answer'[b] = answer[b]
  BY <1>1 DEF Pipeline, TypeOK
<1>5. RunsOnce'
  BY <1>1, <1>3, <1>4 DEF Pipeline, RunsOnce
<1> QED BY <1>2, <1>5 DEF Pipeline

\* A rollback, a retry and the clock leave what is committed as it is.
LEMMA QuietHolds ==
  ASSUME Pipeline, (\E a \in Attempts : RollBack(a) \/ AskAgain(a)) \/ Tick \/ UNCHANGED commandVars
  PROVE  Pipeline'
<1>1. UNCHANGED <<timeline, keys, events, nextSeq>> /\ now' \in Nat
  BY DEF Pipeline, TypeOK, RollBack, AskAgain, Tick, commandVars
<1>2. /\ wrote' \in [Attempts -> Event \cup {NoRow}]
      /\ \A b \in Attempts : wrote'[b] = wrote[b] \/ wrote'[b] = NoRow
  BY DEF Pipeline, TypeOK, RollBack, AskAgain, Tick, commandVars
<1>3. /\ answer' \in [Attempts -> Answers \cup {NoRow}]
      /\ \A b \in Attempts : answer'[b] = answer[b] \/ answer'[b] = NoRow
  BY DEF Pipeline, TypeOK, RollBack, AskAgain, Tick, commandVars
<1>4. TypeOK'
  BY <1>1, <1>2, <1>3 DEF Pipeline, TypeOK
<1>5. Claims' /\ Stored' /\ RunsOnce'
  BY <1>1, <1>2, <1>3 DEF Pipeline, Claims, Stored, StoredIn, RunsOnce
<1> QED BY <1>4, <1>5 DEF Pipeline

-----------------------------------------------------------------------------
\* What the trail adds: the seal before the next, and what is so of a set of
\* events and of seals, here and at the moment a recovery goes back to.
Opens == {a \in Attempts : wrote[a] # NoRow}
Genesis == [id |-> 0, to |-> 0, hash |-> NoRow]
EndOf(ss) == IF ss = <<>> THEN Genesis ELSE ss[Len(ss)]

\* The numbers of events are their own, and come before the next.
NumberedIn(es, n) ==
  \A e \in es : e.seq < n /\ e.at =< now /\ \A f \in es : e.seq = f.seq => e = f

\* SealsStand, of these seals over these events; each ends where the last does or before.
BeforeIn(ss, i) == IF i = 1 THEN Genesis ELSE ss[i - 1]
HashOver(es, prev, from, to) == [prev |-> prev, rows |-> {e \in es : e.seq \in from .. to}]
Follows(s, b, es) ==
  s.hash = HashOver(es, b.hash, b.to + 1, s.to) /\ s.prev = b.hash /\ s.from = b.to + 1 /\ s.id > b.id
StandsIn(ss, es) == \A i \in DOMAIN ss : Follows(ss[i], BeforeIn(ss, i), es)
SealedIn(ss, es, n, m) ==
  /\ ss \in Seq(Range(ss))
  /\ \A s \in Range(ss) : s.to \in Nat /\ s.id \in Nat /\ s.to =< EndOf(ss).to
  /\ n \in Nat /\ EndOf(ss).to < n
  /\ m \in Nat /\ EndOf(ss).id < m
  /\ StandsIn(ss, es)

\* What an open transaction will commit comes after every seal and after every
\* event that is older than the settle window.
Ahead(a) ==
  /\ wrote[a].seq < nextSeq /\ wrote[a].seq > EndOf(seals).to
  /\ wrote[a].at =< now /\ now - wrote[a].at =< TxLimit
  /\ \A e \in events : e.seq # wrote[a].seq /\ (e.at < wrote[a].at => e.seq < wrote[a].seq)
  /\ \A b \in Opens : /\ wrote[b].seq = wrote[a].seq => b = a
                      /\ wrote[b].at < wrote[a].at => wrote[b].seq < wrote[a].seq
Opened == \A a \in Opens : Ahead(a)

\* The moment a recovery goes back to was such a database, and an earlier one.
PointSound ==
  point # NoRow =>
    /\ point.events \subseteq events
    /\ point.nextSeq =< nextSeq /\ point.nextSeal =< nextSeal
    /\ point.keys \in [DOMAIN point.keys -> Rows]
    /\ StoredIn(point.keys, point.events)
    /\ NumberedIn(point.events, point.nextSeq)
    /\ SealedIn(point.seals, point.events, point.nextSeq, point.nextSeal)

Trail ==
  /\ NumberedIn(events, nextSeq) /\ SealedIn(seals, events, nextSeq, nextSeal)
  /\ Opened /\ PointSound

IInv == Pipeline /\ Trail

-----------------------------------------------------------------------------
\* The last seal, by its place.
LEMMA LastSealIs ==
  ASSUME Trail PROVE LastSeal = EndOf(seals) /\ LastSeal.to \in Nat /\ LastSeal.id \in Nat
<1>1. LastSeal = EndOf(seals)
  BY DEF LastSeal, EndOf, Genesis, Last
<1>2. CASE seals = <<>>
  BY <1>1, <1>2 DEF EndOf, Genesis
<1>3. CASE seals # <<>>
  <2>1. seals \in Seq(Range(seals)) /\ Len(seals) \in DOMAIN seals
    BY <1>3 DEF Trail, SealedIn
  <2>2. seals[Len(seals)] \in Range(seals)
    BY <2>1 DEF Range
  <2> QED BY <1>1, <1>3, <2>2 DEF EndOf, Trail, SealedIn
<1> QED BY <1>1, <1>2, <1>3

\* An event after the last seal disturbs none.
LEMMA SealsKeep ==
  ASSUME NEW ss, NEW es, NEW e, NEW n, NEW m, NEW n2, NEW m2,
         SealedIn(ss, es, n, m), e.seq \in Nat, e.seq > EndOf(ss).to,
         n2 \in Nat, n =< n2, m2 \in Nat, m =< m2, EndOf(ss).to \in Nat, EndOf(ss).id \in Nat
  PROVE  SealedIn(ss, es \cup {e}, n2, m2) /\ SealedIn(ss, es, n2, m2)
<1>1. EndOf(ss).to < n2 /\ EndOf(ss).id < m2
  BY DEF SealedIn
<1>2. StandsIn(ss, es \cup {e})
  <2> SUFFICES ASSUME NEW i \in DOMAIN ss, NEW b
               PROVE  HashOver(es \cup {e}, b.hash, b.to + 1, ss[i].to) = HashOver(es, b.hash, b.to + 1, ss[i].to)
    BY DEF SealedIn, StandsIn, Follows
  <2>1. ss[i] \in Range(ss)
    BY DEF Range
  <2>2. ss[i].to \in Nat /\ ss[i].to =< EndOf(ss).to
    BY <2>1 DEF SealedIn
  <2>3. e.seq \notin b.to + 1 .. ss[i].to
    BY <2>2
  <2> QED BY <2>3 DEF HashOver
<1> QED BY <1>1, <1>2 DEF SealedIn

-----------------------------------------------------------------------------
\* A moment gone back to is as sound as it was, whatever is committed later.
LEMMA PointKeeps ==
  ASSUME PointSound, UNCHANGED point, events \subseteq events',
         nextSeq \in Nat, nextSeq' \in Nat, nextSeq =< nextSeq', nextSeal \in Nat, nextSeal' \in Nat,
         nextSeal =< nextSeal', now \in Nat, now' \in Nat, now =< now',
         \A e \in events : e.at \in Nat
  PROVE  PointSound'
<1> SUFFICES ASSUME point # NoRow PROVE PointSound'
  BY DEF PointSound
<1>1. /\ point.events \subseteq events'
      /\ point.keys \in [DOMAIN point.keys -> Rows]
      /\ StoredIn(point.keys, point.events)
      /\ SealedIn(point.seals, point.events, point.nextSeq, point.nextSeal)
  BY DEF PointSound
<1>2. point.nextSeq =< nextSeq' /\ point.nextSeal =< nextSeal'
  BY DEF PointSound, SealedIn
<1>3. NumberedIn(point.events, point.nextSeq)'
  BY DEF PointSound, NumberedIn
<1> QED BY <1>1, <1>2, <1>3 DEF PointSound

\* What a step that commits nothing and seals nothing leaves as it was.
LEMMA TrailStays ==
  ASSUME IInv, Pipeline', UNCHANGED <<events, nextSeq, seals, nextSeal, point>>,
         now =< now',
         \A a \in Attempts : wrote'[a] = NoRow \/ (wrote'[a] = wrote[a] /\ now' - wrote[a].at =< TxLimit)
  PROVE  IInv'
<1>1. now \in Nat /\ now' \in Nat /\ nextSeq \in Nat /\ nextSeal \in Nat /\ \A e \in events : e.at \in Nat
  BY DEF IInv, Pipeline, TypeOK, Trail, SealedIn, Event
<1>2. NumberedIn(events, nextSeq)'
  BY <1>1 DEF IInv, Trail, NumberedIn
<1>3. SealedIn(seals, events, nextSeq, nextSeal)'
  BY DEF IInv, Trail
<1>4. Opened'
  <2> SUFFICES ASSUME NEW a \in Opens' PROVE Ahead(a)'
    BY DEF Opened
  <2>1. \A b \in Opens' : b \in Opens /\ wrote'[b] = wrote[b] /\ now' - wrote[b].at =< TxLimit
    BY DEF Opens
  <2>2. wrote[a].at \in Nat
    BY <2>1 DEF IInv, Pipeline, TypeOK, Event, Opens
  <2> QED BY <1>1, <2>1, <2>2 DEF IInv, Trail, Opened, Ahead
<1>5. PointSound'
  BY <1>1, PointKeeps DEF IInv, Trail
<1> QED BY <1>2, <1>3, <1>4, <1>5 DEF IInv, Trail

\* A transaction that opens takes a number after everything there is.
LEMMA RunTrail ==
  ASSUME IInv, NEW a \in Attempts, Run(a), UNCHANGED auditVars PROVE IInv'
<1>1. Pipeline'
  BY RunHolds DEF IInv
<1> DEFINE e == wrote'[a]
<1>2. /\ e.seq = nextSeq /\ e.at = now
      /\ \A b \in Opens' : b # a => b \in Opens /\ wrote'[b] = wrote[b]
      /\ nextSeq' = nextSeq + 1 /\ UNCHANGED <<now, events, seals, nextSeal, point>>
  <2>1. wrote[a] = NoRow /\ wrote \in [Attempts -> Event \cup {NoRow}]
    BY DEF Run, Asks, IInv, Pipeline, TypeOK
  <2>2. e = [seq |-> nextSeq, at |-> now, id |-> <<timeline, a>>, key |-> KeyOf(a), hash |-> HashOf(a)]
    BY <2>1 DEF Run
  <2>3. \A b \in Attempts : b # a => wrote'[b] = wrote[b]
    BY <2>1 DEF Run
  <2>4. nextSeq' = nextSeq + 1 /\ UNCHANGED <<now, events, seals, nextSeal, point>>
    BY DEF Run, auditVars
  <2> QED BY <2>2, <2>3, <2>4 DEF Opens
<1>3. /\ now \in Nat /\ nextSeq \in Nat /\ nextSeal \in Nat /\ TxLimit \in Nat
      /\ EndOf(seals).to \in Nat /\ EndOf(seals).id \in Nat /\ EndOf(seals).to < nextSeq
      /\ \A f \in events : f.at \in Nat /\ f.seq \in Nat
      /\ \A b \in Opens : wrote[b].at \in Nat /\ wrote[b].seq \in Nat
  BY LastSealIs, CommandsAssumption DEF IInv, Pipeline, TypeOK, Trail, SealedIn, Event, Opens
<1>4. NumberedIn(events, nextSeq)'
  BY <1>2, <1>3 DEF IInv, Trail, NumberedIn
<1>5. SealedIn(seals, events, nextSeq, nextSeal)'
  <2>1. SealedIn(seals, events, nextSeq + 1, nextSeal)
    BY <1>3 DEF IInv, Trail, SealedIn
  <2> QED BY <1>2, <2>1
<1>6. Opened'
  <2> SUFFICES ASSUME NEW c \in Opens' PROVE Ahead(c)'
    BY DEF Opened
  <2> HIDE DEF e
  <2>1. CASE c = a
    <3>1. \A f \in events : f.seq < nextSeq
      BY DEF IInv, Trail, NumberedIn
    <3>2. \A b \in Opens : wrote[b].seq < nextSeq /\ wrote[b].at =< now
      BY DEF IInv, Trail, Opened, Ahead
    <3>3. wrote'[c] = e
      BY <2>1 DEF e
    <3>4. \A b \in Opens' : b = a \/ (wrote'[b].seq < nextSeq /\ wrote'[b].seq \in Nat)
      BY <1>2, <1>3, <3>2
    <3> QED BY <1>2, <1>3, <2>1, <3>1, <3>3, <3>4 DEF Ahead
  <2>2. CASE c # a
    <3>1. c \in Opens /\ wrote'[c] = wrote[c]
      BY <1>2, <2>2
    <3>2. /\ wrote[c].seq < nextSeq /\ wrote[c].seq > EndOf(seals).to
          /\ wrote[c].at =< now /\ now - wrote[c].at =< TxLimit
          /\ \A f \in events : f.seq # wrote[c].seq /\ (f.at < wrote[c].at => f.seq < wrote[c].seq)
          /\ \A b \in Opens : /\ wrote[b].seq = wrote[c].seq => b = c
                              /\ wrote[b].at < wrote[c].at => wrote[b].seq < wrote[c].seq
      BY <3>1 DEF IInv, Trail, Opened, Ahead
    <3>3. ASSUME NEW b \in Opens'
          PROVE  /\ wrote'[b].seq = wrote[c].seq => b = c
                 /\ wrote'[b].at < wrote[c].at => wrote'[b].seq < wrote[c].seq
      <4>1. CASE b = a
        BY <1>2, <1>3, <3>1, <3>2, <4>1 DEF e
      <4>2. CASE b # a
        BY <1>2, <3>2, <4>2
      <4> QED BY <4>1, <4>2
    <3> QED BY <1>2, <1>3, <3>1, <3>2, <3>3 DEF Ahead
  <2> QED BY <2>1, <2>2
<1>7. PointSound'
  BY <1>2, <1>3, PointKeeps DEF IInv, Trail
<1> QED BY <1>1, <1>4, <1>5, <1>6, <1>7 DEF IInv, Trail

\* An event is committed: an open transaction's, or one with a number of its own.
\* It follows every seal and comes before no older one that is open.
LEMMA EventTrail ==
  ASSUME IInv, Pipeline', NEW e \in Event,
         events' = events \cup {e}, e.at =< now, e.seq < nextSeq', e.seq > EndOf(seals).to,
         nextSeq =< nextSeq', now =< now', UNCHANGED <<seals, nextSeal, point>>,
         \A f \in events : f.seq # e.seq,
         \A a \in Attempts : wrote'[a] = NoRow \/
           /\ wrote'[a] = wrote[a] /\ now' - wrote[a].at =< TxLimit
           /\ e.seq # wrote[a].seq /\ (e.at < wrote[a].at => e.seq < wrote[a].seq)
  PROVE  IInv'
<1>1. /\ now \in Nat /\ now' \in Nat /\ nextSeq \in Nat /\ nextSeq' \in Nat /\ nextSeal \in Nat
      /\ e.at \in Nat /\ e.seq \in Nat
      /\ EndOf(seals).to \in Nat /\ EndOf(seals).id \in Nat
      /\ \A f \in events : f.at \in Nat /\ f.seq \in Nat
      /\ \A b \in Opens : wrote[b].at \in Nat /\ wrote[b].seq \in Nat
  BY LastSealIs DEF IInv, Pipeline, TypeOK, Trail, SealedIn, Event, Opens
<1>2. NumberedIn(events, nextSeq)'
  BY <1>1 DEF IInv, Trail, NumberedIn
<1>3. SealedIn(seals, events, nextSeq, nextSeal)'
  <2>1. SealedIn(seals, events \cup {e}, nextSeq', nextSeal)
    BY <1>1, SealsKeep DEF IInv, Trail
  <2> QED BY <2>1
<1>4. Opened'
  <2> SUFFICES ASSUME NEW a \in Opens' PROVE Ahead(a)'
    BY DEF Opened
  <2>1. \A b \in Opens' : b \in Opens /\ wrote'[b] = wrote[b] /\ now' - wrote[b].at =< TxLimit
    BY DEF Opens
  <2>2. e.seq # wrote[a].seq /\ (e.at < wrote[a].at => e.seq < wrote[a].seq)
    BY DEF Opens
  <2>3. Ahead(a)
    BY <2>1 DEF IInv, Trail, Opened
  <2> QED BY <1>1, <2>1, <2>2, <2>3 DEF Ahead
<1>5. PointSound'
  BY <1>1, PointKeeps DEF IInv, Trail
<1> QED BY <1>2, <1>3, <1>4, <1>5 DEF IInv, Trail

LEMMA CommitTrail ==
  ASSUME IInv, NEW a \in Attempts, Commit(a), UNCHANGED auditVars PROVE IInv'
<1> DEFINE e == wrote[a]
<1>1. Pipeline'
  BY CommitHolds DEF IInv
<1>2. a \in Opens /\ Ahead(a) /\ e \in Event
  BY DEF Commit, Opens, Opened, IInv, Trail, Pipeline, TypeOK
<1>3. /\ events' = events \cup {e} /\ UNCHANGED <<now, nextSeq, seals, nextSeal, point>>
      /\ wrote' = [wrote EXCEPT ![a] = NoRow]
  BY DEF Commit, auditVars
<1>4. /\ e.at =< now /\ e.seq < nextSeq /\ e.seq > EndOf(seals).to
      /\ \A f \in events : f.seq # e.seq
      /\ now \in Nat /\ nextSeq \in Nat
  BY <1>2 DEF Ahead, IInv, Pipeline, TypeOK
<1>5. ASSUME NEW b \in Attempts, wrote'[b] # NoRow
      PROVE  /\ wrote'[b] = wrote[b] /\ now - wrote[b].at =< TxLimit
             /\ e.seq # wrote[b].seq /\ (e.at < wrote[b].at => e.seq < wrote[b].seq)
  <2>1. b # a /\ wrote'[b] = wrote[b] /\ b \in Opens
    BY <1>3, <1>5 DEF IInv, Pipeline, TypeOK, Opens
  <2>2. Ahead(b)
    BY <2>1 DEF IInv, Trail, Opened
  <2> QED BY <1>2, <2>1, <2>2 DEF Ahead
<1> HIDE DEF e
<1> QED BY <1>1, <1>2, <1>3, <1>4, <1>5, EventTrail

\* An event of the system's own keeps to the pipeline: it is of no key.
LEMMA AppendedHolds ==
  ASSUME Pipeline, NEW what \in {"FENCE", "LIFT"}, Appended(what),
         UNCHANGED <<timeline, keys, wrote, answer>>, now' \in Nat
  PROVE  Pipeline'
<1> DEFINE e == [seq |-> nextSeq, at |-> now, id |-> <<timeline, what>>, key |-> NoKey, hash |-> NoRow]
<1>1. e \in Event /\ events' = events \cup {e} /\ e.key = NoKey /\ nextSeq' \in Nat
  BY DEF Pipeline, TypeOK, Event, Appended
<1> HIDE DEF e
<1>2. TypeOK'
  BY <1>1 DEF Pipeline, TypeOK
<1>3. Claims'
  BY DEF Pipeline, Claims
<1>4. Stored'
  BY <1>1 DEF Pipeline, Stored, StoredIn
<1>5. RunsOnce'
  BY <1>1 DEF Pipeline, RunsOnce
<1> QED BY <1>2, <1>3, <1>4, <1>5 DEF Pipeline

LEMMA AppendedTrail ==
  ASSUME IInv, NEW what \in {"FENCE", "LIFT"}, Appended(what),
         UNCHANGED <<timeline, keys, wrote, answer, seals, nextSeal, point>>,
         now' = now \/ (TimeMayPass /\ now' = now + 1)
  PROVE  IInv'
<1> DEFINE e == [seq |-> nextSeq, at |-> now, id |-> <<timeline, what>>, key |-> NoKey, hash |-> NoRow]
<1>1. e \in Event /\ events' = events \cup {e} /\ nextSeq' = nextSeq + 1 /\ e.seq = nextSeq /\ e.at = now
  BY DEF IInv, Pipeline, TypeOK, Event, Appended
<1>2. /\ now \in Nat /\ nextSeq \in Nat /\ TxLimit \in Nat /\ EndOf(seals).to < nextSeq
      /\ \A b \in Opens : wrote[b].at \in Nat /\ wrote[b].seq \in Nat
  BY CommandsAssumption DEF IInv, Pipeline, TypeOK, Trail, SealedIn, Event, Opens
<1>3. Pipeline'
  BY <1>2, AppendedHolds DEF IInv
<1> HIDE DEF e
<1>4. \A f \in events : f.seq # e.seq
  BY <1>1, <1>2 DEF IInv, Trail, NumberedIn, Pipeline, TypeOK, Event
<1>5. ASSUME NEW b \in Attempts, wrote'[b] # NoRow
      PROVE  /\ wrote'[b] = wrote[b] /\ now' - wrote[b].at =< TxLimit
             /\ e.seq # wrote[b].seq /\ (e.at < wrote[b].at => e.seq < wrote[b].seq)
  <2>1. wrote'[b] = wrote[b] /\ b \in Opens
    BY <1>5 DEF Opens
  <2>2. Ahead(b)
    BY <2>1 DEF IInv, Trail, Opened
  <2>3. now' - wrote[b].at =< TxLimit
    BY <1>2, <2>1, <2>2 DEF Ahead, TimeMayPass, Opens
  <2> QED BY <1>1, <1>2, <2>1, <2>2, <2>3 DEF Ahead
<1> QED BY <1>1, <1>2, <1>3, <1>4, <1>5, EventTrail

\* A seal ends at an event older than the settle window: before whatever is open.
LEMMA SealTrail == ASSUME IInv, Seal PROVE IInv'
<1> DEFINE to == Max({e.seq : e \in Settled})
<1> DEFINE s == [id |-> nextSeal, from |-> LastSeal.to + 1, to |-> to, prev |-> LastSeal.hash,
                 hash |-> RangeHash(LastSeal.hash, LastSeal.to + 1, to), sealedAt |-> now]
<1>1. /\ seals' = Append(seals, s) /\ nextSeal' = nextSeal + 1 /\ Settled # {}
      /\ UNCHANGED <<now, timeline, keys, events, nextSeq, wrote, answer, point>>
  BY DEF Seal, commandVars
<1>2. /\ now \in Nat /\ nextSeq \in Nat /\ nextSeal \in Nat
      /\ LastSeal = EndOf(seals) /\ LastSeal.to \in Nat /\ LastSeal.id \in Nat /\ LastSeal.id < nextSeal
      /\ \A e \in events : e.seq \in Nat /\ e.at \in Nat /\ e.seq < nextSeq
      /\ \A a \in Opens : wrote[a].seq \in Nat /\ wrote[a].at \in Nat
      /\ TxLimit \in Nat /\ Settle \in Nat /\ TxLimit =< Settle
  BY LastSealIs, CommandsAssumption, AuditAssumption
     DEF IInv, Pipeline, TypeOK, Trail, SealedIn, NumberedIn, Event, Opens
<1>3. to \in {e.seq : e \in Settled}
  <2> DEFINE S == {e.seq : e \in Settled}
  <2>1. S \in SUBSET Nat /\ S # {} /\ \A x \in S : x < nextSeq
    BY <1>1, <1>2 DEF Settled
  <2> HIDE DEF S
  <2>2. Max(S) \in S
    BY <1>2, <2>1, MaxIn
  <2> QED BY <2>2 DEF S
<1>4. PICK e \in Settled : to = e.seq
  BY <1>3
<1>5. to \in Nat /\ LastSeal.to < to /\ to < nextSeq
  BY <1>2, <1>4 DEF Settled
<1>6. \A a \in Opens : to < wrote[a].seq
  <2> SUFFICES ASSUME NEW a \in Opens PROVE e.seq < wrote[a].seq
    BY <1>4
  <2>1. Ahead(a) /\ e \in events /\ e.at < now - Settle
    BY DEF IInv, Trail, Opened, Settled
  <2>2. e.at < wrote[a].at
    BY <1>2, <2>1 DEF Ahead
  <2> QED BY <2>1, <2>2 DEF Ahead
<1>7. s.id = nextSeal /\ s.to = to /\ Follows(s, EndOf(seals), events)
  BY <1>2 DEF Follows, HashOver, RangeHash
<1> HIDE DEF s, to
<1>8. seals \in Seq(Range(seals)) /\ Len(seals) \in Nat /\ DOMAIN seals = 1 .. Len(seals)
  BY DEF IInv, Trail, SealedIn
<1>9. /\ Len(seals') = Len(seals) + 1 /\ DOMAIN seals' = 1 .. Len(seals) + 1
      /\ \A i \in 1 .. Len(seals) : seals'[i] = seals[i]
      /\ seals'[Len(seals) + 1] = s
  BY <1>1, <1>8
<1>10. EndOf(seals') = s
  BY <1>8, <1>9 DEF EndOf
<1>11. Range(seals') = Range(seals) \cup {s}
  <2>1. \A x \in Range(seals') : x \in Range(seals) \cup {s}
    BY <1>8, <1>9 DEF Range
  <2>2. \A x \in Range(seals) : x \in Range(seals')
    BY <1>8, <1>9 DEF Range
  <2>3. s \in Range(seals')
    BY <1>8, <1>9 DEF Range
  <2> QED BY <2>1, <2>2, <2>3
<1>12. seals' \in Seq(Range(seals'))
  <2>1. seals' \in [1 .. Len(seals) + 1 -> Range(seals')]
    <3>1. seals \in Seq(Range(seals) \cup {s})
      BY <1>8
    <3>2. seals' \in Seq(Range(seals) \cup {s})
      BY <1>1, <3>1
    <3> QED BY <1>9, <1>11, <3>2
  <2> QED BY <1>8, <2>1
<1>13. \A x \in Range(seals') : x.to \in Nat /\ x.id \in Nat /\ x.to =< EndOf(seals').to
  <2>1. \A x \in Range(seals) : x.to \in Nat /\ x.id \in Nat /\ x.to =< LastSeal.to
    BY <1>2 DEF IInv, Trail, SealedIn
  <2> QED BY <1>2, <1>5, <1>7, <1>10, <1>11, <2>1
<1>14. StandsIn(seals', events')
  <2> SUFFICES ASSUME NEW i \in 1 .. Len(seals) + 1 PROVE Follows(seals'[i], BeforeIn(seals', i), events)
    BY <1>1, <1>9 DEF StandsIn
  <2>1. CASE i = Len(seals) + 1
    <3>1. BeforeIn(seals', i) = EndOf(seals)
      BY <1>8, <1>9, <2>1 DEF BeforeIn, EndOf
    <3> QED BY <1>7, <1>9, <2>1, <3>1
  <2>2. CASE i \in 1 .. Len(seals)
    <3>1. BeforeIn(seals', i) = BeforeIn(seals, i)
      BY <1>8, <1>9, <2>2 DEF BeforeIn
    <3>2. Follows(seals[i], BeforeIn(seals, i), events)
      BY <1>8, <2>2 DEF IInv, Trail, SealedIn, StandsIn
    <3> QED BY <1>9, <2>2, <3>1, <3>2
  <2> QED BY <1>8, <2>1, <2>2
<1>15. SealedIn(seals, events, nextSeq, nextSeal)'
  BY <1>1, <1>2, <1>5, <1>7, <1>10, <1>12, <1>13, <1>14 DEF SealedIn
<1>16. NumberedIn(events, nextSeq)'
  BY <1>1 DEF IInv, Trail, NumberedIn
<1>17. Opened'
  <2> SUFFICES ASSUME NEW a \in Opens' PROVE Ahead(a)'
    BY DEF Opened
  <2>1. \A b \in Attempts : b \in Opens' <=> b \in Opens
    BY <1>1 DEF Opens
  <2>2. a \in Opens /\ Ahead(a)
    BY <2>1 DEF IInv, Trail, Opened, Opens
  <2>3. \A b \in Opens' : b \in Opens
    BY <1>1 DEF Opens
  <2> QED BY <1>1, <1>6, <1>7, <1>10, <2>2, <2>3 DEF Ahead
<1>18. PointSound'
  BY <1>1, <1>2, PointKeeps DEF IInv, Trail
<1>19. Pipeline'
  BY <1>1, QuietHolds DEF IInv, commandVars
<1> QED BY <1>15, <1>16, <1>17, <1>18, <1>19 DEF IInv, Trail

\* A recovery goes back to a moment that was sound; nothing is open there.
LEMMA RestoreTrail == ASSUME IInv, Restore PROVE IInv'
<1>1. /\ point # NoRow /\ point' = NoRow
      /\ keys' = point.keys /\ events' = point.events /\ seals' = point.seals
      /\ (nextSeq' = point.nextSeq /\ nextSeal' = point.nextSeal) \/ UNCHANGED <<nextSeq, nextSeal>>
      /\ timeline' = timeline + 1 /\ now' = now + 1
      /\ wrote' = [a \in Attempts |-> NoRow]
      /\ answer' = [a \in Attempts |->
           IF \E e \in point.events : Result(e) = answer[a] THEN answer[a] ELSE NoRow]
  BY DEF Restore
<1>2. /\ point.events \subseteq events
      /\ point.nextSeq =< nextSeq /\ point.nextSeal =< nextSeal
      /\ point.keys \in [DOMAIN point.keys -> Rows]
      /\ StoredIn(point.keys, point.events)
      /\ NumberedIn(point.events, point.nextSeq)
      /\ SealedIn(point.seals, point.events, point.nextSeq, point.nextSeal)
  BY <1>1 DEF IInv, Trail, PointSound
<1>3. /\ nextSeq' \in Nat /\ nextSeal' \in Nat /\ point.nextSeq =< nextSeq' /\ point.nextSeal =< nextSeal'
      /\ point.nextSeq \in Nat /\ point.nextSeal \in Nat /\ nextSeq \in Nat /\ nextSeal \in Nat
  BY <1>1, <1>2 DEF SealedIn, IInv, Trail
<1>4. TypeOK'
  <2>1. answer' \in [Attempts -> Answers \cup {NoRow}]
    BY <1>1 DEF IInv, Pipeline, TypeOK
  <2> QED BY <1>1, <1>2, <1>3, <2>1 DEF IInv, Pipeline, TypeOK
<1>5. Claims'
  BY <1>1 DEF Claims
<1>6. Stored'
  BY <1>1, <1>2 DEF Stored
<1>7. RunsOnce'
  <2>1. \A e, f \in events' : e.key = f.key /\ e.key # NoKey => e = f
    BY <1>1, <1>2 DEF IInv, Pipeline, RunsOnce
  <2>2. ASSUME NEW a \in Attempts, answer'[a] # NoRow
        PROVE  \E e \in events' : Result(e) = answer'[a] /\ e.key = KeyOf(a) /\ e.hash = HashOf(a)
    <3>1. PICK e \in point.events : Result(e) = answer[a]
      BY <1>1, <2>2
    <3>2. answer'[a] = answer[a]
      BY <1>1, <2>2
    <3>3. PICK f \in events : Result(f) = answer[a] /\ f.key = KeyOf(a) /\ f.hash = HashOf(a)
      BY <2>2, <3>2 DEF IInv, Pipeline, RunsOnce
    <3>4. e = f
      BY <1>2, <3>1, <3>3 DEF Result, IInv, Trail, NumberedIn
    <3> QED BY <1>1, <3>1, <3>2, <3>3, <3>4
  <2> QED BY <2>1, <2>2 DEF RunsOnce
<1>8. NumberedIn(events, nextSeq)'
  BY <1>1, <1>2, <1>3 DEF NumberedIn, IInv, Pipeline, TypeOK, Event
<1>9. SealedIn(seals, events, nextSeq, nextSeal)'
  <2>1. EndOf(point.seals).to < nextSeq' /\ EndOf(point.seals).id < nextSeal'
    <3>1. EndOf(point.seals).to \in Nat /\ EndOf(point.seals).id \in Nat
      <4>1. CASE point.seals = <<>>
        BY <4>1 DEF EndOf, Genesis
      <4>2. CASE point.seals # <<>>
        <5>1. point.seals[Len(point.seals)] \in Range(point.seals)
          BY <1>2, <4>2 DEF SealedIn, Range
        <5> QED BY <1>2, <4>2, <5>1 DEF SealedIn, EndOf
      <4> QED BY <4>1, <4>2
    <3> QED BY <1>2, <1>3, <3>1 DEF SealedIn
  <2> QED BY <1>1, <1>2, <1>3, <2>1 DEF SealedIn
<1>10. Opened' /\ PointSound'
  BY <1>1 DEF Opened, Opens, PointSound
<1> QED BY <1>4, <1>5, <1>6, <1>7, <1>8, <1>9, <1>10 DEF IInv, Trail, Pipeline

\* The moment a recovery will go back to is this one.
LEMMA BackUpTrail == ASSUME IInv, BackUp PROVE IInv'
<1>1. point' = Database /\ UNCHANGED commandVars /\ UNCHANGED <<seals, nextSeal>>
  BY DEF BackUp
<1>2. Pipeline'
  BY <1>1, QuietHolds DEF IInv
<1>3. NumberedIn(events, nextSeq)' /\ SealedIn(seals, events, nextSeq, nextSeal)' /\ Opened'
  BY <1>1 DEF IInv, Trail, commandVars, NumberedIn, Opened, Opens, Ahead
<1>4. PointSound'
  <2>1. /\ nextSeq \in Nat /\ nextSeal \in Nat /\ keys \in [DOMAIN keys -> Rows] /\ Stored
        /\ NumberedIn(events, nextSeq) /\ SealedIn(seals, events, nextSeq, nextSeal)
    BY DEF IInv, Pipeline, TypeOK, Trail, SealedIn
  <2>2. UNCHANGED <<now, events, nextSeq, nextSeal>>
    BY <1>1 DEF commandVars
  <2>3. /\ point'.events = events /\ point'.keys = keys /\ point'.nextSeq = nextSeq
        /\ point'.seals = seals /\ point'.nextSeal = nextSeal
    BY <1>1 DEF Database
  <2> QED BY <2>1, <2>2, <2>3 DEF PointSound, NumberedIn, Stored
<1> QED BY <1>2, <1>3, <1>4 DEF IInv, Trail

\* What neither commits nor seals: answers, rollbacks, the clock and the exporter.
LEMMA QuietTrail ==
  ASSUME IInv,
         \/ (\E a \in Attempts : RollBack(a) \/ Replay(a) \/ AskAgain(a)) /\ UNCHANGED auditVars
         \/ Tick /\ UNCHANGED auditVars
         \/ Adopt \/ Put \/ Record
         \/ UNCHANGED vars
  PROVE  IInv'
<1>1. Pipeline'
  BY QuietHolds, ReplayHolds DEF IInv, Adopt, Put, Record, vars
<1>2. UNCHANGED <<events, nextSeq, seals, nextSeal, point>>
  BY DEF RollBack, Replay, AskAgain, Tick, Adopt, Put, Record, vars, commandVars, auditVars
<1>3. /\ now' = now \/ (TimeMayPass /\ now' = now + 1)
      /\ \A a \in Attempts : wrote'[a] = NoRow \/ wrote'[a] = wrote[a]
  BY DEF IInv, Pipeline, TypeOK, RollBack, Replay, AskAgain, Tick, Adopt, Put, Record, vars, commandVars
<1>4. now \in Nat /\ TxLimit \in Nat /\ \A a \in Opens : wrote[a].at \in Nat /\ now - wrote[a].at =< TxLimit
  BY CommandsAssumption DEF IInv, Pipeline, TypeOK, Trail, Opened, Ahead, Event, Opens
<1>5. now =< now'
  BY <1>3, <1>4
<1>6. \A a \in Attempts : wrote'[a] = NoRow \/ (wrote'[a] = wrote[a] /\ now' - wrote[a].at =< TxLimit)
  BY <1>3, <1>4 DEF TimeMayPass, Opens
<1> QED BY <1>1, <1>2, <1>5, <1>6, TrailStays

\* A heartbeat raises a fence, with its event, or only moves the clock on.
LEMMA BeatTrail == ASSUME IInv, Beat PROVE IInv'
<1>1. /\ TimeMayPass /\ now' = now + 1
      /\ UNCHANGED <<timeline, keys, wrote, answer, seals, nextSeal, point>>
  BY DEF Beat
<1>2. CASE Unfenced
  BY <1>1, <1>2, AppendedTrail DEF Beat
<1>3. CASE ~Unfenced
  <2>1. UNCHANGED <<events, nextSeq>>
    BY <1>3 DEF Beat
  <2>2. Pipeline'
    BY <1>1, <2>1, QuietHolds DEF IInv, Tick
  <2>3. now \in Nat /\ TxLimit \in Nat /\ \A a \in Opens : wrote[a].at \in Nat
    BY CommandsAssumption DEF IInv, Pipeline, TypeOK, Event, Opens
  <2>4. now =< now' /\ \A a \in Attempts : wrote'[a] = NoRow \/ (wrote'[a] = wrote[a] /\ now' - wrote[a].at =< TxLimit)
    BY <1>1, <2>3 DEF TimeMayPass, Opens
  <2> QED BY <1>1, <2>1, <2>2, <2>4, TrailStays
<1> QED BY <1>2, <1>3

LEMMA LiftTrail == ASSUME IInv, Lift PROVE IInv'
<1>1. /\ Appended("LIFT")
      /\ UNCHANGED <<now, timeline, keys, wrote, answer, seals, nextSeal, point>>
  BY DEF Lift
<1> QED BY <1>1, AppendedTrail

LEMMA TrailStarts == AuditInit => IInv
<1> SUFFICES ASSUME AuditInit PROVE IInv
  OBVIOUS
<1>1. Pipeline
  BY InitHolds DEF AuditInit
<1>2. /\ events = {} /\ seals = <<>> /\ nextSeq = 1 /\ nextSeal = 1 /\ point = NoRow
      /\ wrote = [a \in Attempts |-> NoRow]
  BY DEF AuditInit, Init
<1>3. SealedIn(seals, events, nextSeq, nextSeal)
  <2>1. Range(<<>>) = {} /\ EndOf(<<>>) = Genesis
    BY DEF Range, EndOf
  <2>2. StandsIn(<<>>, {})
    BY DEF StandsIn
  <2> QED BY <1>2, <2>1, <2>2 DEF SealedIn, Genesis
<1> QED BY <1>1, <1>2, <1>3 DEF IInv, Trail, NumberedIn, Opened, Opens, PointSound

LEMMA TrailSteps == IInv /\ [Next]_vars => IInv'
<1> SUFFICES ASSUME IInv, [Next]_vars PROVE IInv'
  OBVIOUS
<1>1. CASE CommandNext /\ UNCHANGED auditVars
  BY <1>1, RunTrail, CommitTrail, QuietTrail DEF CommandNext
<1>2. CASE Seal
  BY <1>2, SealTrail
<1>3. CASE Adopt \/ Put \/ Record \/ UNCHANGED vars
  BY <1>3, QuietTrail
<1>4. CASE BackUp
  BY <1>4, BackUpTrail
<1>5. CASE Restore
  BY <1>5, RestoreTrail
<1>6. CASE Beat
  BY <1>6, BeatTrail
<1>7. CASE Lift
  BY <1>7, LiftTrail
<1> QED BY <1>1, <1>2, <1>3, <1>4, <1>5, <1>6, <1>7 DEF Next

LEMMA SealsStandAt == IInv => SealsStand
<1> SUFFICES ASSUME IInv, NEW i \in DOMAIN seals PROVE Follows(seals[i], BeforeIn(seals, i), events)
  BY DEF SealsStand, Follows, BeforeIn, Genesis, HashOver, RangeHash
<1> QED BY DEF IInv, Trail, SealedIn, StandsIn

-----------------------------------------------------------------------------
\* What the pipeline and the trail keep, in every state.
THEOREM TrailInvariant == Spec => []IInv
  BY TrailStarts, TrailSteps, PTL DEF Spec

\* A key's work is done once (pipeline.ts:75) by the pipeline alone, for any attempts,
\* keys and requests, however they overlap, fail and are asked again.
THEOREM RunsOnceAlone == CommandSpec => []RunsOnce
<1>1. Pipeline /\ [CommandNext]_commandVars => Pipeline'
  BY RunHolds, CommitHolds, ReplayHolds, QuietHolds DEF CommandNext
<1>2. Pipeline => RunsOnce
  BY DEF Pipeline
<1> QED BY InitHolds, <1>1, <1>2, PTL DEF CommandSpec

\* The same with the trail's own events, and across recoveries to an earlier moment,
\* where whoever was answered with what is lost asks again.
THEOREM PipelineRunsOnce == Spec => []RunsOnce
<1>1. IInv => RunsOnce
  BY DEF IInv, Pipeline
<1> QED BY TrailInvariant, <1>1, PTL

\* No event commits into a sealed range (seal.ts:25), and the seals chain without
\* gap, for every bound on a transaction within the settle window and any recoveries.
THEOREM SealedForGood == Spec => []SealsStand
  BY TrailInvariant, SealsStandAt, PTL

-----------------------------------------------------------------------------
(* What callers are promised: AtMostOnce. *)

\* Whose transaction is open has no answer yet.
Unanswered == \A a \in Attempts : wrote[a] # NoRow => answer[a] = NoRow

\* What is promised of an event: the work it stands for.
WorkOf(e) == [key |-> e.key, hash |-> e.hash, result |-> Result(e)]

\* At the start no transaction is open.
LEMMA UnansweredStarts == AuditInit => Unanswered
  BY DEF AuditInit, Init, Unanswered

\* An attempt is answered as its transaction ends, or without one.
LEMMA UnansweredSteps == IInv /\ Unanswered /\ [Next]_vars => Unanswered'
<1> SUFFICES ASSUME IInv, Unanswered, [Next]_vars PROVE Unanswered'
  OBVIOUS
<1>1. wrote \in [Attempts -> Event \cup {NoRow}] /\ answer \in [Attempts -> Answers \cup {NoRow}]
  BY DEF IInv, Pipeline, TypeOK
<1>2. ASSUME NEW a \in Attempts, Run(a) \/ Commit(a) \/ RollBack(a) \/ Replay(a) \/ AskAgain(a) PROVE Unanswered'
  <2>1. CASE Run(a)
    BY <1>1, <2>1 DEF Run, Asks, Unanswered
  <2>2. CASE Commit(a)
    BY <1>1, <2>2 DEF Commit, Unanswered
  <2>3. CASE RollBack(a)
    BY <1>1, <2>3 DEF RollBack, Unanswered
  <2>4. CASE Replay(a)
    BY <1>1, <2>4 DEF Replay, Asks, Unanswered
  <2>5. CASE AskAgain(a)
    BY <1>1, <2>5 DEF AskAgain, Unanswered
  <2> QED BY <1>2, <2>1, <2>2, <2>3, <2>4, <2>5
<1>3. CASE Restore
  BY <1>3 DEF Restore, Unanswered
<1>4. CASE UNCHANGED <<wrote, answer>>
  BY <1>4 DEF Unanswered
<1>5. Tick \/ Seal \/ Adopt \/ Put \/ Record \/ BackUp \/ Beat \/ Lift \/ UNCHANGED vars => UNCHANGED <<wrote, answer>>
  BY DEF Tick, Seal, Adopt, Put, Record, BackUp, Beat, Lift, vars, commandVars
<1> QED BY <1>2, <1>3, <1>4, <1>5 DEF Next, CommandNext

\* Work is added with an event nobody had.
LEMMA WorkAdded ==
  ASSUME NEW e, \A f \in events : f.seq # e.seq, events' = events \cup {e}
  PROVE  Requests!Works(e.key, e.hash, WorkOf(e)) /\ WorkOf(e) \in WorkDone'
<1>1. WorkDone' = WorkDone \cup {WorkOf(e)}
  BY DEF WorkDone, WorkOf
<1>2. \A f \in events : WorkOf(f) # WorkOf(e)
  BY DEF WorkOf, Result
<1>3. WorkOf(e) \notin WorkDone
  BY <1>2 DEF WorkDone, WorkOf
<1>4. WorkOf(e).key = e.key /\ WorkOf(e).hash = e.hash
  BY DEF WorkOf
<1> QED BY <1>1, <1>3, <1>4 DEF Requests!Works

\* Every step of the pipeline, the trail and a recovery is a step of what is promised.
LEMMA RequestsNext == IInv /\ Unanswered /\ [Next]_vars => [Requests!Next]_(Requests!vars)
<1> SUFFICES ASSUME IInv, Unanswered, [Next]_vars PROVE [Requests!Next]_(Requests!vars)
  OBVIOUS
<1>1. wrote \in [Attempts -> Event \cup {NoRow}] /\ answer \in [Attempts -> Answers \cup {NoRow}]
  BY DEF IInv, Pipeline, TypeOK
<1>2. CASE UNCHANGED <<events, answer>>
  <2>1. WorkDone' = WorkDone
    BY <1>2 DEF WorkDone
  <2> QED BY <1>2, <2>1 DEF Requests!vars
<1>3. ASSUME NEW a \in Attempts, Commit(a) PROVE [Requests!Next]_(Requests!vars)
  <2>1. PICK e : e = wrote[a]
    OBVIOUS
  <2>2. a \in Opens /\ e.key = KeyOf(a) /\ e.hash = HashOf(a) /\ answer[a] = NoRow
    BY <1>3, <2>1 DEF Commit, Opens, IInv, Pipeline, Claims, Unanswered
  <2>3. \A f \in events : f.seq # e.seq
    BY <2>1, <2>2 DEF IInv, Trail, Opened, Ahead
  <2>4. events' = events \cup {e} /\ answer' = [answer EXCEPT ![a] = Result(e)]
    BY <1>3, <2>1 DEF Commit
  <2>5. Requests!Works(KeyOf(a), HashOf(a), WorkOf(e)) /\ WorkOf(e) \in WorkDone'
    BY <2>2, <2>3, <2>4, WorkAdded
  <2>6. KeyOf(a) # NoKey => \A f \in events : f.key # KeyOf(a)
    BY <1>3 DEF Commit, IInv, Pipeline, Claims, Stored, StoredIn
  <2>7. KeyOf(a) # NoKey => \A w \in WorkDone : w.key # KeyOf(a)
    BY <2>6 DEF WorkDone
  <2>8. answer' = [answer EXCEPT ![a] = WorkOf(e).result]
    BY <2>4 DEF WorkOf
  <2> QED BY <2>2, <2>5, <2>7, <2>8 DEF Requests!Next, Requests!Do
<1>4. ASSUME NEW a \in Attempts, Replay(a) PROVE [Requests!Next]_(Requests!vars)
  <2>1. PICK e \in events : Result(e) = keys[KeyOf(a)].response /\ e.key = KeyOf(a) /\ e.hash = HashOf(a)
    BY <1>4 DEF Replay, SameRequest, IInv, Pipeline, Stored, StoredIn
  <2>2. WorkOf(e) \in WorkDone /\ WorkOf(e).key = KeyOf(a) /\ WorkOf(e).hash = HashOf(a) /\ WorkOf(e).result = Result(e)
    BY <2>1 DEF WorkDone, WorkOf
  <2>3. answer[a] = NoRow /\ KeyOf(a) # NoKey /\ answer' = [answer EXCEPT ![a] = WorkOf(e).result]
    BY <1>4, <2>1, <2>2 DEF Replay, Asks, IInv, Pipeline, Stored, StoredIn
  <2>4. WorkDone' = WorkDone
    BY <1>4 DEF Replay, WorkDone
  <2> QED BY <2>2, <2>3, <2>4 DEF Requests!Next, Requests!Hear
<1>5. ASSUME NEW a \in Attempts, AskAgain(a) PROVE [Requests!Next]_(Requests!vars)
  <2>1. WorkDone' = WorkDone
    BY <1>5 DEF AskAgain, WorkDone
  <2> QED BY <1>5, <2>1 DEF AskAgain, Requests!Next, Requests!AskAgain
<1>6. ASSUME NEW what, Appended(what), UNCHANGED answer PROVE [Requests!Next]_(Requests!vars)
  <2>1. PICK e : e = [seq |-> nextSeq, at |-> now, id |-> <<timeline, what>>, key |-> NoKey, hash |-> NoRow]
    OBVIOUS
  <2>2. events' = events \cup {e} /\ e.key = NoKey /\ e.hash = NoRow /\ e.seq = nextSeq
    BY <1>6, <2>1 DEF Appended
  <2>3. \A f \in events : f.seq # e.seq
    <3>1. \A f \in events : f.seq \in Nat /\ f.seq < nextSeq /\ nextSeq \in Nat
      BY DEF IInv, Trail, NumberedIn, Pipeline, TypeOK, Event
    <3> QED BY <2>2, <3>1
  <2>4. Requests!Works(NoKey, NoRow, WorkOf(e)) /\ WorkOf(e) \in WorkDone'
    BY <2>2, <2>3, WorkAdded
  <2> QED BY <1>6, <2>4 DEF Requests!Next, Requests!DoOwn
<1>7. CASE Beat
  <2>1. (Appended("FENCE") \/ UNCHANGED events) /\ UNCHANGED answer
    BY <1>7 DEF Beat
  <2> QED BY <1>2, <1>6, <2>1
<1>8. CASE Lift
  BY <1>6, <1>8 DEF Lift
<1>9. CASE Restore
  <2>1. /\ point.events \subseteq events /\ events' = point.events
        /\ answer' = [a \in Attempts |-> IF \E e \in point.events : Result(e) = answer[a] THEN answer[a] ELSE NoRow]
    BY <1>9 DEF Restore, IInv, Trail, PointSound
  <2>2. WorkDone' \subseteq WorkDone
    BY <2>1 DEF WorkDone
  <2>3. \A x : (\E e \in events' : Result(e) = x) <=> (\E w \in WorkDone' : w.result = x)
    <3>1. WorkDone' = {WorkOf(e) : e \in events'} /\ \A e : WorkOf(e).result = Result(e)
      BY DEF WorkDone, WorkOf
    <3> QED BY <3>1
  <2>4. answer' = [a \in Attempts |-> IF \E w \in WorkDone' : w.result = answer[a] THEN answer[a] ELSE NoRow]
    BY <2>1, <2>3, Zenon
  <2> QED BY <2>2, <2>4 DEF Requests!Next, Requests!Recover
<1>10. ASSUME NEW a \in Attempts, Run(a) \/ RollBack(a) PROVE UNCHANGED <<events, answer>>
  BY <1>10 DEF Run, RollBack
<1>11. Tick \/ Seal \/ Adopt \/ Put \/ Record \/ BackUp \/ UNCHANGED vars => UNCHANGED <<events, answer>>
  BY DEF Tick, Seal, Adopt, Put, Record, BackUp, vars, commandVars
<1> QED BY <1>2, <1>3, <1>4, <1>5, <1>7, <1>8, <1>9, <1>10, <1>11 DEF Next, CommandNext

\* The pipeline does what it promises of every request, for any attempts, keys and
\* requests: its transactions, claims and replays, the trail's own events and the
\* recoveries come to one step per request, once per key (executeCommand, pipeline.ts:66).
THEOREM ImplementsAtMostOnce == Spec => Requests!Spec
<1>1. AuditInit => Requests!Init
  BY DEF AuditInit, Init, Requests!Init, WorkDone
<1>2. Spec => [](IInv /\ Unanswered)
  BY TrailInvariant, UnansweredStarts, UnansweredSteps, PTL DEF Spec
<1>3. IInv /\ Unanswered /\ [Next]_vars => [Requests!Next]_(Requests!vars)
  BY RequestsNext
<1> QED BY <1>1, <1>2, <1>3, PTL DEF Spec, Requests!Spec

-----------------------------------------------------------------------------
(* The archive. *)

\* A step taken again and again from a first value: the first so many values.
Values(h, n, W, g, w0) == h \in [0 .. n -> W] /\ h[0] = w0 /\ \A i \in 1 .. n : h[i] = g[h[i - 1]]

\* Any number of steps can be taken.
LEMMA ValuesThere ==
  ASSUME NEW W, NEW g \in [W -> W], NEW w0 \in W
  PROVE  \A n \in Nat : \E h : Values(h, n, W, g, w0)
<1> SUFFICES ASSUME NEW m \in Nat, ~ \E h : Values(h, m, W, g, w0) PROVE FALSE
  OBVIOUS
<1> DEFINE Bad == {n \in Nat : ~ \E h : Values(h, n, W, g, w0)}
<1>1. PICK n \in Bad : \A k \in Bad : n <= k
  <2>1. Bad \in SUBSET Nat /\ Bad # {}
    OBVIOUS
  <2> HIDE DEF Bad
  <2> QED BY <2>1, LeastIn
<1>2. n \in Nat /\ ~ \E h : Values(h, n, W, g, w0)
  OBVIOUS
<1>3. n # 0
  <2>1. Values([i \in 0 .. 0 |-> w0], 0, W, g, w0)
    BY DEF Values
  <2> QED BY <1>2, <2>1
<1>4. n - 1 \in Nat /\ n - 1 \notin Bad
  BY <1>1, <1>2, <1>3
<1>5. PICK h : Values(h, n - 1, W, g, w0)
  BY <1>4
<1>6. PICK k : k = [i \in 0 .. n |-> IF i = n THEN g[h[n - 1]] ELSE h[i]]
  OBVIOUS
<1>7. h \in [0 .. n - 1 -> W] /\ h[0] = w0 /\ \A i \in 1 .. n - 1 : h[i] = g[h[i - 1]]
  BY <1>5 DEF Values
<1>8. k \in [0 .. n -> W]
  BY <1>2, <1>3, <1>6, <1>7
<1>9. k[0] = w0
  BY <1>2, <1>3, <1>6, <1>7
<1>10. ASSUME NEW i \in 1 .. n PROVE k[i] = g[k[i - 1]]
  BY <1>2, <1>3, <1>6, <1>7
<1>11. Values(k, n, W, g, w0)
  BY <1>8, <1>9, <1>10 DEF Values
<1> QED BY <1>2, <1>11

\* However far it is taken, a walk begins the same way.
LEMMA ValuesAgree ==
  ASSUME NEW W, NEW g \in [W -> W], NEW w0 \in W, NEW n \in Nat, NEW h, NEW k,
         Values(h, n, W, g, w0), Values(k, n + 1, W, g, w0)
  PROVE  h[n] = k[n]
<1> SUFFICES ASSUME h[n] # k[n] PROVE FALSE
  OBVIOUS
<1> DEFINE Bad == {i \in Nat : i <= n /\ h[i] # k[i]}
<1>1. PICK i \in Bad : \A j \in Bad : i <= j
  <2>1. Bad \in SUBSET Nat /\ Bad # {}
    OBVIOUS
  <2> HIDE DEF Bad
  <2> QED BY <2>1, LeastIn
<1>2. i \in Nat /\ i <= n /\ h[i] # k[i]
  OBVIOUS
<1>3. i # 0
  BY <1>2 DEF Values
<1>4. i - 1 \in Nat /\ i - 1 \notin Bad
  BY <1>1, <1>2, <1>3
<1>5. h[i - 1] = k[i - 1]
  BY <1>2, <1>4
<1>6. h[i] = g[h[i - 1]] /\ k[i] = g[k[i - 1]]
  BY <1>2, <1>3 DEF Values
<1> QED BY <1>2, <1>5, <1>6

\* The function its recursive definition describes is there.
LEMMA StepsExist ==
  ASSUME NEW W, NEW g \in [W -> W], NEW w0 \in W
  PROVE  \E f \in [Nat -> W] : f = [n \in Nat |-> IF n = 0 THEN w0 ELSE g[f[n - 1]]]
<1> DEFINE H(n) == CHOOSE h : Values(h, n, W, g, w0)
<1>1. \A n \in Nat : Values(H(n), n, W, g, w0)
  <2>1. ASSUME NEW n \in Nat PROVE Values(H(n), n, W, g, w0)
    <3>1. \E h : Values(h, n, W, g, w0)
      BY ValuesThere
    <3> QED BY <3>1
  <2> QED BY <2>1
<1> HIDE DEF H
<1>2. PICK f : f = [n \in Nat |-> H(n)[n]]
  OBVIOUS
<1>3. ASSUME NEW n \in Nat PROVE f[n] \in W /\ f[n] = IF n = 0 THEN w0 ELSE g[f[n - 1]]
  <2>1. f[n] = H(n)[n] /\ H(n) \in [0 .. n -> W]
    BY <1>1, <1>2 DEF Values
  <2>2. CASE n = 0
    BY <1>1, <2>1, <2>2 DEF Values
  <2>3. CASE n # 0
    <3>1. n - 1 \in Nat /\ (n - 1) + 1 = n /\ n \in 1 .. n
      BY <2>3
    <3>2. H(n)[n] = g[H(n)[n - 1]]
      BY <1>1, <3>1 DEF Values
    <3>3. Values(H(n - 1), n - 1, W, g, w0) /\ Values(H(n), (n - 1) + 1, W, g, w0)
      BY <1>1, <3>1
    <3>4. H(n - 1)[n - 1] = H(n)[n - 1]
      BY <3>1, <3>3, ValuesAgree
    <3>5. f[n - 1] = H(n - 1)[n - 1]
      BY <1>2, <3>1
    <3> QED BY <2>1, <2>3, <3>2, <3>4, <3>5
  <2> QED BY <2>2, <2>3
<1>4. f \in [Nat -> W]
  BY <1>2, <1>3
<1>5. f = [n \in Nat |-> IF n = 0 THEN w0 ELSE g[f[n - 1]]]
  BY <1>2, <1>3
<1> QED BY <1>4, <1>5

Start == [from |-> 1, ranges |-> <<>>, gap |-> FALSE]

\* What the first walk satisfies and every step keeps, all of them satisfy.
LEMMA WalkKeeps ==
  ASSUME NEW W, Start \in W, \A w \in W : Follow(w) \in W
  PROVE  \A n \in Nat : Walk[n] \in W
<1> DEFINE g == [w \in W |-> Follow(w)]
<1>1. g \in [W -> W]
  OBVIOUS
<1>2. PICK f \in [Nat -> W] : f = [n \in Nat |-> IF n = 0 THEN Start ELSE g[f[n - 1]]]
  <2> HIDE DEF g
  <2> QED BY <1>1, StepsExist
<1>3. ASSUME NEW n \in Nat PROVE (IF n = 0 THEN Start ELSE g[f[n - 1]]) = (IF n = 0 THEN Start ELSE Follow(f[n - 1]))
  BY <1>2
<1>4. f = [n \in Nat |-> IF n = 0 THEN Start ELSE Follow(f[n - 1])]
  BY <1>2, <1>3
<1>5. Walk = [n \in Nat |-> IF n = 0 THEN Start ELSE Follow(Walk[n - 1])]
  BY <1>4, Zenon DEF Walk, Start
<1> HIDE DEF Walk
<1> SUFFICES ASSUME NEW m \in Nat, Walk[m] \notin W PROVE FALSE
  OBVIOUS
<1> DEFINE Bad == {n \in Nat : Walk[n] \notin W}
<1>6. PICK n \in Bad : \A k \in Bad : n <= k
  <2>1. Bad \in SUBSET Nat /\ Bad # {}
    OBVIOUS
  <2> HIDE DEF Bad
  <2> QED BY <2>1, LeastIn
<1>7. n # 0
  BY <1>5
<1>8. n - 1 \in Nat /\ Walk[n - 1] \in W
  BY <1>6, <1>7
<1>9. Walk[n] = Follow(Walk[n - 1])
  BY <1>5, <1>7
<1> QED BY <1>8, <1>9

\* A seal, wherever it is kept: it ends at an event that was past the settle window
\* when the seal was taken.
SealSound(s) ==
  /\ s.id \in Nat /\ s.from \in Nat /\ s.to \in Nat /\ s.sealedAt \in Nat
  /\ 0 < s.id /\ 0 < s.from /\ s.from <= s.to
  /\ \E x \in s.hash.rows : x.seq = s.to /\ x.at + Settle < s.sealedAt
\* In the order of their numbers, seals cover the events in order; each continues
\* another, or is the first.
InOrder(S) == \A s, t \in S : (s.id = t.id => s = t) /\ (s.id < t.id => s.to < t.from)
Opening(s) == s.from = 1 /\ s.prev = NoRow
Chained(s, b) == b.id < s.id /\ b.to + 1 = s.from /\ b.hash = s.prev
Line(S) ==
  /\ \A s \in S : SealSound(s)
  /\ InOrder(S)
  /\ \A s \in S : Opening(s) \/ \E b \in S : Chained(s, b)

IsFirst(s, S) == s \in S /\ \A t \in S : s.id <= t.id
IsLast(s, S) == s \in S /\ \A t \in S : t.id <= s.id

\* The first of some seals in order is the one with the least number,
LEMMA FirstIs ==
  ASSUME NEW S, InOrder(S), \A s \in S : SealSound(s), NEW f, IsFirst(f, S)
  PROVE  FirstOf(S) = f
<1>1. \A s \in S : (\A t \in S : s.id =< t.id) => s = f
  <2> SUFFICES ASSUME NEW s \in S, \A t \in S : s.id =< t.id PROVE s = f
    OBVIOUS
  <2>1. s.id <= f.id /\ f.id <= s.id /\ s.id \in Nat /\ f.id \in Nat /\ f \in S
    BY DEF IsFirst, SealSound
  <2>2. s.id = f.id
    BY <2>1
  <2> QED BY <2>1, <2>2 DEF InOrder
<1>2. f \in S /\ \A t \in S : f.id =< t.id
  BY DEF IsFirst
<1> QED BY <1>1, <1>2 DEF FirstOf

\* and the last the one with the greatest.
LEMMA LastIs ==
  ASSUME NEW S, InOrder(S), \A s \in S : SealSound(s), NEW f, IsLast(f, S)
  PROVE  LastOf(S) = f
<1>1. \A s \in S : (\A t \in S : t.id =< s.id) => s = f
  <2> SUFFICES ASSUME NEW s \in S, \A t \in S : t.id =< s.id PROVE s = f
    OBVIOUS
  <2>1. s.id <= f.id /\ f.id <= s.id /\ s.id \in Nat /\ f.id \in Nat /\ f \in S
    BY DEF IsLast, SealSound
  <2>2. s.id = f.id
    BY <2>1
  <2> QED BY <2>1, <2>2 DEF InOrder
<1>2. f \in S /\ \A t \in S : t.id =< f.id
  BY DEF IsLast
<1> QED BY <1>1, <1>2 DEF LastOf

\* Of some seals there is a first,
LEMMA FirstThere ==
  ASSUME NEW S, \A s \in S : SealSound(s), S # {} PROVE IsFirst(FirstOf(S), S)
<1> DEFINE I == {s.id : s \in S}
<1>1. PICK i \in I : \A j \in I : i <= j
  <2>1. I \in SUBSET Nat /\ I # {}
    BY DEF SealSound
  <2> HIDE DEF I
  <2> QED BY <2>1, LeastIn
<1>2. PICK s \in S : s.id = i
  OBVIOUS
<1>3. \A t \in S : s.id =< t.id
  BY <1>1, <1>2
<1> QED BY <1>3 DEF FirstOf, IsFirst

\* and of some below a bound a last.
LEMMA LastThere ==
  ASSUME NEW S, \A s \in S : SealSound(s), S # {}, NEW n \in Nat, \A s \in S : s.id < n
  PROVE  IsLast(LastOf(S), S)
<1> DEFINE I == {s.id : s \in S}
<1>1. PICK i \in I : \A j \in I : j <= i
  <2>1. I \in SUBSET Nat /\ I # {} /\ \A i \in I : i < n
    BY DEF SealSound
  <2> HIDE DEF I
  <2> QED BY <2>1, GreatestIn
<1>2. PICK s \in S : s.id = i
  OBVIOUS
<1>3. \A t \in S : t.id =< s.id
  BY <1>1, <1>2
<1> QED BY <1>3 DEF LastOf, IsLast

\* What covers earlier events has the lesser number, and the other way round.
LEMMA Placed ==
  ASSUME NEW S, InOrder(S), \A s \in S : SealSound(s), NEW x \in S, NEW y \in S
  PROVE  /\ x.to < y.from <=> x.id < y.id
         /\ x.to < y.to <=> x.id < y.id
         /\ x.to = y.to => x = y
         /\ x.from = y.from => x = y
<1>1. /\ x.id \in Nat /\ x.to \in Nat /\ x.from \in Nat /\ x.from <= x.to
      /\ y.id \in Nat /\ y.to \in Nat /\ y.from \in Nat /\ y.from <= y.to
  BY DEF SealSound
<1>2. /\ x.id = y.id => x = y
      /\ x.id < y.id => x.to < y.from
      /\ y.id < x.id => y.to < x.from
  BY DEF InOrder
<1> QED BY <1>1, <1>2

\* The one that ends where another begins comes right before it.
LEMMA Before ==
  ASSUME NEW S, Line(S), NEW s \in S, NEW b \in S, b.to + 1 = s.from
  PROVE  Chained(s, b) /\ \A t \in S : t.id < s.id => t.id <= b.id
<1>1. \A x \in S : x.id \in Nat /\ x.to \in Nat /\ x.from \in Nat /\ x.from <= x.to /\ 0 < x.from
  BY DEF Line, SealSound
<1>2. InOrder(S) /\ \A x \in S : SealSound(x)
  BY DEF Line
<1>3. \A x, y \in S : (x.to < y.from <=> x.id < y.id) /\ (x.to = y.to => x = y)
  BY <1>2, Placed
<1>4. ASSUME NEW t \in S, t.id < s.id PROVE t.id <= b.id
  <2>1. t.to < s.from
    BY <1>3, <1>4
  <2>2. ~ (b.to < t.from)
    BY <1>1, <2>1
  <2> QED BY <1>1, <1>3, <2>2
<1>5. ~ Opening(s)
  BY <1>1 DEF Opening
<1>6. PICK c \in S : Chained(s, c)
  BY <1>5 DEF Line
<1>7. c = b
  BY <1>1, <1>3, <1>6 DEF Chained
<1> QED BY <1>4, <1>6, <1>7

\* A part of a line that holds, of each, all that come before it is a line.
LEMMA PartOfLine ==
  ASSUME NEW S, Line(S), NEW P, P \subseteq S, \A s \in P, t \in S : t.id < s.id => t \in P
  PROVE  Line(P)
<1>1. ASSUME NEW s \in P, ~ Opening(s) PROVE \E b \in P : Chained(s, b)
  <2>1. PICK b \in S : Chained(s, b)
    BY <1>1 DEF Line
  <2>2. b \in P
    BY <2>1 DEF Chained
  <2> QED BY <2>1, <2>2
<1> QED BY <1>1 DEF Line, InOrder

\* Where the exports end: at nothing, or at a seal here.
Reached(l, S) ==
  \/ l.last = 0 /\ l.to = 0 /\ l.hash = NoRow
  \/ \E s \in S : l.last = s.id /\ l.to = s.to /\ l.hash = s.hash
Beyond(l, S) == {s \in S : s.id > l.last}

\* The seal that starts where the exports end is the first of those they leave.
LEMMA NextOf ==
  ASSUME NEW S, Line(S), NEW l, Reached(l, S)
  PROVE  /\ \A s \in S : s.from = l.to + 1 => IsFirst(s, Beyond(l, S)) /\ s.prev = l.hash
         /\ \A s : IsFirst(s, Beyond(l, S)) => s.from = l.to + 1 /\ s.prev = l.hash
<1>1. \A x \in S : x.id \in Nat /\ x.to \in Nat /\ x.from \in Nat /\ x.from <= x.to /\ 0 < x.from /\ 0 < x.id
  BY DEF Line, SealSound
<1>2. \A x, y \in S : /\ x.id = y.id => x = y
                      /\ x.id < y.id => x.to < y.from
  BY DEF Line, InOrder
<1>3. \A s \in S : (s.from = 1 /\ s.prev = NoRow) \/ \E b \in S : Chained(s, b)
  BY DEF Line, Opening
<1>4. CASE l.last = 0 /\ l.to = 0 /\ l.hash = NoRow
  <2>1. ASSUME NEW s \in S, s.from = l.to + 1
        PROVE  IsFirst(s, Beyond(l, S)) /\ s.prev = l.hash
    <3>1. s.from = 1
      BY <1>4, <2>1
    <3>2. \A b \in S : ~ Chained(s, b)
      BY <1>1, <3>1 DEF Chained
    <3>3. s.prev = l.hash
      BY <1>3, <1>4, <3>2
    <3>4. ASSUME NEW t \in S PROVE s.id <= t.id
      BY <1>1, <1>2, <3>1
    <3>5. s \in Beyond(l, S)
      BY <1>1, <1>4 DEF Beyond
    <3>6. IsFirst(s, Beyond(l, S))
      BY <3>4, <3>5 DEF IsFirst, Beyond
    <3> QED BY <3>3, <3>6
  <2>2. ASSUME NEW s, IsFirst(s, Beyond(l, S))
        PROVE  s.from = l.to + 1 /\ s.prev = l.hash
    <3>1. s \in S /\ \A t \in S : t.id > 0 => s.id <= t.id
      BY <1>4, <2>2 DEF IsFirst, Beyond
    <3>2. \A b \in S : ~ Chained(s, b)
      BY <1>1, <3>1 DEF Chained
    <3> QED BY <1>3, <1>4, <3>1, <3>2
  <2> QED BY <2>1, <2>2
<1>5. CASE \E s \in S : l.last = s.id /\ l.to = s.to /\ l.hash = s.hash
  <2>1. PICK z \in S : l.last = z.id /\ l.to = z.to /\ l.hash = z.hash
    BY <1>5
  <2>2. ASSUME NEW s \in S, s.from = l.to + 1
        PROVE  IsFirst(s, Beyond(l, S)) /\ s.prev = l.hash
    <3>1. Chained(s, z) /\ \A t \in S : t.id < s.id => t.id <= z.id
      BY <2>1, <2>2, Before
    <3>2. s \in Beyond(l, S) /\ s.prev = l.hash
      BY <2>1, <3>1, <1>1 DEF Chained, Beyond
    <3>3. ASSUME NEW t \in S, t.id > z.id PROVE s.id <= t.id
      BY <1>1, <3>1, <3>3
    <3>4. IsFirst(s, Beyond(l, S))
      BY <2>1, <3>2, <3>3 DEF IsFirst, Beyond
    <3> QED BY <3>2, <3>4
  <2>3. ASSUME NEW s, IsFirst(s, Beyond(l, S))
        PROVE  s.from = l.to + 1 /\ s.prev = l.hash
    <3>1. s \in S /\ s.id > z.id /\ \A t \in S : t.id > z.id => s.id <= t.id
      BY <2>1, <2>3 DEF IsFirst, Beyond
    <3>2. z.to < s.from
      BY <1>1, <1>2, <3>1
    <3>3. ~ Opening(s)
      BY <1>1, <3>1, <3>2 DEF Opening
    <3>4. PICK b \in S : Chained(s, b)
      BY <1>3, <3>3, <3>1 DEF Opening
    <3>5. b.id < s.id /\ b.to + 1 = s.from /\ b.hash = s.prev
      BY <3>4 DEF Chained
    <3>6. b.id <= z.id
      BY <1>1, <3>1, <3>5
    <3>7. z.to <= b.to
      BY <1>1, <3>1, <3>2, <3>5
    <3>8. b = z
      BY <1>1, <1>2, <3>6, <3>7
    <3> QED BY <2>1, <3>5, <3>8
  <2> QED BY <2>2, <2>3
<1> QED BY <1>4, <1>5 DEF Reached

-----------------------------------------------------------------------------
\* A range as written, whatever became of the database since.
RangeSound(d) ==
  /\ \A s \in d.seals : SealSound(s)
  /\ InOrder(d.seals)
  /\ \A s \in d.seals : s = FirstOf(d.seals) \/ \E b \in d.seals : Chained(s, b)
  /\ IsFirst(FirstOf(d.seals), d.seals) /\ IsLast(LastOf(d.seals), d.seals)
  /\ d = Document(d.seals, d.after, d.afterHash)
  /\ FirstOf(d.seals).prev = d.afterHash
  /\ d.after \in Nat /\ d.after < d.first /\ (d.from = 1 => d.after = 0)
Kept(A) ==
  /\ IsFiniteSet(A)
  /\ \A d \in A : RangeSound(d)
  /\ \A d, e \in A : Named(d) = Named(e) => d = e

\* Range d continues p.  Where the database has d's first seal it has all of p; where
\* it lost p's last seal, it has none of d's, and what it sealed from there on it
\* sealed later.
Precedes(p, d, S) ==
  /\ p.to + 1 = d.from /\ p.last = d.after /\ LastOf(p.seals).hash = d.afterHash
  /\ FirstOf(d.seals) \in S => p.seals \subseteq S
  /\ LastOf(p.seals) \notin S =>
       \A s \in d.seals : s \notin S /\ \A g \in S : g.to >= p.to => s.sealedAt <= g.sealedAt
\* How the archive lies to the seals here.
Whole(d, S) == d.seals \subseteq S
Branches(A, S) ==
  /\ \A d \in A : d.from = 1 \/ \E p \in A : Precedes(p, d, S)
  /\ \A d, e \in A : Whole(d, S) /\ Whole(e, S) /\ d.from = e.from => d = e
  /\ \A d \in A : Whole(d, S) => \A s \in S : s.id \in d.first .. d.last => s \in d.seals
  /\ \A d \in A : \A s, t \in d.seals : t.id < s.id /\ s \in S => t \in S

\* The exports recorded: ranges of the archive, of seals here, end to end.
EndBefore(xs, i) == IF i = 1 THEN 0 ELSE xs[i - 1].to
RecordOf(x, d, from, S) == x = Entry(d) /\ d.from = from /\ Whole(d, S)
RecordedIn(xs, A, S) ==
  /\ xs \in Seq(Range(xs))
  /\ \A i \in DOMAIN xs : xs[i].to \in Nat /\ xs[i].to <= xs[Len(xs)].to
  /\ \A i \in DOMAIN xs : \E d \in A : RecordOf(xs[i], d, EndBefore(xs, i) + 1, S)
EndIn(xs) == IF xs = <<>> THEN [last |-> 0, to |-> 0, hash |-> NoRow] ELSE xs[Len(xs)]

\* A range names its own first and last seal, and where they start and end.
LEMMA RangeIs ==
  ASSUME NEW d, RangeSound(d)
  PROVE  /\ d.first = FirstOf(d.seals).id /\ d.last = LastOf(d.seals).id
         /\ d.from = FirstOf(d.seals).from /\ d.to = LastOf(d.seals).to
         /\ FirstOf(d.seals) \in d.seals /\ LastOf(d.seals) \in d.seals
         /\ d.from \in Nat /\ d.to \in Nat /\ 0 < d.from /\ d.from <= d.to
         /\ d.first \in Nat /\ d.last \in Nat /\ d.first <= d.last /\ 0 < d.first
         /\ \A s \in d.seals : /\ s.id \in d.first .. d.last /\ d.from <= s.from /\ s.to <= d.to
                               /\ s.from \in Nat /\ s.to \in Nat /\ s.id \in Nat /\ s.from <= s.to
<1>1. d = Document(d.seals, d.after, d.afterHash)
  BY DEF RangeSound
<1>2. /\ d.first = FirstOf(d.seals).id /\ d.last = LastOf(d.seals).id
      /\ d.from = FirstOf(d.seals).from /\ d.to = LastOf(d.seals).to
  BY <1>1 DEF Document
<1>3. PICK f : f = FirstOf(d.seals)
  OBVIOUS
<1>4. PICK l : l = LastOf(d.seals)
  OBVIOUS
<1>5. IsFirst(f, d.seals) /\ IsLast(l, d.seals) /\ InOrder(d.seals)
  BY <1>3, <1>4 DEF RangeSound
<1>6. \A s \in d.seals : /\ s.id \in Nat /\ s.from \in Nat /\ s.to \in Nat /\ 0 < s.id /\ 0 < s.from /\ s.from <= s.to
  BY DEF RangeSound, SealSound
<1>7. f \in d.seals /\ l \in d.seals /\ \A s \in d.seals : f.id <= s.id /\ s.id <= l.id
  BY <1>5 DEF IsFirst, IsLast
<1>8. \A s \in d.seals : f.from <= s.from /\ s.to <= l.to
  BY <1>5, <1>6, <1>7 DEF InOrder
<1> QED BY <1>2, <1>3, <1>4, <1>6, <1>7, <1>8

\* The last of what is recorded is a seal here.
LEMMA EndReached ==
  ASSUME NEW A, NEW S, NEW xs, RecordedIn(xs, A, S), \A d \in A : RangeSound(d)
  PROVE  /\ Reached(EndIn(xs), S) /\ EndIn(xs).to \in Nat /\ EndIn(xs).last \in Nat
         /\ xs # <<>> => \E r \in A : /\ Whole(r, S) /\ EndIn(xs) = Entry(r)
<1>1. CASE xs = <<>>
  BY <1>1 DEF EndIn, Reached
<1>2. CASE xs # <<>>
  <2>1. Len(xs) \in DOMAIN xs
    BY <1>2 DEF RecordedIn
  <2>2. PICK r \in A : RecordOf(xs[Len(xs)], r, EndBefore(xs, Len(xs)) + 1, S)
    BY <2>1 DEF RecordedIn
  <2>3. EndIn(xs) = Entry(r) /\ Whole(r, S)
    BY <1>2, <2>2 DEF EndIn, RecordOf
  <2>4. LastOf(r.seals) \in S /\ r.last = LastOf(r.seals).id /\ r.to = LastOf(r.seals).to /\ r.last \in Nat /\ r.to \in Nat
    BY <2>3, RangeIs DEF Whole
  <2>5. EndIn(xs).last = r.last /\ EndIn(xs).to = r.to /\ EndIn(xs).hash = LastOf(r.seals).hash
    BY <2>3 DEF Entry
  <2> QED BY <2>3, <2>4, <2>5 DEF Reached
<1> QED BY <1>1, <1>2

\* Adoptable, at any end of the exports and of any seals.
AdoptableAt(d, l, S) ==
  /\ Beyond(l, S) # {} /\ d.first = FirstOf(Beyond(l, S)).id
  /\ d.after = l.last /\ d.afterHash = l.hash
  /\ {s \in S : s.id \in d.first .. d.last} = d.seals

\* What is left of a line is in order.
LEMMA BeyondInLine == ASSUME NEW S, Line(S), NEW l PROVE InOrder(Beyond(l, S)) /\ \A s \in Beyond(l, S) : SealSound(s)
  BY DEF Line, InOrder, Beyond

\* A range the database has whole, and that starts where the exports end, is adopted.
LEMMA WholeIsAdopted ==
  ASSUME NEW A, NEW S, NEW xs, Line(S), Kept(A), Branches(A, S), RecordedIn(xs, A, S),
         NEW d \in A, Whole(d, S), d.from = EndIn(xs).to + 1
  PROVE  AdoptableAt(d, EndIn(xs), S)
<1>1. \A x \in A : RangeSound(x)
  BY DEF Kept
<1>2. PICK l : l = EndIn(xs)
  OBVIOUS
<1>3. Reached(l, S) /\ l.to \in Nat /\ l.last \in Nat
  BY <1>1, <1>2, EndReached
<1>4. PICK f : f = FirstOf(d.seals)
  OBVIOUS
<1>5. f \in S /\ d.first = f.id /\ f.from = l.to + 1 /\ d.afterHash = f.prev
  BY <1>1, <1>2, <1>4, RangeIs DEF Whole, RangeSound
<1>6. IsFirst(f, Beyond(l, S)) /\ f.prev = l.hash
  BY <1>3, <1>5, NextOf
<1>7. FirstOf(Beyond(l, S)) = f /\ Beyond(l, S) # {}
  BY <1>6, BeyondInLine, FirstIs DEF IsFirst
<1>8. d.after = l.last
  <2>1. CASE d.from = 1
    <3>1. d.after = 0 /\ l.to = 0
      BY <1>1, <1>2, <1>3, <2>1 DEF RangeSound
    <3>2. \A s \in S : s.to \in Nat /\ s.from \in Nat /\ 0 < s.from /\ s.from <= s.to
      BY DEF Line, SealSound
    <3>3. l.last = 0
      BY <1>3, <3>1, <3>2 DEF Reached
    <3> QED BY <3>1, <3>3
  <2>2. CASE d.from # 1
    <3>1. PICK p \in A : Precedes(p, d, S)
      BY <2>2 DEF Branches
    <3>2. p.to + 1 = d.from /\ p.last = d.after /\ p.seals \subseteq S
      BY <1>4, <1>5, <3>1 DEF Precedes
    <3>3. PICK z : z = LastOf(p.seals)
      OBVIOUS
    <3>4. z \in S /\ p.last = z.id /\ p.to = z.to /\ p.to \in Nat /\ p.from \in Nat /\ 0 < p.from /\ p.from <= p.to
      BY <1>1, <3>2, <3>3, RangeIs
    <3>5. p.to = l.to /\ l.to # 0
      BY <1>2, <1>3, <3>2, <3>4
    <3>6. PICK y \in S : l.last = y.id /\ l.to = y.to
      BY <1>3, <3>5 DEF Reached
    <3>7. y = z
      BY <3>4, <3>5, <3>6, Placed DEF Line
    <3> QED BY <3>2, <3>4, <3>6, <3>7
  <2> QED BY <2>1, <2>2
<1>9. {s \in S : s.id \in d.first .. d.last} = d.seals
  <2>1. \A s \in d.seals : s \in S /\ s.id \in d.first .. d.last
    BY <1>1, RangeIs DEF Whole
  <2>2. \A s \in S : s.id \in d.first .. d.last => s \in d.seals
    BY DEF Branches
  <2> QED BY <2>1, <2>2
<1> QED BY <1>2, <1>5, <1>6, <1>7, <1>8, <1>9 DEF AdoptableAt

\* Where nothing is left to adopt, every range the database has whole is recorded.
LEMMA WholeIsRecorded ==
  ASSUME NEW A, NEW S, NEW xs, Line(S), Kept(A), Branches(A, S), RecordedIn(xs, A, S),
         \A d \in A : ~ AdoptableAt(d, EndIn(xs), S),
         NEW e \in A, Whole(e, S)
  PROVE  \E i \in DOMAIN xs : RecordOf(xs[i], e, EndBefore(xs, i) + 1, S)
<1> DEFINE Rec(d) == \E i \in DOMAIN xs : RecordOf(xs[i], d, EndBefore(xs, i) + 1, S)
           Bad == {d.from : d \in {x \in A : Whole(x, S) /\ ~ Rec(x)}}
<1> SUFFICES ASSUME ~ Rec(e) PROVE FALSE
  OBVIOUS
<1>1. \A x \in A : RangeSound(x)
  BY DEF Kept
<1>2. PICK n \in Bad : \A k \in Bad : n <= k
  <2>1. \A x \in A : x.from \in Nat
    BY <1>1, RangeIs
  <2>2. Bad \in SUBSET Nat /\ Bad # {}
    BY <2>1
  <2> HIDE DEF Bad
  <2> QED BY <2>2, LeastIn
<1>3. PICK d \in A : Whole(d, S) /\ ~ Rec(d) /\ d.from = n
  OBVIOUS
<1>4. \A x \in A : Whole(x, S) /\ ~ Rec(x) => d.from <= x.from
  BY <1>2, <1>3
<1>5. d.from # EndIn(xs).to + 1
  BY <1>3, WholeIsAdopted
<1>6. xs \in Seq(Range(xs)) /\ DOMAIN xs = 1 .. Len(xs) /\ Len(xs) \in Nat
  BY DEF RecordedIn
<1>7. \A i \in DOMAIN xs : EndBefore(xs, i) + 1 # d.from
  <2> SUFFICES ASSUME NEW i \in DOMAIN xs, EndBefore(xs, i) + 1 = d.from PROVE FALSE
    OBVIOUS
  <2>1. PICK r \in A : RecordOf(xs[i], r, EndBefore(xs, i) + 1, S)
    BY DEF RecordedIn
  <2>2. r = d
    BY <1>3, <2>1 DEF RecordOf, Branches
  <2> QED BY <1>3, <2>1, <2>2
<1>8. CASE d.from = 1
  <2>1. xs # <<>>
    BY <1>5, <1>8 DEF EndIn
  <2>2. 1 \in DOMAIN xs
    BY <1>6, <2>1
  <2> QED BY <1>7, <1>8, <2>2 DEF EndBefore
<1>9. CASE d.from # 1
  <2>1. PICK p \in A : Precedes(p, d, S)
    BY <1>9 DEF Branches
  <2>2. FirstOf(d.seals) \in S
    BY <1>1, <1>3, RangeIs DEF Whole
  <2>3. Whole(p, S) /\ p.to + 1 = d.from
    BY <2>1, <2>2 DEF Precedes, Whole
  <2>4. p.from \in Nat /\ p.to \in Nat /\ p.from <= p.to
    BY <1>1, RangeIs
  <2>5. Rec(p)
    BY <1>4, <2>3, <2>4
  <2>6. PICK i \in DOMAIN xs : RecordOf(xs[i], p, EndBefore(xs, i) + 1, S)
    BY <2>5
  <2>7. xs[i].to = p.to
    BY <2>6 DEF RecordOf, Entry
  <2>8. i # Len(xs)
    BY <1>5, <1>6, <2>3, <2>7 DEF EndIn
  <2>9. i + 1 \in DOMAIN xs /\ i + 1 # 1 /\ (i + 1) - 1 = i
    BY <1>6, <2>8
  <2>10. EndBefore(xs, i + 1) + 1 = d.from
    BY <2>3, <2>7, <2>9 DEF EndBefore
  <2> QED BY <1>7, <2>9, <2>10
<1> QED BY <1>8, <1>9

-----------------------------------------------------------------------------
\* SameHere, of any seals.
SameIn(s, S) ==
  \E h \in S : h.id = s.id /\ h.hash = s.hash /\ h.prev = s.prev /\ h.from = s.from /\ h.to = s.to
Agrees(d, S) == \A s \in d.seals : SameIn(s, S)
\* What the seals hash, and what is left to the next one.
Hashing(S, es) == \A h \in S : h.hash = HashOver(es, h.prev, h.from, h.to)
Settling(S, es) == \A h \in S, e \in es : e.seq \in Nat /\ e.at \in Nat /\ (e.seq > h.to => e.at + Settle >= h.sealedAt)

\* Where nothing is left to adopt, a range that agrees starts no later than where the
\* exports end: the archive has no range after a gap.
LEMMA AgreeingWithin ==
  ASSUME NEW A, NEW S, NEW xs, NEW es, Line(S), Kept(A), Branches(A, S), RecordedIn(xs, A, S),
         Hashing(S, es), Settling(S, es),
         \A d \in A : ~ AdoptableAt(d, EndIn(xs), S),
         NEW e \in A, Agrees(e, S)
  PROVE  e.from <= EndIn(xs).to + 1
<1> SUFFICES ASSUME ~ (e.from <= EndIn(xs).to + 1) PROVE FALSE
  OBVIOUS
<1>1. \A x \in A : RangeSound(x)
  BY DEF Kept
<1>2. EndIn(xs).to \in Nat /\ e.from \in Nat /\ e.from # 1
  BY <1>1, RangeIs, EndReached
<1>3. PICK p \in A : Precedes(p, e, S)
  BY <1>2 DEF Branches
<1>4. p.to + 1 = e.from /\ p.to \in Nat /\ p.to > EndIn(xs).to
  BY <1>1, <1>2, <1>3, RangeIs DEF Precedes
<1>5. ~ Whole(p, S)
  <2> SUFFICES ASSUME Whole(p, S) PROVE FALSE
    OBVIOUS
  <2>1. PICK i \in DOMAIN xs : RecordOf(xs[i], p, EndBefore(xs, i) + 1, S)
    BY WholeIsRecorded
  <2>2. xs[i].to = p.to /\ xs # <<>>
    BY <2>1 DEF RecordOf, Entry
  <2>3. xs[i].to <= xs[Len(xs)].to
    BY <2>1 DEF RecordedIn
  <2>4. EndIn(xs).to = xs[Len(xs)].to
    BY <2>2 DEF EndIn
  <2> QED BY <1>2, <1>4, <2>2, <2>3, <2>4
<1>6. PICK s : s = FirstOf(e.seals)
  OBVIOUS
<1>7. PICK z : z = LastOf(p.seals)
  OBVIOUS
<1>8. s \in e.seals /\ s.from = e.from /\ z \in p.seals /\ p.last = z.id
  BY <1>1, <1>6, <1>7, RangeIs
<1>9. z \notin S
  <2> SUFFICES ASSUME z \in S PROVE Whole(p, S)
    BY <1>5
  <2>1. ASSUME NEW t \in p.seals PROVE t \in S
    <3>1. t.id <= z.id /\ t.id \in Nat /\ z.id \in Nat
      BY <1>1, <1>7, <1>8 DEF RangeSound, IsLast, SealSound
    <3>2. CASE t.id = z.id
      BY <1>1, <1>8, <3>2 DEF RangeSound, InOrder
    <3>3. CASE t.id < z.id
      BY <1>8, <3>3 DEF Branches
    <3> QED BY <3>1, <3>2, <3>3
  <2> QED BY <2>1 DEF Whole
<1>10. \A g \in S : g.to >= p.to => s.sealedAt <= g.sealedAt
  BY <1>3, <1>7, <1>8, <1>9 DEF Precedes
<1>11. PICK h \in S : h.hash = s.hash /\ h.from = s.from /\ h.to = s.to
  BY <1>8 DEF Agrees, SameIn
<1>12. PICK g \in S : Chained(h, g)
  BY <1>2, <1>8, <1>11 DEF Line, Opening
<1>13. /\ g.to \in Nat /\ g.sealedAt \in Nat /\ s.sealedAt \in Nat /\ h.from \in Nat /\ h.to \in Nat /\ h.from <= h.to
       /\ s.to \in Nat /\ Settle \in Nat
  BY <1>1, <1>8, AuditAssumption DEF Line, SealSound, RangeSound
<1>14. g.to = p.to
  BY <1>4, <1>8, <1>11, <1>12, <1>13 DEF Chained
<1>15. s.sealedAt <= g.sealedAt
  BY <1>10, <1>13, <1>14
<1>16. PICK x \in s.hash.rows : x.seq = s.to /\ x.at + Settle < s.sealedAt
  BY <1>1, <1>8 DEF RangeSound, SealSound
<1>17. x \in es
  <2>1. PICK r : r = {y \in es : y.seq \in h.from .. h.to}
    OBVIOUS
  <2>2. h.hash = [prev |-> h.prev, rows |-> r]
    BY <2>1, Zenon DEF Hashing, HashOver
  <2>3. s.hash.rows = r
    BY <1>11, <2>2
  <2> QED BY <1>16, <2>1, <2>3
<1>18. x.seq > g.to
  BY <1>11, <1>12, <1>13, <1>16 DEF Chained
<1>19. x.at \in Nat /\ x.at + Settle >= g.sealedAt
  BY <1>17, <1>18 DEF Settling
<1> QED BY <1>13, <1>15, <1>16, <1>19

SealsHere == Range(seals)
\* What a later fence explains of a seal the database lost.
Explained(s, ff) == \E f \in ff : s.sealedAt > f.known
\* What verification finds: the archive and the exports as they lie to the seals here,
\* everything lost explained, and nothing left to adopt.
Verifiable ==
  /\ Line(SealsHere) /\ Kept(archive) /\ Branches(archive, SealsHere)
  /\ RecordedIn(exports, archive, SealsHere)
  /\ Hashing(SealsHere, events) /\ Settling(SealsHere, events)
  /\ \A d \in archive : \A s \in d.seals : s \in SealsHere \/ Explained(s, fences)
  /\ \A d \in archive : ~ AdoptableAt(d, EndIn(exports), SealsHere)

\* The archive's operators, of any seals.
LEMMA DiffersIs == \A d : Differs(d) <=> ~ Agrees(d, SealsHere)
  BY DEF Differs, Agrees, SameHere, SameIn, SealsHere

\* A seal that is here is here as it was archived.
LEMMA SameIfHere == \A s \in SealsHere : SameHere(s)
  BY DEF SameHere, SealsHere

\* A range that differs is of a timeline a fence explains.
LEMMA DifferingSuperseded ==
  ASSUME Verifiable, NEW d \in archive, Differs(d) PROVE Superseded(d)
<1> DEFINE D == {s \in d.seals : ~ SameHere(s)}
<1>1. D # {} /\ \A s \in D : SealSound(s)
  BY DEF Differs, Verifiable, Kept, RangeSound
<1>2. FirstDifference(d) = FirstOf(D)
  BY DEF FirstDifference
<1>3. \A s \in D : s \in d.seals /\ s \notin SealsHere
  BY SameIfHere
<1> HIDE DEF D
<1>4. FirstOf(D) \in D
  BY <1>1, FirstThere DEF IsFirst
<1>5. Explained(FirstDifference(d), fences)
  BY <1>2, <1>3, <1>4 DEF Verifiable
<1> QED BY <1>5 DEF Superseded, Explained

\* A range whose name is recorded is the one that was recorded,
LEMMA RecordedIs ==
  ASSUME Verifiable, NEW d \in archive, Recorded(d)
  PROVE  \E i \in DOMAIN exports : RecordOf(exports[i], d, EndBefore(exports, i) + 1, SealsHere)
<1>1. PICK i \in DOMAIN exports : exports[i].key = Named(d)
  BY DEF Recorded, Range
<1>2. PICK r \in archive : RecordOf(exports[i], r, EndBefore(exports, i) + 1, SealsHere)
  BY DEF Verifiable, RecordedIn
<1>3. Named(r) = Named(d)
  BY <1>1, <1>2 DEF RecordOf, Entry
<1>4. r = d
  BY <1>3 DEF Verifiable, Kept
<1> QED BY <1>2, <1>4

\* and every record has its range, which agrees.
LEMMA RecordingIs ==
  ASSUME Verifiable, NEW i \in DOMAIN exports
  PROVE  \E d \in archive : /\ d.from = EndBefore(exports, i) + 1 /\ Recorded(d)
                            /\ Agrees(d, SealsHere) /\ exports[i].to = d.to
<1>1. PICK d \in archive : RecordOf(exports[i], d, EndBefore(exports, i) + 1, SealsHere)
  BY DEF Verifiable, RecordedIn
<1>2. exports[i].key = Named(d) /\ exports[i].to = d.to
  BY <1>1 DEF RecordOf, Entry
<1>3. Recorded(d)
  BY <1>2 DEF Recorded, Range
<1>4. Agrees(d, SealsHere)
  BY <1>1, SameIfHere DEF RecordOf, Whole, Agrees, SameIn, SameHere, SealsHere
<1> QED BY <1>1, <1>2, <1>3, <1>4 DEF RecordOf

-----------------------------------------------------------------------------
\* A walk along this database's chain: ranges of the archive that agree with the
\* seals here, end to end, to beyond the exports or to where one of them starts.
OnTheWay(n) == n > EndIn(exports).to \/ \E i \in DOMAIN exports : EndBefore(exports, i) + 1 = n
WalkSound(w) ==
  /\ \A i \in DOMAIN w.ranges :
       /\ w.ranges[i].from = EndBefore(w.ranges, i) + 1
       /\ Agrees(w.ranges[i], SealsHere)
       /\ w.ranges[i].from < w.from
  /\ w.from = EndBefore(w.ranges, Len(w.ranges) + 1) + 1
  /\ OnTheWay(w.from)
Walks == {w \in [from : Nat, ranges : Seq(archive), gap : {FALSE}] : WalkSound(w)}

\* Verification starts at the first event,
LEMMA WalkStarts == ASSUME Verifiable PROVE Start \in Walks
<1>1. EndBefore(<<>>, Len(<<>>) + 1) = 0
  BY DEF EndBefore
<1>2. OnTheWay(1)
  <2>1. CASE exports = <<>>
    BY <2>1 DEF OnTheWay, EndIn
  <2>2. CASE exports # <<>>
    <3>1. 1 \in DOMAIN exports
      BY <2>2 DEF Verifiable, RecordedIn
    <3> QED BY <3>1 DEF OnTheWay, EndBefore
  <2> QED BY <2>1, <2>2
<1>3. WalkSound(Start)
  BY <1>1, <1>2 DEF WalkSound, Start
<1> QED BY <1>3 DEF Walks, Start

\* goes on with a range that starts where it is and agrees,
LEMMA WalkTakes ==
  ASSUME Verifiable, NEW w \in Walks, NEW p \in archive, p.from = w.from, Agrees(p, SealsHere),
         OnTheWay(p.to + 1)
  PROVE  [w EXCEPT !.from = p.to + 1, !.ranges = Append(w.ranges, p)] \in Walks
<1> PICK v : v = [w EXCEPT !.from = p.to + 1, !.ranges = Append(w.ranges, p)]
  OBVIOUS
<1>1. /\ w.from \in Nat /\ w.ranges \in Seq(archive) /\ w.gap = FALSE /\ WalkSound(w)
      /\ w \in [from : Nat, ranges : Seq(archive), gap : {FALSE}]
  BY DEF Walks
<1>2. p.from \in Nat /\ p.to \in Nat /\ p.from <= p.to
  BY RangeIs DEF Verifiable, Kept
<1>3. PICK q : q = Append(w.ranges, p)
  OBVIOUS
<1>4. /\ q \in Seq(archive) /\ Len(q) = Len(w.ranges) + 1 /\ DOMAIN q = 1 .. Len(w.ranges) + 1
      /\ \A i \in DOMAIN w.ranges : q[i] = w.ranges[i]
      /\ q[Len(w.ranges) + 1] = p /\ Len(w.ranges) \in Nat /\ DOMAIN w.ranges = 1 .. Len(w.ranges)
  BY <1>1, <1>3
<1>5. v.from = p.to + 1 /\ v.ranges = q /\ v \in [from : Nat, ranges : Seq(archive), gap : {FALSE}]
  <2>1. v = [w EXCEPT !.from = p.to + 1, !.ranges = q]
    BY <1>3
  <2>2. p.to + 1 \in Nat
    BY <1>2
  <2>3. PICK Q : Q = Seq(archive)
    OBVIOUS
  <2>4. w \in [from : Nat, ranges : Q, gap : {FALSE}] /\ q \in Q
    BY <1>1, <1>4, <2>3
  <2>5. v.from = p.to + 1 /\ v.ranges = q /\ v \in [from : Nat, ranges : Q, gap : {FALSE}]
    BY <2>1, <2>2, <2>4
  <2> QED BY <2>3, <2>5
<1>6. \A i \in 1 .. Len(w.ranges) + 1 : EndBefore(q, i) = EndBefore(w.ranges, i)
  BY <1>4 DEF EndBefore
<1>7. ASSUME NEW i \in DOMAIN q
      PROVE  /\ q[i].from = EndBefore(q, i) + 1 /\ Agrees(q[i], SealsHere) /\ q[i].from < p.to + 1
  <2>1. CASE i \in DOMAIN w.ranges
    <3>1. w.ranges[i].from = EndBefore(w.ranges, i) + 1 /\ Agrees(w.ranges[i], SealsHere) /\ w.ranges[i].from < w.from
      BY <1>1, <2>1 DEF WalkSound
    <3>2. w.ranges[i] \in archive
      BY <1>1, <2>1
    <3>3. w.ranges[i].from \in Nat
      BY <3>2, RangeIs DEF Verifiable, Kept
    <3> QED BY <1>1, <1>2, <1>4, <1>6, <2>1, <3>1, <3>3
  <2>2. CASE i = Len(w.ranges) + 1
    <3>1. p.from = EndBefore(w.ranges, i) + 1
      BY <1>1, <2>2 DEF WalkSound
    <3> QED BY <1>2, <1>4, <1>6, <2>2, <3>1
  <2> QED BY <1>4, <2>1, <2>2
<1>8. EndBefore(q, Len(q) + 1) = p.to
  BY <1>4 DEF EndBefore
<1>9. WalkSound(v)
  BY <1>5, <1>7, <1>8 DEF WalkSound
<1> QED BY <1>5, <1>9 DEF Walks

\* and never leaves the ranges that agree, nor meets a gap.
LEMMA FollowKeeps == ASSUME Verifiable, NEW w \in Walks PROVE Follow(w) \in Walks
<1> DEFINE left == archive \ Range(w.ranges)
           candidates == {d \in left : d.from = w.from}
           later == {d.from : d \in {e \in left : e.from > w.from /\ ~Superseded(e)}}
           own == {d \in candidates : Recorded(d)}
           agreeing == {d \in candidates : ~Differs(d)}
           unexplained == {d \in candidates : ~Superseded(d)}
           best == IF own # {} THEN own ELSE IF agreeing # {} THEN agreeing ELSE unexplained
           pick == CHOOSE d \in best : TRUE
<1>1. Follow(w) = IF candidates = {}
                  THEN IF later = {} THEN w ELSE [w EXCEPT !.from = Min(later), !.gap = TRUE]
                  ELSE IF best = {} THEN w
                       ELSE [w EXCEPT !.from = pick.to + 1, !.ranges = Append(w.ranges, pick)]
  BY DEF Follow
<1>2. /\ w.from \in Nat /\ w.ranges \in Seq(archive) /\ WalkSound(w) /\ OnTheWay(w.from)
  BY DEF Walks, WalkSound
<1>3. \A d \in Range(w.ranges) : d.from < w.from
  BY <1>2 DEF WalkSound, Range
<1>4. \A d \in archive : d.from = w.from => d \in candidates
  BY <1>2, <1>3
<1>5. \A d \in archive : ~ Superseded(d) => Agrees(d, SealsHere)
  BY DifferingSuperseded, DiffersIs
<1>6. EndIn(exports).to \in Nat
  BY EndReached DEF Verifiable, Kept
<1>7. \A d \in archive : d.from \in Nat /\ d.to \in Nat /\ d.from <= d.to
  BY RangeIs DEF Verifiable, Kept
<1>8. w.from <= EndIn(exports).to => \E d \in candidates : Recorded(d)
  <2> SUFFICES ASSUME w.from <= EndIn(exports).to PROVE \E d \in candidates : Recorded(d)
    OBVIOUS
  <2>1. PICK i \in DOMAIN exports : EndBefore(exports, i) + 1 = w.from
    BY <1>2, <1>6 DEF OnTheWay
  <2>2. PICK d \in archive : d.from = EndBefore(exports, i) + 1 /\ Recorded(d)
    BY RecordingIs
  <2> QED BY <1>4, <2>1, <2>2
<1>9. CASE candidates = {}
  <2>1. ASSUME NEW e \in archive, e.from > w.from, ~ Superseded(e) PROVE FALSE
    <3>1. e.from <= EndIn(exports).to + 1
      BY <1>5, <2>1, AgreeingWithin DEF Verifiable
    <3>2. w.from <= EndIn(exports).to
      BY <1>2, <1>6, <1>7, <2>1, <3>1
    <3> QED BY <1>8, <1>9, <3>2
  <2>2. later = {}
    BY <2>1
  <2> QED BY <1>1, <1>9, <2>2
<1>10. CASE candidates # {} /\ own # {}
  <2>1. best = own
    BY <1>10
  <2>2. pick \in own
    BY <1>10, <2>1
  <2>3. pick \in archive /\ pick.from = w.from /\ Recorded(pick)
    BY <2>2
  <2>4. Follow(w) = [w EXCEPT !.from = pick.to + 1, !.ranges = Append(w.ranges, pick)]
    BY <1>1, <1>10, <2>1
  <2> HIDE DEF pick
  <2>5. PICK i \in DOMAIN exports : RecordOf(exports[i], pick, EndBefore(exports, i) + 1, SealsHere)
    BY <2>3, RecordedIs
  <2>6. exports[i].to = pick.to /\ Whole(pick, SealsHere)
    BY <2>5 DEF RecordOf, Entry
  <2>7. Agrees(pick, SealsHere)
    BY <2>6, SameIfHere DEF Whole, Agrees, SameIn, SameHere, SealsHere
  <2>8. OnTheWay(pick.to + 1)
    <3>1. DOMAIN exports = 1 .. Len(exports) /\ Len(exports) \in Nat
      BY DEF Verifiable, RecordedIn
    <3>2. CASE i = Len(exports)
      <4>1. EndIn(exports).to = pick.to
        BY <2>5, <2>6, <3>1, <3>2 DEF EndIn
      <4> QED BY <1>7, <2>3, <4>1 DEF OnTheWay
    <3>3. CASE i # Len(exports)
      <4>1. i + 1 \in DOMAIN exports /\ EndBefore(exports, i + 1) = pick.to
        BY <2>6, <3>1, <3>3 DEF EndBefore
      <4> QED BY <4>1 DEF OnTheWay
    <3> QED BY <3>2, <3>3
  <2> QED BY <2>3, <2>4, <2>7, <2>8, WalkTakes
<1>11. CASE candidates # {} /\ own = {} /\ agreeing # {}
  <2>1. best = agreeing
    BY <1>11
  <2>2. pick \in agreeing
    BY <1>11, <2>1
  <2>3. pick \in archive /\ pick.from = w.from /\ ~ Differs(pick)
    BY <2>2
  <2>4. Follow(w) = [w EXCEPT !.from = pick.to + 1, !.ranges = Append(w.ranges, pick)]
    BY <1>1, <1>11, <2>1
  <2>5. w.from > EndIn(exports).to
    BY <1>2, <1>6, <1>8, <1>11
  <2> HIDE DEF pick
  <2>6. OnTheWay(pick.to + 1)
    BY <1>6, <1>7, <2>3, <2>5 DEF OnTheWay
  <2>7. Agrees(pick, SealsHere)
    BY <2>3, DiffersIs
  <2> QED BY <2>3, <2>4, <2>6, <2>7, WalkTakes
<1>12. CASE candidates # {} /\ own = {} /\ agreeing = {}
  <2>1. unexplained = {}
    BY <1>12, DifferingSuperseded
  <2>2. best = {}
    BY <1>12, <2>1
  <2> QED BY <1>1, <1>12, <2>2
<1> QED BY <1>9, <1>10, <1>11, <1>12

\* In the chain, each seal continues the one before it, there or in the range before.
LEMMA ContinuesInChain ==
  ASSUME Verifiable, NEW w \in Walks, NEW i \in DOMAIN w.ranges, NEW s \in w.ranges[i].seals
  PROVE  s.prev = Continued(w.ranges, i, s)
<1> PICK d : d = w.ranges[i]
  OBVIOUS
<1>1. /\ w.ranges \in Seq(archive) /\ DOMAIN w.ranges = 1 .. Len(w.ranges) /\ Len(w.ranges) \in Nat
      /\ \A j \in DOMAIN w.ranges :
           /\ w.ranges[j] \in archive /\ w.ranges[j].from = EndBefore(w.ranges, j) + 1 /\ Agrees(w.ranges[j], SealsHere)
  BY DEF Walks, WalkSound
<1>2. \A x \in archive : RangeSound(x)
  BY DEF Verifiable, Kept
<1>3. d \in archive /\ RangeSound(d) /\ Agrees(d, SealsHere) /\ d.from = EndBefore(w.ranges, i) + 1
  BY <1>1, <1>2
<1>4. PICK before : before = {t \in d.seals : t.id < s.id}
  OBVIOUS
<1>5. Continued(w.ranges, i, s) =
        IF before # {} THEN LastOf(before).hash ELSE IF i = 1 THEN NoRow ELSE LastOf(w.ranges[i - 1].seals).hash
  BY <1>4 DEF Continued
<1>6. PICK f : f = FirstOf(d.seals)
  OBVIOUS
<1>7. f \in d.seals /\ d.from = f.from /\ d.first = f.id /\ IsFirst(f, d.seals)
  BY <1>3, <1>6, RangeIs DEF RangeSound
<1>8. CASE before = {}
  <2>1. s = f
    <3>1. ~ (f.id < s.id) /\ f.id <= s.id /\ f.id \in Nat /\ s.id \in Nat
      BY <1>3, <1>4, <1>7, <1>8 DEF IsFirst, RangeSound, SealSound
    <3>2. f.id = s.id
      BY <3>1
    <3> QED BY <1>3, <1>7, <3>2 DEF RangeSound, InOrder
  <2>2. PICK h \in SealsHere : h.prev = s.prev /\ h.from = s.from
    BY <1>3 DEF Agrees, SameIn
  <2>3. \A x \in SealsHere : x.to \in Nat /\ 0 < x.from /\ x.from \in Nat /\ x.from <= x.to
    BY DEF Verifiable, Line, SealSound
  <2>4. CASE i = 1
    <3>1. h.from = 1
      BY <1>3, <1>7, <2>1, <2>2, <2>4 DEF EndBefore
    <3>2. \A b \in SealsHere : ~ Chained(h, b)
      BY <2>3, <3>1 DEF Chained
    <3>3. h.prev = NoRow
      BY <3>2 DEF Verifiable, Line, Opening
    <3> QED BY <1>5, <1>8, <2>2, <2>4, <3>3
  <2>5. CASE i # 1
    <3>1. i - 1 \in DOMAIN w.ranges
      BY <1>1, <2>5
    <3>2. PICK p : p = w.ranges[i - 1]
      OBVIOUS
    <3>3. p \in archive /\ RangeSound(p) /\ Agrees(p, SealsHere) /\ d.from = p.to + 1
      BY <1>1, <1>2, <1>3, <2>5, <3>1, <3>2 DEF EndBefore
    <3>4. PICK l : l = LastOf(p.seals)
      OBVIOUS
    <3>5. l \in p.seals /\ p.to = l.to
      BY <3>3, <3>4, RangeIs
    <3>6. PICK g \in SealsHere : g.to = l.to /\ g.hash = l.hash
      BY <3>3, <3>5 DEF Agrees, SameIn
    <3>7. g.to + 1 = h.from
      BY <1>7, <2>1, <2>2, <3>3, <3>5, <3>6
    <3>8. Chained(h, g)
      BY <3>7, Before DEF Verifiable
    <3> QED BY <1>5, <1>8, <2>2, <2>5, <3>2, <3>4, <3>6, <3>8 DEF Chained
  <2> QED BY <2>4, <2>5
<1>9. CASE before # {}
  <2>1. s # f
    BY <1>3, <1>4, <1>7, <1>9 DEF IsFirst, RangeSound, SealSound
  <2>2. PICK b \in d.seals : Chained(s, b)
    BY <1>3, <1>6, <2>1 DEF RangeSound
  <2>3. \A x \in d.seals : x.id \in Nat /\ x.to \in Nat /\ x.from \in Nat /\ x.from <= x.to
    BY <1>3 DEF RangeSound, SealSound
  <2>4. ASSUME NEW t \in before PROVE t.id <= b.id
    <3>1. t \in d.seals /\ t.id < s.id
      BY <1>4
    <3>2. t.to < s.from /\ b.to + 1 = s.from
      BY <1>3, <2>2, <3>1 DEF RangeSound, InOrder, Chained
    <3>3. ~ (b.to < t.from)
      BY <2>3, <3>1, <3>2
    <3> QED BY <1>3, <2>3, <3>1, <3>3 DEF RangeSound, InOrder
  <2>5. IsLast(b, before)
    BY <1>4, <2>2, <2>4 DEF IsLast, Chained
  <2>6. InOrder(before) /\ \A x \in before : SealSound(x)
    BY <1>3, <1>4 DEF RangeSound, InOrder
  <2>7. LastOf(before) = b
    BY <2>5, <2>6, LastIs
  <2> QED BY <1>5, <1>9, <2>2, <2>7 DEF Chained
<1> QED BY <1>8, <1>9

\* The events here give a range that agrees its hashes again.
LEMMA RangeRehashes ==
  ASSUME Verifiable, NEW d \in archive, Agrees(d, SealsHere), NEW s \in d.seals
  PROVE  RangeHash(s.prev, s.from, s.to) = s.hash
<1>1. PICK h \in SealsHere : h.hash = s.hash /\ h.prev = s.prev /\ h.from = s.from /\ h.to = s.to
  BY DEF Agrees, SameIn
<1>2. h.hash = HashOver(events, h.prev, h.from, h.to)
  BY DEF Verifiable, Hashing
<1>3. HashOver(events, h.prev, h.from, h.to) = RangeHash(h.prev, h.from, h.to)
  BY DEF HashOver, RangeHash
<1> QED BY <1>1, <1>2, <1>3

\* Where everything lost is explained and nothing is left to adopt, the archive verifies.
LEMMA NothingFound == ASSUME Verifiable PROVE Findings = {}
<1>1. PICK chain : chain = Chain
  OBVIOUS
<1>2. chain \in Walks
  <2>1. Cardinality(archive) \in Nat
    BY FS_CardinalityType DEF Verifiable, Kept
  <2>2. 2 * Cardinality(archive) + 1 \in Nat
    BY <2>1
  <2>3. Start \in Walks /\ \A w \in Walks : Follow(w) \in Walks
    BY WalkStarts, FollowKeeps
  <2>4. \A n \in Nat : Walk[n] \in Walks
    BY <2>3, WalkKeeps
  <2> QED BY <1>1, <2>2, <2>4 DEF Chain
<1>3. /\ chain.gap = FALSE
      /\ \A i \in DOMAIN chain.ranges : chain.ranges[i] \in archive /\ Agrees(chain.ranges[i], SealsHere)
  <2>1. chain.gap = FALSE /\ chain.ranges \in Seq(archive) /\ WalkSound(chain)
    BY <1>2 DEF Walks
  <2>2. \A i \in DOMAIN chain.ranges : chain.ranges[i] \in archive
    BY <2>1
  <2> QED BY <2>1, <2>2 DEF WalkSound
<1>4. \A i \in DOMAIN chain.ranges : \A s \in chain.ranges[i].seals : s.prev = Continued(chain.ranges, i, s)
  BY <1>2, ContinuesInChain
<1>5. PICK archived : archived = UNION {d.seals : d \in Range(chain.ranges)}
  OBVIOUS
<1>6. ASSUME NEW s \in archived PROVE SameHere(s) /\ RangeHash(s.prev, s.from, s.to) = s.hash
  <2>1. PICK d \in Range(chain.ranges) : s \in d.seals
    BY <1>5
  <2>2. d \in archive /\ Agrees(d, SealsHere)
    BY <1>3 DEF Range
  <2>3. SameHere(s)
    BY <2>1, <2>2 DEF Agrees, SameIn, SameHere, SealsHere
  <2> QED BY <2>1, <2>2, <2>3, RangeRehashes
<1>7. \A d \in archive \ Range(chain.ranges) : ~ (Differs(d) /\ ~ Superseded(d))
  BY DifferingSuperseded
<1>8. \A kind : kind \notin Findings
  BY <1>1, <1>3, <1>4, <1>5, <1>6, <1>7, Zenon DEF Findings
<1> QED BY <1>8

\* A seal is taken: it was never archived and follows every other.
LEMMA BranchesGrow ==
  ASSUME NEW A, NEW S, NEW n, Kept(A), Branches(A, S), Line(S),
         \A s \in S : s.id < n.id, n.id \in Nat,
         \A d \in A : n \notin d.seals /\ \A s \in d.seals : s.sealedAt <= n.sealedAt
  PROVE  Branches(A, S \cup {n})
<1> PICK T : T = S \cup {n}
  OBVIOUS
<1>1. \A d \in A : RangeSound(d)
  BY DEF Kept
<1>2. \A d \in A : Whole(d, T) => Whole(d, S)
  BY DEF Whole
<1>3. ASSUME NEW d \in A, NEW p \in A, Precedes(p, d, S) PROVE Precedes(p, d, T)
  <2>1. FirstOf(d.seals) \in T => p.seals \subseteq T
    BY <1>1, <1>3, RangeIs DEF Precedes
  <2>2. ASSUME LastOf(p.seals) \notin T, NEW s \in d.seals
        PROVE  s \notin T /\ \A g \in T : g.to >= p.to => s.sealedAt <= g.sealedAt
    BY <1>3, <2>2 DEF Precedes
  <2> QED BY <1>3, <2>1, <2>2 DEF Precedes
<1>4. \A d \in A : d.from = 1 \/ \E p \in A : Precedes(p, d, T)
  BY <1>3 DEF Branches
<1>5. \A d, e \in A : Whole(d, T) /\ Whole(e, T) /\ d.from = e.from => d = e
  BY <1>2 DEF Branches
<1>6. ASSUME NEW d \in A, Whole(d, T), NEW s \in T, s.id \in d.first .. d.last PROVE s \in d.seals
  <2>1. CASE s \in S
    BY <1>2, <1>6, <2>1 DEF Branches
  <2>2. CASE s = n
    <3>1. LastOf(d.seals) \in S /\ d.last = LastOf(d.seals).id /\ d.last \in Nat /\ d.first \in Nat
      BY <1>1, <1>2, <1>6, RangeIs DEF Whole
    <3> QED BY <1>6, <2>2, <3>1
  <2> QED BY <2>1, <2>2
<1>7. \A d \in A : \A s, t \in d.seals : t.id < s.id /\ s \in T => t \in T
  BY DEF Branches
<1> QED BY <1>4, <1>5, <1>6, <1>7 DEF Branches

\* A recovery loses the last seals.
LEMMA BranchesCut ==
  ASSUME NEW A, NEW S, NEW P, Kept(A), Branches(A, S), Line(S),
         P \subseteq S, \A s \in P, t \in S : t.id < s.id => t \in P
  PROVE  Branches(A, P)
<1>1. \A d \in A : RangeSound(d)
  BY DEF Kept
<1>2. \A d \in A : Whole(d, P) => Whole(d, S)
  BY DEF Whole
<1>3. ASSUME NEW d \in A, NEW p \in A, Precedes(p, d, S) PROVE Precedes(p, d, P)
  <2>1. p.to + 1 = d.from /\ p.last = d.after /\ LastOf(p.seals).hash = d.afterHash
    BY <1>3 DEF Precedes
  <2>2. PICK l : l = LastOf(p.seals)
    OBVIOUS
  <2>3. PICK f : f = FirstOf(d.seals)
    OBVIOUS
  <2>4. /\ l \in p.seals /\ l.id = p.last /\ p.to = l.to /\ f \in d.seals /\ d.first = f.id
        /\ p.last \in Nat /\ d.first \in Nat /\ p.to \in Nat
        /\ \A s \in p.seals : s.id \in Nat /\ s.id <= p.last
        /\ \A s \in d.seals : s.id \in Nat /\ d.first <= s.id
    BY <1>1, <2>2, <2>3, RangeIs
  <2>5. d.after < d.first
    BY <1>1 DEF RangeSound
  <2>6. ASSUME f \in P PROVE p.seals \subseteq P
    <3>1. p.seals \subseteq S
      BY <1>3, <2>3, <2>6 DEF Precedes
    <3>2. \A s \in p.seals : s.id < f.id
      BY <2>1, <2>4, <2>5
    <3> QED BY <2>6, <3>1, <3>2
  <2>7. ASSUME l \notin P, NEW s \in d.seals
        PROVE  s \notin P /\ \A g \in P : g.to >= p.to => s.sealedAt <= g.sealedAt
    <3>1. CASE l \notin S
      BY <1>3, <2>2, <3>1 DEF Precedes
    <3>2. CASE l \in S
      <4>1. l.id < s.id
        BY <2>1, <2>4, <2>5
      <4>2. ASSUME NEW g \in P, g.to >= p.to PROVE FALSE
        <5>1. ~ (g.to < l.to) /\ g \in S /\ g.to \in Nat /\ g.id \in Nat
          BY <2>4, <4>2 DEF Line, SealSound
        <5>2. ~ (g.id < l.id)
          BY <3>2, <5>1, Placed DEF Line
        <5>3. g.id # l.id
          BY <2>7, <3>2, <5>1 DEF Line, InOrder
        <5>4. l.id < g.id
          BY <2>4, <5>1, <5>2, <5>3
        <5> QED BY <2>7, <3>2, <5>4
      <4> QED BY <2>7, <3>2, <4>1, <4>2
    <3> QED BY <3>1, <3>2
  <2> QED BY <2>1, <2>2, <2>3, <2>6, <2>7 DEF Precedes
<1>4. \A d \in A : d.from = 1 \/ \E p \in A : Precedes(p, d, P)
  BY <1>3 DEF Branches
<1>5. \A d, e \in A : Whole(d, P) /\ Whole(e, P) /\ d.from = e.from => d = e
  BY <1>2 DEF Branches
<1>6. \A d \in A : Whole(d, P) => \A s \in P : s.id \in d.first .. d.last => s \in d.seals
  BY <1>2 DEF Branches
<1>7. ASSUME NEW d \in A, NEW s \in d.seals, NEW t \in d.seals, t.id < s.id, s \in P PROVE t \in P
  BY <1>7 DEF Branches
<1> QED BY <1>4, <1>5, <1>6, <1>7 DEF Branches

\* What an exporter writes: the seals after those recorded.
LEMMA OwnSound ==
  ASSUME NEW A, NEW S, NEW xs, NEW n \in Nat, Line(S), \A s \in S : s.id < n,
         Kept(A), RecordedIn(xs, A, S), Beyond(EndIn(xs), S) # {},
         NEW d, d = Document(Beyond(EndIn(xs), S), EndIn(xs).last, EndIn(xs).hash)
  PROVE  /\ RangeSound(d) /\ d.seals = Beyond(EndIn(xs), S) /\ d.from = EndIn(xs).to + 1
         /\ d.after = EndIn(xs).last /\ d.afterHash = EndIn(xs).hash
<1> PICK l : l = EndIn(xs)
  OBVIOUS
<1> PICK U : U = Beyond(l, S)
  OBVIOUS
<1>1. Reached(l, S) /\ l.to \in Nat /\ l.last \in Nat
  BY EndReached DEF Kept
<1>2. InOrder(U) /\ \A s \in U : SealSound(s)
  BY BeyondInLine
<1>3. \A s \in U : s \in S /\ s.id > l.last /\ s.id < n
  BY DEF Beyond
<1>4. PICK f : f = FirstOf(U)
  OBVIOUS
<1>5. PICK z : z = LastOf(U)
  OBVIOUS
<1>6. IsFirst(f, U)
  BY <1>2, <1>4, FirstThere
<1>7. IsLast(z, U)
  BY <1>2, <1>3, <1>5, LastThere
<1>8. f.from = l.to + 1 /\ f.prev = l.hash
  BY <1>1, <1>6, NextOf
<1>9. /\ d.seals = U /\ d.after = l.last /\ d.afterHash = l.hash /\ d.from = f.from /\ d.first = f.id
      /\ d = Document(d.seals, d.after, d.afterHash)
  BY <1>4 DEF Document
<1>10. ASSUME NEW s \in U, s # f PROVE \E b \in U : Chained(s, b)
  <2>1. f \in U /\ f.id <= s.id /\ f.id \in Nat /\ s.id \in Nat
    BY <1>2, <1>6 DEF IsFirst, SealSound
  <2>2. f.id < s.id
    BY <1>2, <1>10, <2>1 DEF InOrder
  <2>3. ~ Opening(s)
    BY <1>2, <2>1, <2>2 DEF InOrder, Opening, SealSound
  <2>4. PICK b \in S : Chained(s, b)
    BY <1>3, <2>3 DEF Line
  <2>5. /\ b.id < s.id /\ b.to + 1 = s.from /\ b.id \in Nat /\ b.to \in Nat
        /\ f.to \in Nat /\ f.to < s.from /\ f \in S
    BY <1>2, <1>3, <2>1, <2>2, <2>4 DEF InOrder, Chained, Line, SealSound
  <2>6. ~ (b.id < f.id)
    <3>1. ~ (b.to < f.to)
      BY <2>5
    <3> QED BY <2>5, <3>1, Placed DEF Line
  <2>7. b \in U
    BY <1>1, <1>3, <2>1, <2>5, <2>6 DEF Beyond
  <2> QED BY <2>4, <2>7
<1>11. l.last < f.id
  BY <1>3, <1>6 DEF IsFirst
<1>12. ASSUME d.from = 1 PROVE d.after = 0
  <2>1. l.to = 0
    BY <1>1, <1>8, <1>9, <1>12
  <2>2. \A s \in S : s.to \in Nat /\ s.from \in Nat /\ 0 < s.from /\ s.from <= s.to
    BY DEF Line, SealSound
  <2> QED BY <1>1, <1>9, <2>1, <2>2 DEF Reached
<1>13. RangeSound(d)
  BY <1>1, <1>2, <1>4, <1>5, <1>6, <1>7, <1>8, <1>9, <1>10, <1>11, <1>12 DEF RangeSound
<1> QED BY <1>8, <1>9, <1>13

\* What continues the records continues the range recorded last.
LEMMA PrecedesIn ==
  ASSUME NEW A, NEW S, NEW xs, NEW d, Kept(A), RecordedIn(xs, A, S), xs # <<>>,
         d.from = EndIn(xs).to + 1, d.after = EndIn(xs).last, d.afterHash = EndIn(xs).hash
  PROVE  \E p \in A : Precedes(p, d, S)
<1>1. PICK p \in A : Whole(p, S) /\ EndIn(xs) = Entry(p)
  BY EndReached DEF Kept
<1>2. p.to + 1 = d.from /\ p.last = d.after /\ LastOf(p.seals).hash = d.afterHash
  BY <1>1 DEF Entry
<1>3. LastOf(p.seals) \in S
  BY <1>1, RangeIs DEF Kept, Whole
<1>4. Precedes(p, d, S)
  BY <1>1, <1>2, <1>3 DEF Precedes, Whole
<1> QED BY <1>4

\* A range of these seals is written where none is left to adopt.
LEMMA PutKeeps ==
  ASSUME NEW A, NEW S, NEW xs, NEW n \in Nat, Line(S), \A s \in S : s.id < n,
         Kept(A), Branches(A, S), RecordedIn(xs, A, S), Beyond(EndIn(xs), S) # {},
         NEW d, d = Document(Beyond(EndIn(xs), S), EndIn(xs).last, EndIn(xs).hash),
         \A e \in A : ~ AdoptableAt(e, EndIn(xs), S) /\ (Named(e) = Named(d) => e = d)
  PROVE  Kept(A \cup {d}) /\ Branches(A \cup {d}, S) /\ Whole(d, S)
<1> PICK B : B = A \cup {d}
  OBVIOUS
<1>1. /\ RangeSound(d) /\ d.seals = Beyond(EndIn(xs), S) /\ d.from = EndIn(xs).to + 1
      /\ d.after = EndIn(xs).last /\ d.afterHash = EndIn(xs).hash
  BY OwnSound
<1>2. Whole(d, S)
  BY <1>1 DEF Whole, Beyond
<1>3. Kept(B)
  <2>1. IsFiniteSet(B)
    BY FS_AddElement DEF Kept
  <2>2. \A x, y \in B : Named(x) = Named(y) => x = y
    BY DEF Kept
  <2> QED BY <1>1, <2>1, <2>2 DEF Kept
<1>4. d.from = 1 \/ \E p \in A : Precedes(p, d, S)
  <2>1. CASE xs = <<>>
    BY <1>1, <2>1 DEF EndIn
  <2>2. CASE xs # <<>>
    BY <1>1, <2>2, PrecedesIn
  <2> QED BY <2>1, <2>2
<1>5. \A x \in B : x.from = 1 \/ \E p \in B : Precedes(p, x, S)
  BY <1>4 DEF Branches
<1>6. \A x, y \in B : Whole(x, S) /\ Whole(y, S) /\ x.from = y.from => x = y
  <2>1. \A x \in A : ~ (Whole(x, S) /\ x.from = d.from)
    BY <1>1, WholeIsAdopted
  <2> QED BY <2>1 DEF Branches
<1>7. \A x \in B : Whole(x, S) => \A s \in S : s.id \in x.first .. x.last => s \in x.seals
  <2> SUFFICES ASSUME NEW s \in S, s.id \in d.first .. d.last PROVE s \in d.seals
    BY DEF Branches
  <2>1. d.after < d.first /\ d.after \in Nat /\ d.first \in Nat /\ d.last \in Nat
    BY <1>1, RangeIs DEF RangeSound
  <2>2. s.id > d.after
    BY <2>1
  <2> QED BY <1>1, <2>2 DEF Beyond
<1>8. \A x \in B : \A s, t \in x.seals : t.id < s.id /\ s \in S => t \in S
  BY <1>2 DEF Branches, Whole
<1> QED BY <1>2, <1>3, <1>5, <1>6, <1>7, <1>8 DEF Branches

\* What is recorded stays so as seals and ranges are added.
LEMMA RecordedGrows ==
  ASSUME NEW xs, NEW A, NEW S, NEW B, NEW T, RecordedIn(xs, A, S), A \subseteq B, S \subseteq T
  PROVE  RecordedIn(xs, B, T)
<1>1. ASSUME NEW i \in DOMAIN xs PROVE \E d \in B : RecordOf(xs[i], d, EndBefore(xs, i) + 1, T)
  <2>1. PICK d \in A : RecordOf(xs[i], d, EndBefore(xs, i) + 1, S)
    BY DEF RecordedIn
  <2> QED BY <2>1 DEF RecordOf, Whole
<1> QED BY <1>1 DEF RecordedIn

\* And stays so with the next one recorded.
LEMMA RecordedNext ==
  ASSUME NEW xs, NEW A, NEW S, RecordedIn(xs, A, S), Kept(A),
         NEW d \in A, Whole(d, S), d.from = EndIn(xs).to + 1
  PROVE  RecordedIn(Append(xs, Entry(d)), A, S)
<1> PICK x : x = Entry(d)
  OBVIOUS
<1> PICK ys : ys = Append(xs, x)
  OBVIOUS
<1>1. xs \in Seq(Range(xs)) /\ DOMAIN xs = 1 .. Len(xs) /\ Len(xs) \in Nat
  BY DEF RecordedIn
<1>2. xs \in Seq(Range(xs) \cup {x})
  BY <1>1
<1>3. /\ ys \in Seq(Range(xs) \cup {x}) /\ Len(ys) = Len(xs) + 1 /\ DOMAIN ys = 1 .. Len(xs) + 1
      /\ \A i \in DOMAIN xs : ys[i] = xs[i]
      /\ ys[Len(xs) + 1] = x
  BY <1>1, <1>2
<1>4. Range(ys) = Range(xs) \cup {x}
  <2>1. \A y \in Range(xs) : y \in Range(ys)
    BY <1>1, <1>3 DEF Range
  <2>2. x \in Range(ys)
    BY <1>1, <1>3 DEF Range
  <2>3. \A y \in Range(ys) : y \in Range(xs) \cup {x}
    BY <1>1, <1>3 DEF Range
  <2> QED BY <2>1, <2>2, <2>3
<1>5. ys \in Seq(Range(ys))
  BY <1>3, <1>4
<1>6. \A i \in 1 .. Len(xs) + 1 : EndBefore(ys, i) = EndBefore(xs, i)
  BY <1>1, <1>3 DEF EndBefore
<1>7. EndBefore(xs, Len(xs) + 1) = EndIn(xs).to
  BY <1>1 DEF EndBefore, EndIn
<1>8. x.to = d.to /\ d.to \in Nat /\ d.from \in Nat /\ d.from <= d.to /\ EndIn(xs).to \in Nat
  BY RangeIs, EndReached DEF Entry, Kept
<1>9. ASSUME NEW i \in DOMAIN ys
      PROVE  ys[i].to \in Nat /\ ys[i].to <= x.to /\ \E r \in A : RecordOf(ys[i], r, EndBefore(ys, i) + 1, S)
  <2>1. CASE i \in DOMAIN xs
    <3>1. xs[i].to \in Nat /\ xs[i].to <= xs[Len(xs)].to /\ \E r \in A : RecordOf(xs[i], r, EndBefore(xs, i) + 1, S)
      BY <2>1 DEF RecordedIn
    <3>2. EndIn(xs).to = xs[Len(xs)].to
      BY <1>1, <2>1 DEF EndIn
    <3>3. ys[i] = xs[i] /\ EndBefore(ys, i) = EndBefore(xs, i)
      BY <1>1, <1>3, <1>6, <2>1
    <3>4. xs[i].to <= x.to
      BY <1>8, <3>1, <3>2
    <3> QED BY <3>1, <3>3, <3>4
  <2>2. CASE i = Len(xs) + 1
    <3>1. RecordOf(x, d, EndBefore(ys, i) + 1, S)
      BY <1>3, <1>6, <1>7, <2>2 DEF RecordOf
    <3>2. ys[i] = x
      BY <1>3, <2>2
    <3> QED BY <1>8, <3>1, <3>2
  <2> QED BY <1>1, <1>3, <2>1, <2>2
<1>10. RecordedIn(ys, A, S)
  BY <1>3, <1>5, <1>9 DEF RecordedIn
<1> QED BY <1>10

\* The seals here: a line, taken by now, and no event commits that one left out.
HereSound ==
  /\ Line(SealsHere) /\ \A s \in SealsHere : s.id < nextSeal /\ s.sealedAt <= now
  /\ Settling(SealsHere, events)
\* The archive, against them: what the database lost was sealed before.
LostBefore == \A d \in archive : \A s \in d.seals : s.sealedAt <= now /\ (s \in SealsHere \/ s.sealedAt < now)
ArchiveSound ==
  /\ Kept(archive) /\ Branches(archive, SealsHere) /\ LostBefore
  /\ RecordedIn(exports, archive, SealsHere)
  /\ exporting # NoRow => exporting \in archive /\ AdoptableAt(exporting, EndIn(exports), SealsHere)
\* The last heartbeat came after every moment a fence names; what the archive holds
\* and the database lost is explained, or will be when a heartbeat sees the change.
Fence == [status : {"RAISED", "LIFTED"}, known : Nat, timeline : Nat]
BeatSound(b, ff) ==
  /\ b.at \in Nat /\ b.at < now /\ b.timeline \in Nat /\ b.timeline <= timeline
  /\ \A f \in ff : f \in Fence /\ f.known <= b.at
Accounted(s) == Explained(s, fences) \/ (beat.timeline # timeline /\ s.sealedAt > beat.at)
Fenced ==
  /\ BeatSound(beat, fences)
  /\ \A d \in archive : \A s \in d.seals : s \in SealsHere \/ Accounted(s)
\* A recovery goes back to fewer of these seals; what it would lose was sealed after
\* the last heartbeat there, or is explained there.
EarlierAt(pt) ==
  /\ Range(pt.seals) \subseteq SealsHere
  /\ \A s \in Range(pt.seals), t \in SealsHere : t.id < s.id => t \in Range(pt.seals)
  /\ \A s \in Range(pt.seals) : s.id < pt.nextSeal
  /\ RecordedIn(pt.exports, archive, Range(pt.seals))
  /\ BeatSound(pt.beat, pt.fences)
LostAt(s, pt) == s \in Range(pt.seals) \/ s.sealedAt > pt.beat.at \/ Explained(s, pt.fences)
Earlier ==
  point # NoRow =>
    /\ EarlierAt(point)
    /\ \A s \in SealsHere : LostAt(s, point)
    /\ \A d \in archive : \A s \in d.seals : LostAt(s, point)

ArchiveInv == HereSound /\ ArchiveSound /\ Fenced /\ Earlier
AuditInv == IInv /\ ArchiveInv

\* What every step needs of the numbers.
LEMMA Basics ==
  ASSUME IInv
  PROVE  /\ now \in Nat /\ timeline \in Nat /\ nextSeal \in Nat /\ Settle \in Nat /\ TxLimit \in Nat /\ TxLimit <= Settle
         /\ \A e \in events : e.seq \in Nat /\ e.at \in Nat
  BY CommandsAssumption, AuditAssumption DEF IInv, Pipeline, TypeOK, Trail, SealedIn, Event

\* Every seal in a range has the moment it was taken.
LEMMA SealedAtIs ==
  ASSUME ArchiveInv
  PROVE  /\ \A s \in SealsHere : s.sealedAt \in Nat
         /\ \A d \in archive : \A s \in d.seals : s.sealedAt \in Nat
  BY DEF ArchiveInv, HereSound, Line, SealSound, ArchiveSound, Kept, RangeSound

-----------------------------------------------------------------------------
\* Parts that a step leaves as they were.
LEMMA HereStays ==
  ASSUME AuditInv, IInv', UNCHANGED <<seals, nextSeal>>, now <= now',
         \A e \in events' : e \in events \/ \A s \in SealsHere : e.seq > s.to => e.at + Settle >= s.sealedAt
  PROVE  HereSound'
<1>1. SealsHere' = SealsHere
  BY DEF SealsHere
<1>2. now \in Nat /\ now' \in Nat /\ \A e \in events' : e.seq \in Nat /\ e.at \in Nat
  BY Basics DEF AuditInv, IInv, Pipeline, TypeOK, Event
<1>3. Settling(SealsHere, events')
  BY <1>2 DEF AuditInv, ArchiveInv, HereSound, Settling
<1>4. \A s \in SealsHere : s.sealedAt <= now'
  BY <1>2, SealedAtIs DEF AuditInv, ArchiveInv, HereSound
<1> QED BY <1>1, <1>3, <1>4 DEF AuditInv, ArchiveInv, HereSound

\* The conjuncts, where what they read did not change and time went on.
LEMMA ArchiveStays ==
  ASSUME AuditInv, IInv', UNCHANGED <<seals, archive, exports, exporting>>, now <= now'
  PROVE  ArchiveSound'
<1>1. SealsHere' = SealsHere
  BY DEF SealsHere
<1>2. now \in Nat /\ now' \in Nat
  BY Basics DEF AuditInv, IInv, Pipeline, TypeOK
<1>3. LostBefore'
  BY <1>1, <1>2, SealedAtIs DEF AuditInv, ArchiveInv, ArchiveSound, LostBefore
<1> QED BY <1>1, <1>3 DEF AuditInv, ArchiveInv, ArchiveSound

\* Likewise of the fences,
LEMMA FencedStays ==
  ASSUME AuditInv, IInv', UNCHANGED <<seals, beat, fences, timeline>>, now <= now',
         \A d \in archive' : d \in archive \/ Whole(d, SealsHere)
  PROVE  Fenced'
<1>1. SealsHere' = SealsHere
  BY DEF SealsHere
<1>2. now \in Nat /\ now' \in Nat
  BY Basics DEF AuditInv, IInv, Pipeline, TypeOK
<1>3. BeatSound(beat, fences)'
  BY <1>2 DEF AuditInv, ArchiveInv, Fenced, BeatSound, Fence
<1>4. \A d \in archive' : \A s \in d.seals : s \in SealsHere \/ Accounted(s)
  BY DEF AuditInv, ArchiveInv, Fenced, Whole
<1>5. \A s : Accounted(s)' <=> Accounted(s)
  BY DEF Accounted, Explained
<1> QED BY <1>1, <1>3, <1>4, <1>5 DEF Fenced

\* and of the moment a recovery goes back to.
LEMMA EarlierStays ==
  ASSUME AuditInv, IInv', UNCHANGED <<seals, point, timeline>>, now <= now', archive \subseteq archive',
         \A d \in archive' : d \in archive \/ Whole(d, SealsHere)
  PROVE  Earlier'
<1> SUFFICES ASSUME point # NoRow
             PROVE  /\ EarlierAt(point)' /\ \A s \in SealsHere : LostAt(s, point)
                    /\ \A d \in archive' : \A s \in d.seals : LostAt(s, point)
  BY DEF Earlier, SealsHere, LostAt, Explained
<1>1. SealsHere' = SealsHere
  BY DEF SealsHere
<1>2. now \in Nat /\ now' \in Nat
  BY Basics DEF AuditInv, IInv, Pipeline, TypeOK
<1>3. /\ EarlierAt(point) /\ \A s \in SealsHere : LostAt(s, point)
      /\ \A d \in archive : \A s \in d.seals : LostAt(s, point)
  BY DEF AuditInv, ArchiveInv, Earlier
<1>4. BeatSound(point.beat, point.fences)'
  BY <1>2, <1>3 DEF EarlierAt, BeatSound, Fence
<1>5. RecordedIn(point.exports, archive', Range(point.seals))
  BY <1>3, RecordedGrows DEF EarlierAt
<1>6. EarlierAt(point)'
  BY <1>1, <1>3, <1>4, <1>5 DEF EarlierAt
<1> QED BY <1>3, <1>6 DEF Whole

-----------------------------------------------------------------------------
\* The commands, and the clock.
LEMMA CommandArchive ==
  ASSUME AuditInv, CommandNext, UNCHANGED auditVars, IInv' PROVE ArchiveInv'
<1>1. UNCHANGED auditVars /\ timeline' = timeline
  BY DEF CommandNext, Run, Commit, RollBack, Replay, AskAgain, Tick
<1>2. now \in Nat /\ (now' = now \/ now' = now + 1)
  BY Basics DEF CommandNext, Run, Commit, RollBack, Replay, AskAgain, Tick, AuditInv
<1>3. ASSUME NEW e \in events', e \notin events, NEW s \in SealsHere, e.seq > s.to
      PROVE  e.at + Settle >= s.sealedAt
  <2>1. PICK a \in Attempts : Commit(a)
    BY <1>3 DEF CommandNext, Run, RollBack, Replay, AskAgain, Tick
  <2>2. e = wrote[a] /\ a \in Opens
    BY <1>3, <2>1 DEF Commit, Opens
  <2>3. Ahead(a) /\ wrote[a] \in Event
    BY <2>2 DEF AuditInv, IInv, Trail, Opened, Opens, Pipeline, TypeOK
  <2>4. e.at \in Nat /\ now - e.at =< TxLimit
    BY <2>2, <2>3 DEF Ahead, Event
  <2>5. s.sealedAt \in Nat /\ s.sealedAt <= now
    BY SealedAtIs DEF AuditInv, ArchiveInv, HereSound
  <2> QED BY <1>2, <2>4, <2>5, Basics DEF AuditInv
<1>4. now <= now'
  BY <1>2
<1>5. HereSound'
  BY <1>1, <1>3, <1>4, HereStays DEF auditVars
<1>6. ArchiveSound' /\ Fenced' /\ Earlier'
  BY <1>1, <1>4, ArchiveStays, FencedStays, EarlierStays DEF auditVars
<1> QED BY <1>5, <1>6 DEF ArchiveInv

\* Nothing happened.
LEMMA StutterArchive == ASSUME AuditInv, UNCHANGED vars, IInv' PROVE ArchiveInv'
<1>1. UNCHANGED auditVars /\ UNCHANGED <<timeline, now, events>>
  BY DEF vars, commandVars
<1>2. now \in Nat
  BY Basics DEF AuditInv
<1>3. HereSound'
  BY <1>1, <1>2, HereStays DEF auditVars
<1>4. ArchiveSound' /\ Fenced' /\ Earlier'
  BY <1>1, <1>2, ArchiveStays, FencedStays, EarlierStays DEF auditVars
<1> QED BY <1>3, <1>4 DEF ArchiveInv

\* The exporter's operators, of any exports and seals.
LEMMA ExporterIs ==
  /\ LastExport = EndIn(exports)
  /\ Unexported = Beyond(EndIn(exports), SealsHere)
  /\ \A d : Adoptable(d) <=> AdoptableAt(d, EndIn(exports), SealsHere)
  /\ Own = Document(Beyond(EndIn(exports), SealsHere), EndIn(exports).last, EndIn(exports).hash)
<1>1. LastExport = EndIn(exports)
  BY DEF LastExport, EndIn, Last
<1>2. Unexported = Beyond(EndIn(exports), SealsHere)
  BY <1>1 DEF Unexported, Beyond, SealsHere
<1>3. ASSUME NEW d PROVE Adoptable(d) <=> AdoptableAt(d, EndIn(exports), SealsHere)
  BY <1>1, <1>2 DEF Adoptable, AdoptableAt, Between, SealsHere
<1>4. Own = Document(Beyond(EndIn(exports), SealsHere), EndIn(exports).last, EndIn(exports).hash)
  BY <1>1, <1>2 DEF Own
<1> QED BY <1>1, <1>2, <1>3, <1>4

\* What the exporter adopts is here whole, and the database accepts it.
LEMMA AdoptableWhole ==
  ASSUME AuditInv, NEW d \in archive, AdoptableAt(d, EndIn(exports), SealsHere)
  PROVE  Whole(d, SealsHere) /\ d.from = EndIn(exports).to + 1 /\ Continues(d)
<1> PICK l : l = EndIn(exports)
  OBVIOUS
<1>1. /\ {s \in SealsHere : s.id \in d.first .. d.last} = d.seals /\ d.after = l.last /\ d.afterHash = l.hash
      /\ Beyond(l, SealsHere) # {} /\ d.first = FirstOf(Beyond(l, SealsHere)).id
  BY DEF AdoptableAt
<1>2. Whole(d, SealsHere)
  BY <1>1 DEF Whole
<1>3. Line(SealsHere) /\ RangeSound(d) /\ Kept(archive) /\ RecordedIn(exports, archive, SealsHere)
  BY DEF AuditInv, ArchiveInv, HereSound, ArchiveSound, Kept
<1>4. Reached(l, SealsHere)
  BY <1>3, EndReached DEF Kept
<1>5. PICK f : f = FirstOf(Beyond(l, SealsHere))
  OBVIOUS
<1>6. IsFirst(f, Beyond(l, SealsHere))
  BY <1>1, <1>3, <1>5, BeyondInLine, FirstThere
<1>7. f.from = l.to + 1 /\ f.prev = l.hash
  BY <1>3, <1>4, <1>6, NextOf
<1>8. f = FirstOf(d.seals)
  <2>1. PICK g : g = FirstOf(d.seals)
    OBVIOUS
  <2>2. g \in SealsHere /\ g.id = d.first /\ f \in SealsHere /\ f.id = d.first
    BY <1>1, <1>2, <1>3, <1>5, <1>6, <2>1, RangeIs DEF Whole, IsFirst, Beyond
  <2> QED BY <1>3, <2>1, <2>2 DEF Line, InOrder
<1>9. /\ d.from = f.from /\ d.first = f.id /\ d.seals # {} /\ f \in d.seals
      /\ d.last = LastOf(d.seals).id /\ d.to = LastOf(d.seals).to
  BY <1>3, <1>8, RangeIs
<1>10. d.first > l.last
  BY <1>1, <1>3, RangeIs DEF RangeSound
<1>11. Between(d.first, d.last) = d.seals
  BY <1>1 DEF Between, SealsHere
<1>12. LastExport = l
  BY ExporterIs
<1>13. Continues(d)
  BY <1>7, <1>8, <1>9, <1>10, <1>11, <1>12 DEF Continues
<1> QED BY <1>2, <1>7, <1>9, <1>13

\* A range adopted is recorded after the others.
LEMMA AdoptArchive == ASSUME AuditInv, Adopt, IInv' PROVE ArchiveInv'
<1>1. PICK d \in archive : Adoptable(d) /\ Continues(d) /\ exports' = Append(exports, Entry(d))
  BY DEF Adopt
<1>2. UNCHANGED <<now, timeline, events, seals, nextSeal, archive, exporting, beat, fences, point>> /\ exporting = NoRow
  BY DEF Adopt, commandVars
<1>3. now \in Nat /\ SealsHere' = SealsHere
  BY <1>2, Basics DEF AuditInv, SealsHere
<1>4. HereSound' /\ Fenced' /\ Earlier'
  BY <1>2, <1>3, HereStays, FencedStays, EarlierStays
<1>5. Whole(d, SealsHere) /\ d.from = EndIn(exports).to + 1
  BY <1>1, ExporterIs, AdoptableWhole
<1>6. RecordedIn(exports', archive, SealsHere)
  BY <1>1, <1>5, RecordedNext DEF AuditInv, ArchiveInv, ArchiveSound
<1>7. LostBefore'
  BY <1>2, <1>3 DEF AuditInv, ArchiveInv, ArchiveSound, LostBefore
<1>8. ArchiveSound'
  BY <1>2, <1>3, <1>6, <1>7 DEF AuditInv, ArchiveInv, ArchiveSound
<1> QED BY <1>4, <1>8 DEF ArchiveInv

\* A range written continues the records; what it branches from is in the archive.
LEMMA PutArchive == ASSUME AuditInv, Put, IInv' PROVE ArchiveInv'
<1> PICK d : d = Own
  OBVIOUS
<1>1. /\ Unexported # {}
      /\ \A e \in archive : ~ Adoptable(e) /\ (Named(e) = Named(d) => e = d)
      /\ archive' = archive \cup {d} /\ exporting' = d
  BY DEF Put
<1>2. UNCHANGED <<now, timeline, events, seals, nextSeal, exports, beat, fences, point>>
  BY DEF Put, commandVars
<1>3. now \in Nat /\ nextSeal \in Nat /\ SealsHere' = SealsHere
  BY <1>2, Basics DEF AuditInv, SealsHere
<1>4. Kept(archive \cup {d}) /\ Branches(archive \cup {d}, SealsHere) /\ Whole(d, SealsHere)
  <2>1. /\ Beyond(EndIn(exports), SealsHere) # {}
        /\ d = Document(Beyond(EndIn(exports), SealsHere), EndIn(exports).last, EndIn(exports).hash)
        /\ \A e \in archive : ~ AdoptableAt(e, EndIn(exports), SealsHere) /\ (Named(e) = Named(d) => e = d)
    BY <1>1, ExporterIs
  <2>2. /\ Line(SealsHere) /\ \A s \in SealsHere : s.id < nextSeal
        /\ Kept(archive) /\ Branches(archive, SealsHere) /\ RecordedIn(exports, archive, SealsHere)
    BY DEF AuditInv, ArchiveInv, HereSound, ArchiveSound
  <2> QED BY <1>3, <2>1, <2>2, PutKeeps
<1>5. HereSound'
  BY <1>2, <1>3, HereStays
<1>6. Fenced' /\ Earlier'
  BY <1>1, <1>2, <1>3, <1>4, FencedStays, EarlierStays
<1>7. RecordedIn(exports', archive', SealsHere)
  <2>1. RecordedIn(exports, archive \cup {d}, SealsHere)
    BY RecordedGrows DEF AuditInv, ArchiveInv, ArchiveSound
  <2> QED BY <1>1, <1>2, <2>1
<1>8. LostBefore'
  <2>1. \A s \in d.seals : s \in SealsHere /\ s.sealedAt <= now
    BY <1>4 DEF Whole, AuditInv, ArchiveInv, HereSound
  <2> QED BY <1>1, <1>2, <1>3, <2>1 DEF AuditInv, ArchiveInv, ArchiveSound, LostBefore
<1>9. AdoptableAt(d, EndIn(exports), SealsHere)
  <2>1. d.from = EndIn(exports).to + 1
    BY <1>1, <1>3, ExporterIs, OwnSound DEF AuditInv, ArchiveInv, HereSound, ArchiveSound
  <2>2. RecordedIn(exports, archive \cup {d}, SealsHere) /\ Line(SealsHere)
    BY <1>1, <1>2, <1>7 DEF AuditInv, ArchiveInv, HereSound
  <2> QED BY <1>4, <2>1, <2>2, WholeIsAdopted
<1>10. ArchiveSound'
  BY <1>1, <1>2, <1>3, <1>4, <1>7, <1>8, <1>9 DEF ArchiveSound
<1> QED BY <1>5, <1>6, <1>10 DEF ArchiveInv

\* What was written is recorded, or its run ended.
LEMMA RecordArchive == ASSUME AuditInv, Record, IInv' PROVE ArchiveInv'
<1>1. /\ exporting # NoRow /\ exporting' = NoRow
      /\ (Continues(exporting) /\ exports' = Append(exports, Entry(exporting))) \/ exports' = exports
  BY DEF Record
<1>2. UNCHANGED <<now, timeline, events, seals, nextSeal, archive, beat, fences, point>>
  BY DEF Record, commandVars
<1>3. now \in Nat /\ SealsHere' = SealsHere
  BY <1>2, Basics DEF AuditInv, SealsHere
<1>4. HereSound' /\ Fenced' /\ Earlier'
  BY <1>2, <1>3, HereStays, FencedStays, EarlierStays
<1>5. exporting \in archive /\ Whole(exporting, SealsHere)
  BY <1>1, AdoptableWhole DEF AuditInv, ArchiveInv, ArchiveSound
<1>6. RecordedIn(exports', archive, SealsHere)
  <2>1. CASE exports' = exports
    BY <2>1 DEF AuditInv, ArchiveInv, ArchiveSound
  <2>2. CASE Continues(exporting) /\ exports' = Append(exports, Entry(exporting))
    <3>1. exporting.from = EndIn(exports).to + 1
      BY <2>2, ExporterIs DEF Continues
    <3> QED BY <1>5, <2>2, <3>1, RecordedNext DEF AuditInv, ArchiveInv, ArchiveSound
  <2> QED BY <1>1, <2>1, <2>2
<1>7. LostBefore'
  BY <1>2, <1>3 DEF AuditInv, ArchiveInv, ArchiveSound, LostBefore
<1>8. ArchiveSound'
  BY <1>1, <1>2, <1>3, <1>6, <1>7 DEF AuditInv, ArchiveInv, ArchiveSound
<1> QED BY <1>4, <1>8 DEF ArchiveInv

\* The moment a recovery will go back to is this one.
LEMMA BackUpArchive == ASSUME AuditInv, BackUp, IInv' PROVE ArchiveInv'
<1>1. point' = Database /\ UNCHANGED <<now, timeline, events, seals, nextSeal, exports, archive, exporting, beat, fences>>
  BY DEF BackUp, commandVars
<1>2. now \in Nat /\ SealsHere' = SealsHere
  BY <1>1, Basics DEF AuditInv, SealsHere
<1>3. HereSound' /\ ArchiveSound' /\ Fenced'
  BY <1>1, <1>2, HereStays, ArchiveStays, FencedStays
<1>4. /\ point'.seals = seals /\ point'.nextSeal = nextSeal /\ point'.exports = exports
      /\ point'.beat = beat /\ point'.fences = fences
  BY <1>1 DEF Database
<1> PICK pt : pt = point'
  OBVIOUS
<1>5. Range(pt.seals) = SealsHere
  BY <1>4 DEF SealsHere
<1>6. EarlierAt(pt)
  BY <1>4, <1>5 DEF EarlierAt, AuditInv, ArchiveInv, HereSound, ArchiveSound, Fenced
<1>7. \A s : s \in SealsHere => LostAt(s, pt)
  BY <1>5 DEF LostAt
<1>8. \A d \in archive : \A s \in d.seals : LostAt(s, pt)
  BY <1>4, <1>5 DEF AuditInv, ArchiveInv, Fenced, Accounted, LostAt
<1>9. EarlierAt(point)'
  BY <1>1, <1>2, <1>6 DEF EarlierAt, BeatSound
<1>10. Earlier'
  BY <1>1, <1>2, <1>7, <1>8, <1>9 DEF Earlier, LostAt, Explained
<1> QED BY <1>3, <1>10 DEF ArchiveInv

\* A fence lifted still names its moment.
LEMMA LiftArchive == ASSUME AuditInv, Lift, IInv' PROVE ArchiveInv'
<1>1. /\ UNCHANGED <<now, timeline, seals, nextSeal, exports, archive, exporting, beat, point>>
      /\ events' = events \cup {[seq |-> nextSeq, at |-> now, id |-> <<timeline, "LIFT">>, key |-> NoKey, hash |-> NoRow]}
  BY DEF Lift, Appended
<1>2. PICK f \in fences : fences' = (fences \ {f}) \cup {[f EXCEPT !.status = "LIFTED"]}
  BY DEF Lift
<1>3. now \in Nat /\ SealsHere' = SealsHere
  BY <1>1, Basics DEF AuditInv, SealsHere
<1>4. ASSUME NEW e \in events', e \notin events, NEW s \in SealsHere, e.seq > s.to
      PROVE  e.at + Settle >= s.sealedAt
  <2>1. e.at = now
    BY <1>1, <1>4
  <2>2. s.sealedAt \in Nat /\ s.sealedAt <= now
    BY SealedAtIs DEF AuditInv, ArchiveInv, HereSound
  <2> QED BY <1>3, <2>1, <2>2, Basics DEF AuditInv
<1>5. HereSound' /\ ArchiveSound' /\ Earlier'
  BY <1>1, <1>3, <1>4, HereStays, ArchiveStays, EarlierStays
<1>6. fences' \subseteq Fence /\ (\A g \in fences' : \E h \in fences : g.known = h.known) /\ (\A g \in fences : \E h \in fences' : h.known = g.known)
  <2>1. PICK g : g = [f EXCEPT !.status = "LIFTED"]
    OBVIOUS
  <2>2. fences \subseteq Fence
    BY DEF AuditInv, ArchiveInv, Fenced, BeatSound
  <2>3. g \in Fence /\ g.known = f.known
    BY <2>1, <2>2 DEF Fence
  <2> QED BY <1>2, <2>1, <2>2, <2>3
<1>7. BeatSound(beat, fences)'
  BY <1>1, <1>6 DEF AuditInv, ArchiveInv, Fenced, BeatSound
<1>8. ASSUME NEW s, Accounted(s) PROVE Accounted(s)'
  BY <1>1, <1>6, <1>8 DEF Accounted, Explained
<1>9. Fenced'
  BY <1>1, <1>3, <1>7, <1>8 DEF AuditInv, ArchiveInv, Fenced
<1> QED BY <1>5, <1>9 DEF ArchiveInv

\* What a sequence holds with one more.
LEMMA AppendRange ==
  ASSUME NEW ss, ss \in Seq(Range(ss)), NEW n
  PROVE  Range(Append(ss, n)) = Range(ss) \cup {n}
<1> PICK ys : ys = Append(ss, n)
  OBVIOUS
<1>1. /\ Len(ss) \in Nat /\ DOMAIN ss = 1 .. Len(ss) /\ DOMAIN ys = 1 .. Len(ss) + 1
      /\ \A i \in 1 .. Len(ss) : ys[i] = ss[i]
      /\ ys[Len(ss) + 1] = n
  OBVIOUS
<1>2. \A y \in Range(ss) : y \in Range(ys)
  BY <1>1 DEF Range
<1>3. n \in Range(ys)
  BY <1>1 DEF Range
<1>4. \A y \in Range(ys) : y \in Range(ss) \cup {n}
  BY <1>1 DEF Range
<1> QED BY <1>2, <1>3, <1>4

\* The seal that is taken: it follows the last and ends at the last settled event.
LEMMA SealTaken ==
  ASSUME IInv, Seal
  PROVE  \E n :
    /\ SealsHere' = SealsHere \cup {n}
    /\ n.id = nextSeal /\ n.from = LastSeal.to + 1 /\ n.prev = LastSeal.hash /\ n.sealedAt = now
    /\ n.to \in Nat
    /\ \E x \in n.hash.rows : x \in Settled /\ x.seq = n.to
    /\ \A e \in Settled : e.seq <= n.to
<1> PICK to : to = Max({e.seq : e \in Settled})
  OBVIOUS
<1> PICK hash : hash = RangeHash(LastSeal.hash, LastSeal.to + 1, to)
  OBVIOUS
<1> PICK n : n = [id |-> nextSeal, from |-> LastSeal.to + 1, to |-> to, prev |-> LastSeal.hash,
                  hash |-> hash, sealedAt |-> now]
  OBVIOUS
<1>1. seals' = Append(seals, n) /\ Settled # {}
  BY DEF Seal
<1>2. /\ nextSeq \in Nat /\ LastSeal.to \in Nat
      /\ \A e \in events : e.seq \in Nat /\ e.seq < nextSeq
  BY LastSealIs, Basics DEF IInv, Trail, NumberedIn, Pipeline, TypeOK
<1>3. to \in {e.seq : e \in Settled} /\ \A e \in Settled : e.seq <= to
  <2> DEFINE S == {e.seq : e \in Settled}
  <2>1. S \in SUBSET Nat /\ S # {} /\ \A x \in S : x < nextSeq
    BY <1>1, <1>2 DEF Settled
  <2> HIDE DEF S
  <2>2. Max(S) \in S /\ \A x \in S : Max(S) >= x
    BY <1>2, <2>1, MaxIn
  <2>3. to = Max(S)
    BY DEF S
  <2>4. \A e \in Settled : e.seq \in S
    BY DEF S
  <2>5. to \in S /\ \A e \in Settled : e.seq <= to
    BY <2>1, <2>2, <2>3, <2>4
  <2> QED BY <2>5 DEF S
<1>4. PICK x \in Settled : to = x.seq
  BY <1>3
<1>5. to \in Nat /\ LastSeal.to < to
  BY <1>2, <1>4 DEF Settled
<1>6. x \in hash.rows
  <2>1. PICK R : R = {e \in events : e.seq \in LastSeal.to + 1 .. to}
    OBVIOUS
  <2>2. hash = [prev |-> LastSeal.hash, rows |-> R]
    BY <2>1, Zenon DEF RangeHash
  <2>3. x \in events /\ x.seq \in LastSeal.to + 1 .. to
    BY <1>2, <1>4, <1>5 DEF Settled
  <2> QED BY <2>1, <2>2, <2>3
<1>9. SealsHere' = SealsHere \cup {n}
  BY <1>1, AppendRange, ZenonT(60) DEF SealsHere, IInv, Trail, SealedIn
<1>10. n.id = nextSeal /\ n.from = LastSeal.to + 1 /\ n.prev = LastSeal.hash /\ n.sealedAt = now /\ n.to = to /\ n.hash = hash
  OBVIOUS
<1> QED BY <1>3, <1>4, <1>5, <1>6, <1>9, <1>10

\* The last seal is one of those here, and ends after all of them.
LEMMA LastSealHere ==
  ASSUME IInv
  PROVE  /\ \A s \in SealsHere : s.to \in Nat /\ s.to =< LastSeal.to
         /\ LastSeal.to \in Nat
         /\ LastSeal = Genesis \/ LastSeal \in SealsHere
<1>1. LastSeal = EndOf(seals) /\ LastSeal.to \in Nat
  BY LastSealIs DEF IInv
<1>2. \A s \in SealsHere : s.to \in Nat /\ s.to =< EndOf(seals).to
  BY DEF SealsHere, IInv, Trail, SealedIn
<1>3. EndOf(seals) = Genesis \/ EndOf(seals) \in SealsHere
  <2>1. CASE seals = <<>>
    BY <2>1 DEF EndOf
  <2>2. CASE seals # <<>>
    <3>1. seals \in Seq(Range(seals)) /\ Len(seals) \in DOMAIN seals
      BY <2>2 DEF IInv, Trail, SealedIn
    <3> QED BY <2>2, <3>1 DEF EndOf, Range, SealsHere
  <2> QED BY <2>1, <2>2
<1> QED BY <1>1, <1>2, <1>3

\* The seal taken prolongs the line here,
LEMMA SealHere == ASSUME AuditInv, Seal, IInv' PROVE HereSound'
<1>1. PICK n :
    /\ SealsHere' = SealsHere \cup {n}
    /\ n.id = nextSeal /\ n.from = LastSeal.to + 1 /\ n.prev = LastSeal.hash /\ n.sealedAt = now
    /\ n.to \in Nat
    /\ \E x \in n.hash.rows : x \in Settled /\ x.seq = n.to
    /\ \A e \in Settled : e.seq <= n.to
  BY SealTaken DEF AuditInv
<1>2. UNCHANGED <<now, events>> /\ nextSeal' = nextSeal + 1
  BY DEF Seal, commandVars
<1>3. /\ now \in Nat /\ nextSeal \in Nat /\ Settle \in Nat /\ \A e \in events : e.seq \in Nat /\ e.at \in Nat
      /\ LastSeal.to \in Nat
  BY Basics, LastSealHere DEF AuditInv
<1>4. /\ Line(SealsHere) /\ \A s \in SealsHere : s.id < nextSeal /\ s.sealedAt <= now /\ s.id \in Nat /\ s.sealedAt \in Nat
      /\ Settling(SealsHere, events)
  BY DEF AuditInv, ArchiveInv, HereSound, Line, SealSound
<1>5. PICK x \in n.hash.rows : x \in Settled /\ x.seq = n.to
  BY <1>1
<1>6. x \in events /\ x.seq > LastSeal.to /\ x.at < now - Settle
  BY <1>5 DEF Settled
<1>7. SealSound(n)
  <2>1. 0 < nextSeal
    <3>1. EndOf(seals).id \in Nat /\ EndOf(seals).id < nextSeal
      BY LastSealIs DEF AuditInv, IInv, Trail, SealedIn
    <3> QED BY <1>3, <3>1
  <2>2. x.at + Settle < now
    BY <1>3, <1>6
  <2> QED BY <1>1, <1>3, <1>5, <1>6, <2>1, <2>2 DEF SealSound
<1>8. \A s \in SealsHere : s.to \in Nat /\ s.to < n.from
  BY <1>1, <1>3, LastSealHere DEF AuditInv
<1>9. InOrder(SealsHere \cup {n})
  BY <1>1, <1>3, <1>4, <1>8 DEF Line, InOrder
<1>10. Opening(n) \/ \E b \in SealsHere : Chained(n, b)
  <2>1. CASE LastSeal = Genesis
    BY <1>1, <2>1 DEF Opening, Genesis
  <2>2. CASE LastSeal \in SealsHere
    BY <1>1, <1>4, <2>2 DEF Chained
  <2> QED BY <2>1, <2>2, LastSealHere DEF AuditInv
<1>11. Line(SealsHere \cup {n})
  BY <1>4, <1>7, <1>9, <1>10 DEF Line
<1>12. Settling(SealsHere \cup {n}, events)
  <2>1. ASSUME NEW e \in events, e.seq > n.to PROVE e.at + Settle >= n.sealedAt
    <3>1. e \notin Settled
      BY <1>1, <1>3, <2>1
    <3>2. e.seq > LastSeal.to
      BY <1>1, <1>3, <1>5, <1>6, <2>1
    <3>3. ~ (e.at < now - Settle)
      BY <3>1, <3>2 DEF Settled
    <3> QED BY <1>1, <1>3, <3>3
  <2> QED BY <1>3, <1>4, <2>1 DEF Settling
<1> QED BY <1>1, <1>2, <1>3, <1>4, <1>11, <1>12 DEF HereSound

\* and is in no range yet.
LEMMA SealArchive == ASSUME AuditInv, Seal, IInv' PROVE ArchiveInv'
<1>1. PICK n : SealsHere' = SealsHere \cup {n} /\ n.id = nextSeal /\ n.sealedAt = now
  BY SealTaken DEF AuditInv
<1>2. UNCHANGED <<now, timeline, exports, archive, exporting, beat, fences, point>>
  BY DEF Seal, commandVars
<1>3. now \in Nat /\ nextSeal \in Nat
  BY Basics DEF AuditInv
<1>4. HereSound'
  BY SealHere
<1>5. /\ Kept(archive) /\ Branches(archive, SealsHere) /\ LostBefore /\ RecordedIn(exports, archive, SealsHere)
      /\ Line(SealsHere) /\ \A s \in SealsHere : s.id < nextSeal
  BY DEF AuditInv, ArchiveInv, ArchiveSound, HereSound
<1>6. \A d \in archive : n \notin d.seals /\ \A s \in d.seals : s.sealedAt <= n.sealedAt
  <2> SUFFICES ASSUME NEW d \in archive PROVE n \notin d.seals
    BY <1>1, <1>5 DEF LostBefore
  <2>1. n \notin SealsHere
    BY <1>1, <1>3, <1>5
  <2> QED BY <1>1, <1>3, <1>5, <2>1 DEF LostBefore
<1>7. Branches(archive, SealsHere \cup {n})
  BY <1>1, <1>3, <1>5, <1>6, BranchesGrow
<1>8. RecordedIn(exports, archive, SealsHere \cup {n})
  BY <1>5, RecordedGrows
<1>9. LostBefore'
  BY <1>1, <1>2, <1>5 DEF LostBefore
<1>10. ASSUME exporting # NoRow PROVE AdoptableAt(exporting, EndIn(exports), SealsHere \cup {n})
  <2> PICK d : d = exporting
    OBVIOUS
  <2> PICK l : l = EndIn(exports)
    OBVIOUS
  <2>1. d \in archive /\ AdoptableAt(d, l, SealsHere)
    BY <1>10 DEF AuditInv, ArchiveInv, ArchiveSound
  <2>2. \A s \in SealsHere : s.id \in Nat /\ s.id < n.id
    BY <1>1, <1>5 DEF Line, SealSound
  <2>3. PICK f : f = FirstOf(Beyond(l, SealsHere))
    OBVIOUS
  <2>4. IsFirst(f, Beyond(l, SealsHere))
    BY <1>5, <2>1, <2>3, BeyondInLine, FirstThere DEF AdoptableAt
  <2>5. Line(SealsHere \cup {n})
    BY <1>1, <1>4 DEF HereSound
  <2>6. l.last \in Nat
    BY <1>5, EndReached DEF Kept
  <2>7. IsFirst(f, Beyond(l, SealsHere \cup {n}))
    BY <1>1, <1>3, <2>2, <2>4, <2>6 DEF IsFirst, Beyond
  <2>8. FirstOf(Beyond(l, SealsHere \cup {n})) = f /\ Beyond(l, SealsHere \cup {n}) # {}
    BY <2>5, <2>7, BeyondInLine, FirstIs DEF IsFirst
  <2>9. d.last < n.id /\ d.last \in Nat /\ d.first \in Nat
    <3>1. LastOf(d.seals) \in SealsHere /\ d.last = LastOf(d.seals).id /\ d.last \in Nat /\ d.first \in Nat
      BY <1>5, <2>1, RangeIs DEF AdoptableAt, Kept
    <3> QED BY <2>2, <3>1
  <2>10. n.id \notin d.first .. d.last
    BY <1>1, <1>3, <2>9
  <2>11. {s \in SealsHere \cup {n} : s.id \in d.first .. d.last} = d.seals
    BY <2>1, <2>10 DEF AdoptableAt
  <2> QED BY <2>1, <2>3, <2>8, <2>11 DEF AdoptableAt
<1>13. ArchiveSound'
  BY <1>1, <1>2, <1>5, <1>7, <1>8, <1>9, <1>10 DEF AuditInv, ArchiveInv, ArchiveSound
<1>11. Fenced'
  <2>1. BeatSound(beat, fences)'
    BY <1>2 DEF AuditInv, ArchiveInv, Fenced, BeatSound
  <2>2. \A s : Accounted(s)' <=> Accounted(s)
    BY <1>2 DEF Accounted, Explained
  <2> QED BY <1>1, <1>2, <2>1, <2>2 DEF AuditInv, ArchiveInv, Fenced
<1>12. Earlier'
  <2> SUFFICES ASSUME point # NoRow
               PROVE  /\ EarlierAt(point)' /\ \A s \in SealsHere' : LostAt(s, point)
                      /\ \A d \in archive : \A s \in d.seals : LostAt(s, point)
    BY <1>2 DEF Earlier, LostAt, Explained
  <2>1. /\ EarlierAt(point) /\ \A s \in SealsHere : LostAt(s, point)
        /\ \A d \in archive : \A s \in d.seals : LostAt(s, point)
    BY DEF AuditInv, ArchiveInv, Earlier
  <2>2. LostAt(n, point)
    BY <1>1, <2>1 DEF LostAt, EarlierAt, BeatSound
  <2>3. \A s \in Range(point.seals) : ~ (n.id < s.id)
    BY <1>1, <1>3, <1>5, <2>1 DEF EarlierAt, Line, SealSound
  <2>4. EarlierAt(point)'
    BY <1>1, <1>2, <2>1, <2>3 DEF EarlierAt, BeatSound
  <2> QED BY <1>1, <2>1, <2>2, <2>4
<1> QED BY <1>4, <1>11, <1>12, <1>13 DEF ArchiveInv

\* A recovery: fewer seals, and what was sealed after the last heartbeat there waits
\* for one to see the change.
LEMMA RestoreArchive == ASSUME AuditInv, Restore, IInv' PROVE ArchiveInv'
<1> PICK P : P = Range(point.seals)
  OBVIOUS
<1>1. /\ point # NoRow /\ point' = NoRow /\ events' = point.events /\ seals' = point.seals
      /\ exports' = point.exports /\ beat' = point.beat /\ fences' = point.fences
      /\ timeline' = timeline + 1 /\ now' = now + 1 /\ exporting' = NoRow /\ archive' = archive
      /\ (nextSeal' = point.nextSeal \/ nextSeal' = nextSeal)
  BY DEF Restore
<1>2. /\ EarlierAt(point) /\ \A s \in SealsHere : LostAt(s, point)
      /\ \A d \in archive : \A s \in d.seals : LostAt(s, point)
  BY <1>1 DEF AuditInv, ArchiveInv, Earlier
<1>3. P \subseteq SealsHere /\ (\A s \in P, t \in SealsHere : t.id < s.id => t \in P) /\ \A s \in P : s.id < point.nextSeal
  BY <1>2 DEF EarlierAt
<1>4. SealsHere' = P
  BY <1>1 DEF SealsHere
<1>5. /\ now \in Nat /\ timeline \in Nat
      /\ point.events \subseteq events
  BY <1>1, Basics DEF AuditInv, IInv, Trail, PointSound
<1>6. /\ Line(SealsHere) /\ \A s \in SealsHere : s.id < nextSeal /\ s.sealedAt <= now /\ s.sealedAt \in Nat
      /\ Settling(SealsHere, events)
  BY SealedAtIs DEF AuditInv, ArchiveInv, HereSound
<1>7. HereSound'
  <2>1. Line(P)
    BY <1>3, <1>6, PartOfLine
  <2>2. \A s \in P : s.id < nextSeal' /\ s.sealedAt <= now'
    BY <1>1, <1>3, <1>5, <1>6
  <2>3. Settling(P, events')
    BY <1>1, <1>3, <1>5, <1>6 DEF Settling
  <2> QED BY <1>4, <2>1, <2>2, <2>3 DEF HereSound
<1>8. /\ Kept(archive) /\ Branches(archive, SealsHere)
      /\ \A d \in archive : \A s \in d.seals : s.sealedAt <= now /\ s.sealedAt \in Nat
  BY SealedAtIs DEF AuditInv, ArchiveInv, ArchiveSound, LostBefore
<1>9. Branches(archive, P)
  BY <1>3, <1>6, <1>8, BranchesCut
<1>10. LostBefore'
  BY <1>1, <1>5, <1>8 DEF LostBefore
<1>11. ArchiveSound'
  BY <1>1, <1>2, <1>4, <1>8, <1>9, <1>10 DEF ArchiveSound, EarlierAt
<1>12. Fenced'
  <2>1. BeatSound(point.beat, point.fences)
    BY <1>2 DEF EarlierAt
  <2>2. BeatSound(beat, fences)'
    BY <1>1, <1>5, <2>1 DEF BeatSound
  <2>3. point.beat.timeline # timeline + 1
    BY <1>5, <2>1 DEF BeatSound
  <2>4. \A s : LostAt(s, point) => s \in P \/ Accounted(s)'
    BY <1>1, <2>3 DEF LostAt, Accounted, Explained
  <2> QED BY <1>1, <1>2, <1>4, <2>2, <2>4 DEF Fenced
<1>13. Earlier'
  BY <1>1 DEF Earlier
<1> QED BY <1>7, <1>11, <1>12, <1>13 DEF ArchiveInv

\* A heartbeat: the change it sees is fenced with the moment of the last one, or was
\* already by a fence that names an earlier moment.
LEMMA BeatArchive == ASSUME AuditInv, Beat, IInv' PROVE ArchiveInv'
<1>1. /\ UNCHANGED <<timeline, seals, nextSeal, exports, archive, exporting, point>>
      /\ now' = now + 1 /\ beat' = [at |-> now, timeline |-> timeline]
      /\ IF Unfenced THEN fences' = fences \cup {FenceRaised} /\ Appended("FENCE") ELSE UNCHANGED <<fences, events>>
  BY DEF Beat
<1>2. now \in Nat /\ timeline \in Nat /\ SealsHere' = SealsHere /\ now <= now' /\ Settle \in Nat
  BY <1>1, Basics DEF AuditInv, SealsHere
<1>3. ASSUME NEW e \in events', e \notin events, NEW s \in SealsHere, e.seq > s.to
      PROVE  e.at + Settle >= s.sealedAt
  <2>1. Appended("FENCE")
    BY <1>1, <1>3
  <2>2. e.at = now
    BY <1>3, <2>1 DEF Appended
  <2>3. s.sealedAt \in Nat /\ s.sealedAt <= now
    BY SealedAtIs DEF AuditInv, ArchiveInv, HereSound
  <2> QED BY <1>2, <2>2, <2>3
<1>4. HereSound' /\ ArchiveSound' /\ Earlier'
  BY <1>1, <1>2, <1>3, HereStays, ArchiveStays, EarlierStays
<1>5. BeatSound(beat, fences)
  BY DEF AuditInv, ArchiveInv, Fenced
<1>6. beat'.at = now /\ beat'.timeline = timeline
  BY <1>1
<1>7. FenceRaised \in Fence /\ FenceRaised.known = beat.at
  BY <1>2, <1>5 DEF FenceRaised, KnownUntil, Fence, BeatSound
<1>8. fences \subseteq fences' /\ \A f \in fences' : f \in fences \/ f = FenceRaised
  BY <1>1
<1>9. BeatSound(beat, fences)'
  <2>1. \A f \in fences' : f \in Fence /\ f.known \in Nat /\ f.known <= beat.at /\ beat.at \in Nat /\ beat.at < now
    BY <1>5, <1>7, <1>8 DEF BeatSound, Fence
  <2>2. \A f \in fences' : f \in Fence /\ f.known <= beat'.at
    BY <1>2, <1>6, <2>1
  <2> QED BY <1>1, <1>2, <1>6, <2>2 DEF BeatSound
<1>10. ASSUME NEW d \in archive, NEW s \in d.seals, s \notin SealsHere PROVE Explained(s, fences')
  <2>1. Accounted(s) /\ s.sealedAt \in Nat
    BY <1>10, SealedAtIs DEF AuditInv, ArchiveInv, Fenced
  <2>2. CASE Explained(s, fences)
    BY <1>8, <2>2 DEF Explained
  <2>3. CASE beat.timeline # timeline /\ s.sealedAt > beat.at
    <3>1. CASE Unfenced
      <4>1. FenceRaised \in fences' /\ s.sealedAt > FenceRaised.known
        BY <1>1, <1>7, <2>3, <3>1
      <4> QED BY <4>1 DEF Explained
    <3>2. CASE ~ Unfenced
      <4>1. PICK f \in fences : TRUE
        BY <2>3, <3>2 DEF Unfenced
      <4>2. f.known \in Nat /\ f.known <= beat.at /\ beat.at \in Nat
        BY <1>5 DEF BeatSound, Fence
      <4>3. s.sealedAt > f.known
        BY <2>1, <2>3, <4>2
      <4> QED BY <1>8, <4>3 DEF Explained
    <3> QED BY <3>1, <3>2
  <2> QED BY <2>1, <2>2, <2>3 DEF Accounted
<1>11. Fenced'
  BY <1>1, <1>2, <1>9, <1>10 DEF Fenced, Accounted, Explained
<1> QED BY <1>4, <1>11 DEF ArchiveInv

\* At the start the archive is empty.
LEMMA ArchiveStarts == AuditInit => ArchiveInv
<1> SUFFICES ASSUME AuditInit PROVE ArchiveInv
  OBVIOUS
<1>1. /\ seals = <<>> /\ exports = <<>> /\ archive = {} /\ exporting = NoRow /\ point = NoRow
      /\ beat = [at |-> 0, timeline |-> 1] /\ fences = {} /\ events = {} /\ now = 1 /\ timeline = 1
  BY DEF AuditInit, Init
<1>2. SealsHere = {}
  BY <1>1 DEF SealsHere, Range
<1>3. HereSound
  BY <1>1, <1>2 DEF HereSound, Line, InOrder, Settling
<1>4. RecordedIn(exports, archive, SealsHere)
  <2>1. <<>> \in Seq(Range(<<>>)) /\ DOMAIN <<>> = {}
    OBVIOUS
  <2> QED BY <1>1, <2>1 DEF RecordedIn
<1>5. ArchiveSound
  BY <1>1, <1>4, FS_EmptySet DEF ArchiveSound, Kept, Branches, LostBefore
<1>6. Fenced /\ Earlier
  BY <1>1 DEF Fenced, BeatSound, Earlier
<1> QED BY <1>3, <1>5, <1>6 DEF ArchiveInv

\* Every step keeps it.
LEMMA ArchiveSteps == AuditInv /\ [Next]_vars => AuditInv'
<1> SUFFICES ASSUME AuditInv, [Next]_vars PROVE AuditInv'
  OBVIOUS
<1>1. IInv'
  BY TrailSteps DEF AuditInv
<1>2. CASE CommandNext /\ UNCHANGED auditVars
  BY <1>1, <1>2, CommandArchive DEF AuditInv
<1>3. CASE UNCHANGED vars
  BY <1>1, <1>3, StutterArchive DEF AuditInv
<1>4. CASE Seal
  BY <1>1, <1>4, SealArchive DEF AuditInv
<1>5. CASE Adopt \/ Put \/ Record
  BY <1>1, <1>5, AdoptArchive, PutArchive, RecordArchive DEF AuditInv
<1>6. CASE BackUp \/ Restore
  BY <1>1, <1>6, BackUpArchive, RestoreArchive DEF AuditInv
<1>7. CASE Beat \/ Lift
  BY <1>1, <1>7, BeatArchive, LiftArchive DEF AuditInv
<1> QED BY <1>2, <1>3, <1>4, <1>5, <1>6, <1>7 DEF Next

\* With every change of timeline seen, everything lost is explained: what verification needs.
LEMMA VerifiesAt == AuditInv => HonestArchiveVerifies
<1> SUFFICES ASSUME AuditInv, beat.timeline = timeline, \A d \in archive : ~ Adoptable(d) PROVE Findings = {}
  BY DEF HonestArchiveVerifies
<1>1. Hashing(SealsHere, events)
  <2> SUFFICES ASSUME NEW h \in SealsHere PROVE h.hash = HashOver(events, h.prev, h.from, h.to)
    BY DEF Hashing
  <2>1. PICK i \in DOMAIN seals : h = seals[i]
    BY DEF SealsHere, Range
  <2>2. Follows(h, BeforeIn(seals, i), events)
    BY <2>1 DEF AuditInv, IInv, Trail, SealedIn, StandsIn
  <2> QED BY <2>2 DEF Follows
<1>2. \A d \in archive : \A s \in d.seals : s \in SealsHere \/ Explained(s, fences)
  BY DEF AuditInv, ArchiveInv, Fenced, Accounted
<1>3. \A d \in archive : ~ AdoptableAt(d, EndIn(exports), SealsHere)
  BY ExporterIs
<1>4. Verifiable
  BY <1>1, <1>2, <1>3 DEF Verifiable, AuditInv, ArchiveInv, HereSound, ArchiveSound
<1> QED BY <1>4, NothingFound

\* What the exporter and verification rest on: the seals of this database are a line,
\* every range in the bucket branches off it at a seal the recorded exports or another
\* range end with, and every lost seal is one a fence explains or a heartbeat is still to
\* see (export.ts:111-183, ops/src/recovery.ts).
THEOREM ArchiveInvariant == Spec => []AuditInv
<1>1. AuditInit => AuditInv
  BY TrailStarts, ArchiveStarts DEF AuditInv
<1> QED BY <1>1, ArchiveSteps, PTL DEF Spec

\* What the database asks of an export it records.
ExportsContinue ==
  /\ \A d \in archive : Adoptable(d) => Continues(d)
  /\ exporting # NoRow => Continues(exporting)

\* The database never refuses an export (IX099): whatever run died between writing a
\* range and recording it, and whatever was recovered, the range the exporter adopts or
\* has just written starts where the recorded ones end and is of the seals that are here
\* (exportAuditSeals and adoptExport, export.ts:111-180).
THEOREM NoExportRefused == Spec => []ExportsContinue
<1>1. AuditInv => ExportsContinue
  <2> SUFFICES ASSUME AuditInv PROVE ExportsContinue
    OBVIOUS
  <2>1. \A d \in archive : Adoptable(d) => Continues(d)
    BY ExporterIs, AdoptableWhole
  <2>2. exporting # NoRow => Continues(exporting)
    BY AdoptableWhole DEF AuditInv, ArchiveInv, ArchiveSound
  <2> QED BY <2>1, <2>2 DEF ExportsContinue
<1> QED BY <1>1, ArchiveInvariant, PTL

\* Where nobody tampered, the archive verifies, for any commands, recoveries and runs
\* that died: once a heartbeat has seen the change of timeline and the exporter has left
\* nothing to adopt, verifyAuditArchive reports no finding (export.ts:198, tasks.ts:143).
THEOREM ArchiveVerifies == Spec => []HonestArchiveVerifies
  BY ArchiveInvariant, VerifiesAt, PTL

-----------------------------------------------------------------------------
(* The outbox. *)

Dispatches == [claimed : SUBSET Events, todo : SUBSET Events, step : Nat,
               data : Data, saves : Seq(Savepoint)]
At(d) == CHOOSE e \in d.todo : \A o \in d.todo : e <= o
HasHandlers == \A e \in Events : rows[e].status # "ABSENT" => Matching[e] # <<>>

\* What a dispatcher sees, and what it may go back to: a dispatched event with all
\* its deliveries, and no attempt beyond the last.
DataSound(x, claimed) ==
  /\ x.delivered \subseteq claimed \X Handlers
  /\ \A e \in claimed : x.rows[e].status # "ABSENT"
  /\ \A e \in Events :
       /\ x.rows[e].status = "DISPATCHED" =>
            Matching[e] # <<>> /\ \A i \in DOMAIN Matching[e] : <<e, Matching[e][i]>> \in delivered \cup x.delivered
       /\ x.rows[e].status \in {"ABSENT", "PENDING"} => x.rows[e].attempts < MaxAttempts

\* A dispatch at an event has its deliveries up to where it is, and its savepoint on top.
StepSound(d) ==
  d.step > 0 =>
    /\ d.todo # {} /\ Matching[At(d)] # <<>>
    /\ d.step <= Len(Matching[At(d)]) + 1
    /\ \A i \in DOMAIN Matching[At(d)] : i < d.step => <<At(d), Matching[At(d)][i]>> \in delivered \cup d.data.delivered
    /\ d.saves # <<>> /\ d.saves[Len(d.saves)].name = "event"

DispatchSound(d) ==
  /\ d.todo \subseteq d.claimed
  /\ \A e \in d.claimed : rows[e].status = "PENDING"
  /\ DataSound(d.data, d.claimed)
  /\ \A i \in DOMAIN d.saves : DataSound(d.saves[i].data, d.claimed)
  /\ StepSound(d)

RowsSound ==
  /\ rows \in [Events -> Row] /\ delivered \subseteq Pairs
  /\ \A e \in Events :
       /\ rows[e].status = "DISPATCHED" =>
            Matching[e] # <<>> /\ \A i \in DOMAIN Matching[e] : <<e, Matching[e][i]>> \in delivered
       /\ rows[e].status \in {"ABSENT", "PENDING"} => rows[e].attempts < MaxAttempts

WorkersSound ==
  /\ dispatch \in [Workers -> Dispatches]
  /\ \A w \in Workers : DispatchSound(dispatch[w])
  /\ \A w, v \in Workers : w # v => dispatch[w].claimed \cap dispatch[v].claimed = {}

\* Beyond the crashes, a handler ran only what is delivered or being delivered.
EffectsCounted ==
  /\ effects \in [Pairs -> Nat] /\ crashes \in 0 .. MaxCrashes
  /\ HasHandlers => \A p \in Pairs :
       /\ effects[p] <= crashes + 1
       /\ p \notin delivered /\ (\A w \in Workers : p \notin dispatch[w].data.delivered) => effects[p] <= crashes

OInv == RowsSound /\ WorkersSound /\ EffectsCounted

-----------------------------------------------------------------------------
LEMMA IdleSound ==
  /\ Idle \in Dispatches
  /\ Idle.claimed = {} /\ Idle.todo = {} /\ Idle.step = 0 /\ Idle.saves = <<>> /\ Idle.data.delivered = {}
  /\ DispatchSound(Idle)
<1> DEFINE none == [e \in Events |-> [status |-> "ABSENT", attempts |-> 0]]
<1>1. none \in [Events -> Row] /\ \A e \in Events : none[e].status = "ABSENT" /\ none[e].attempts = 0
  BY OutboxAssumption DEF Row, Statuses
<1>2. /\ Idle.claimed = {} /\ Idle.todo = {} /\ Idle.step = 0 /\ Idle.saves = <<>>
      /\ Idle.data.delivered = {} /\ Idle.data.rows = none
  BY DEF Idle
<1>3. Idle \in Dispatches
  BY <1>1, <1>2 DEF Idle, Dispatches, Data
<1> HIDE DEF none
<1>4. DataSound(Idle.data, {})
  <2>0. 0 < MaxAttempts
    BY OutboxAssumption
  <2>1. \A e \in Events : Idle.data.rows[e].status = "ABSENT" /\ Idle.data.rows[e].attempts < MaxAttempts
    BY <1>1, <1>2, <2>0, Zenon
  <2> QED BY <1>2, <2>1 DEF DataSound
<1> QED BY <1>2, <1>3, <1>4 DEF DispatchSound, StepSound

\* The event a dispatch is at is one of those it has still to do.
LEMMA AtIsTodo == ASSUME NEW d \in Dispatches, d.todo # {} PROVE At(d) \in d.todo /\ At(d) \in Events
<1>1. d.todo \in SUBSET Nat /\ d.todo \subseteq Events
  BY OutboxAssumption DEF Dispatches
<1>2. \E e \in d.todo : \A o \in d.todo : e <= o
  BY <1>1, LeastIn
<1> QED BY <1>1, <1>2 DEF At

LEMMA CurrentIs == \A w : Current(w) = At(dispatch[w])
  BY DEF Current, At

\* The latest savepoint of a name is there when one is, and the last is when it has the name.
LEMMA LastSaveThere ==
  ASSUME NEW s \in Seq(Savepoint), NEW n, LastSave(s, n) # 0
  PROVE  LastSave(s, n) \in DOMAIN s
<1> DEFINE at == {i \in DOMAIN s : s[i].name = n}
<1>1. at # {} /\ at \in SUBSET Nat /\ \A i \in at : i < Len(s) + 1
  BY DEF LastSave
<1>2. \E i \in at : \A j \in at : j <= i
  <2> HIDE DEF at
  <2> QED BY <1>1, GreatestIn, Len(s) + 1 \in Nat
<1> QED BY <1>1, <1>2 DEF LastSave

LEMMA LastSaveOnTop ==
  ASSUME NEW s \in Seq(Savepoint), NEW n, s # <<>>, s[Len(s)].name = n
  PROVE  LastSave(s, n) = Len(s)
<1> DEFINE at == {i \in DOMAIN s : s[i].name = n}
<1>1. Len(s) \in at /\ \A j \in at : j <= Len(s) /\ j \in Nat
  OBVIOUS
<1>2. LastSave(s, n) = CHOOSE i \in at : \A j \in at : j <= i
  BY <1>1 DEF LastSave
<1>3. \A i \in at : (\A j \in at : j <= i) => i = Len(s)
  BY <1>1
<1> HIDE DEF at
<1> QED BY <1>1, <1>2, <1>3

\* A worker goes on by itself: nothing that is committed changes.
LEMMA WorkerMoves ==
  ASSUME OInv, NEW w \in Workers, NEW d \in Dispatches, DispatchSound(d),
         dispatch' = [dispatch EXCEPT ![w] = d], UNCHANGED <<rows, delivered>>,
         \A v \in Workers : v # w => d.claimed \cap dispatch[v].claimed = {}
  PROVE  RowsSound' /\ WorkersSound'
<1>1. dispatch \in [Workers -> Dispatches]
  BY DEF OInv, WorkersSound
<1>2. dispatch' \in [Workers -> Dispatches] /\ dispatch'[w] = d /\ \A v \in Workers : v # w => dispatch'[v] = dispatch[v]
  BY <1>1
<1>3. RowsSound'
  BY DEF OInv, RowsSound
<1>4. \A v \in Workers : DispatchSound(dispatch'[v])
  BY <1>2 DEF OInv, WorkersSound
<1>5. \A v \in Workers : DispatchSound(dispatch[v])'
  <2> SUFFICES ASSUME NEW v \in Workers PROVE DispatchSound(dispatch[v])'
    OBVIOUS
  <2>1. DispatchSound(dispatch'[v])
    BY <1>4
  <2>2. \A c : DataSound(dispatch[v].data, c)' <=> DataSound(dispatch'[v].data, c)
    BY DEF DataSound
  <2>3. \A i \in DOMAIN dispatch'[v].saves : DataSound(dispatch'[v].saves[i].data, dispatch'[v].claimed)
    BY <2>1 DEF DispatchSound
  <2>4. \A i \in DOMAIN dispatch'[v].saves : DataSound(dispatch[v].saves[i].data, dispatch[v].claimed)'
    BY <2>3 DEF DataSound
  <2>5. StepSound(dispatch[v])'
    BY <2>1 DEF DispatchSound, StepSound, At
  <2> QED BY <2>1, <2>2, <2>4, <2>5 DEF DispatchSound
<1>6. \A u, v \in Workers : u # v => dispatch'[u].claimed \cap dispatch'[v].claimed = {}
  BY <1>2 DEF OInv, WorkersSound
<1> QED BY <1>2, <1>3, <1>5, <1>6 DEF WorkersSound

\* What it does to the count: a handler that runs is being delivered, and what was
\* being delivered still is.
LEMMA CountMoves ==
  ASSUME OInv, NEW w \in Workers, NEW d, dispatch' = [dispatch EXCEPT ![w] = d],
         UNCHANGED <<rows, delivered, effects, crashes>>,
         HasHandlers => dispatch[w].data.delivered \subseteq d.data.delivered
  PROVE  EffectsCounted'
<1>1. dispatch'[w] = d /\ \A v \in Workers : v # w => dispatch'[v] = dispatch[v]
  BY DEF OInv, WorkersSound
<1>2. HasHandlers' <=> HasHandlers
  BY DEF HasHandlers
<1>3. ASSUME HasHandlers, NEW p \in Pairs, \A v \in Workers : p \notin dispatch'[v].data.delivered
      PROVE  \A v \in Workers : p \notin dispatch[v].data.delivered
  BY <1>1, <1>3
<1> QED BY <1>2, <1>3 DEF OInv, EffectsCounted

LEMMA OutboxStarts == OutboxInit => OInv
<1> SUFFICES ASSUME OutboxInit PROVE OInv
  OBVIOUS
<1>1. rows \in [Events -> Row] /\ \A e \in Events : rows[e].status = "ABSENT" /\ rows[e].attempts = 0
  BY OutboxAssumption DEF OutboxInit, Row, Statuses
<1>2. RowsSound
  BY <1>1, OutboxAssumption DEF RowsSound, OutboxInit
<1>3. dispatch \in [Workers -> Dispatches] /\ \A w \in Workers : dispatch[w] = Idle
  BY IdleSound DEF OutboxInit
<1>4. WorkersSound
  BY <1>3, IdleSound DEF WorkersSound
<1>5. EffectsCounted
  <2>1. effects \in [Pairs -> Nat] /\ crashes = 0 /\ \A p \in Pairs : effects[p] = 0
    BY DEF OutboxInit
  <2> QED BY <2>1, OutboxAssumption DEF EffectsCounted
<1> QED BY <1>2, <1>4, <1>5 DEF OInv

\* A rollback goes back to one of the savepoints, which stays, and the event's row has
\* one attempt more.
LEMMA FailedIs ==
  ASSUME OInv, NEW d \in Dispatches, NEW e \in d.todo, rows[e] \in Row, rows[e].attempts < MaxAttempts,
         NEW s \in Seq(Savepoint), s # <<>>, s[Len(s)].name \in {"event", "handler"}
  PROVE  LET n == Failed(d, e, s) IN
         \E to \in DOMAIN s :
           /\ n \in Dispatches
           /\ n.claimed = d.claimed /\ n.todo = d.todo \ {e} /\ n.step = 0
           /\ DOMAIN n.saves = 1 .. to /\ \A i \in DOMAIN n.saves : i \in DOMAIN s /\ n.saves[i] = s[i]
           /\ n.data.delivered = s[to].data.delivered /\ n.data.rows[e] = Counted(rows[e])
           /\ \A f \in Events : f # e => n.data.rows[f] = s[to].data.rows[f]
           /\ Counted(rows[e]).status \in {"PENDING", "FAILED"}
           /\ Counted(rows[e]).status = "PENDING" => Counted(rows[e]).attempts < MaxAttempts
<1> DEFINE h == LastSave(s, "handler")
<1> DEFINE to == IF h # 0 THEN h ELSE LastSave(s, "event")
<1> DEFINE x == [s[to].data EXCEPT !.rows[e] = Counted(rows[e])]
<1> DEFINE kept == SubSeq(s, 1, to)
<1> DEFINE n == Failed(d, e, s)
<1>1. to \in DOMAIN s
  <2>1. CASE h # 0
    BY <2>1, LastSaveThere
  <2>2. CASE h = 0
    <3>1. Len(s) \in DOMAIN s /\ Len(s) # 0
      OBVIOUS
    <3>2. s[Len(s)].name # "handler"
      BY <2>2, <3>1, LastSaveOnTop
    <3>3. LastSave(s, "event") = Len(s)
      BY <3>2, LastSaveOnTop
    <3> QED BY <2>2, <3>1, <3>3
  <2> QED BY <2>1, <2>2
<1>2. n = [d EXCEPT !.todo = @ \ {e}, !.step = 0, !.saves = kept, !.data = x]
  BY DEF Failed
<1>3. /\ Counted(rows[e]) \in Row /\ Counted(rows[e]).status \in {"PENDING", "FAILED"}
      /\ Counted(rows[e]).status = "PENDING" => Counted(rows[e]).attempts < MaxAttempts
  BY OutboxAssumption DEF Counted, Row, Statuses
<1> HIDE DEF to, h
<1>4. s[to].data \in Data /\ e \in Events
  <2>1. s[to] \in Savepoint
    BY <1>1
  <2> QED BY <2>1 DEF Savepoint, Dispatches
<1>5. /\ x \in Data /\ x.delivered = s[to].data.delivered /\ x.rows[e] = Counted(rows[e])
      /\ \A f \in Events : f # e => x.rows[f] = s[to].data.rows[f]
  BY <1>3, <1>4 DEF Data
<1>6. /\ kept \in Seq(Savepoint) /\ DOMAIN kept = 1 .. to
      /\ \A i \in 1 .. to : kept[i] = s[i] /\ i \in DOMAIN s
  BY <1>1
<1> HIDE DEF x, kept, n
<1>7. /\ n.claimed = d.claimed /\ n.todo = d.todo \ {e} /\ n.step = 0 /\ n.saves = kept /\ n.data = x
      /\ n \in Dispatches
  <2>1. d.todo \ {e} \in SUBSET Events
    BY DEF Dispatches
  <2> QED BY <1>2, <1>5, <1>6, <2>1 DEF Dispatches
<1> QED BY <1>1, <1>3, <1>5, <1>6, <1>7 DEF n

\* It leaves a sound dispatch.
LEMMA FailedSound ==
  ASSUME OInv, NEW d \in Dispatches, DispatchSound(d), NEW e \in d.todo, NEW s \in Seq(Savepoint),
         s # <<>>, s[Len(s)].name \in {"event", "handler"},
         \A i \in DOMAIN s : DataSound(s[i].data, d.claimed)
  PROVE  Failed(d, e, s) \in Dispatches /\ DispatchSound(Failed(d, e, s)) /\ Failed(d, e, s).claimed = d.claimed
<1> DEFINE n == Failed(d, e, s)
<1>1. /\ e \in Events /\ e \in d.claimed /\ rows[e] \in Row /\ rows[e].status = "PENDING"
      /\ rows[e].attempts < MaxAttempts
  BY DEF DispatchSound, Dispatches, OInv, RowsSound
<1>2. PICK to \in DOMAIN s :
           /\ n \in Dispatches
           /\ n.claimed = d.claimed /\ n.todo = d.todo \ {e} /\ n.step = 0
           /\ DOMAIN n.saves = 1 .. to /\ \A i \in DOMAIN n.saves : i \in DOMAIN s /\ n.saves[i] = s[i]
           /\ n.data.delivered = s[to].data.delivered /\ n.data.rows[e] = Counted(rows[e])
           /\ \A f \in Events : f # e => n.data.rows[f] = s[to].data.rows[f]
           /\ Counted(rows[e]).status \in {"PENDING", "FAILED"}
           /\ Counted(rows[e]).status = "PENDING" => Counted(rows[e]).attempts < MaxAttempts
  BY <1>1, FailedIs
<1> HIDE DEF n
<1>3. DataSound(s[to].data, d.claimed)
  OBVIOUS
<1>4. DataSound(n.data, d.claimed)
  <2>1. \A f \in d.claimed : n.data.rows[f].status # "ABSENT"
    BY <1>2, <1>3 DEF DataSound, Dispatches
  <2>2. ASSUME NEW f \in Events
        PROVE  /\ n.data.rows[f].status = "DISPATCHED" =>
                    Matching[f] # <<>> /\ \A i \in DOMAIN Matching[f] : <<f, Matching[f][i]>> \in delivered \cup n.data.delivered
               /\ n.data.rows[f].status \in {"ABSENT", "PENDING"} => n.data.rows[f].attempts < MaxAttempts
    <3>1. CASE f = e
      BY <1>2, <3>1
    <3>2. CASE f # e
      BY <1>2, <1>3, <3>2 DEF DataSound
    <3> QED BY <3>1, <3>2
  <2> QED BY <1>2, <1>3, <2>1, <2>2 DEF DataSound
<1>5. n.todo \subseteq n.claimed /\ \A f \in n.claimed : rows[f].status = "PENDING"
  BY <1>2 DEF DispatchSound
<1>6. \A i \in DOMAIN n.saves : DataSound(n.saves[i].data, n.claimed)
  BY <1>2
<1>7. StepSound(n)
  BY <1>2 DEF StepSound
<1> QED BY <1>2, <1>4, <1>5, <1>6, <1>7 DEF DispatchSound, n

-----------------------------------------------------------------------------
LEMMA EnqueueHolds == ASSUME OInv, NEW e \in Events, Enqueue(e) PROVE OInv'
<1>1. /\ rows \in [Events -> Row] /\ rows[e].status = "ABSENT" /\ rows[e].attempts < MaxAttempts
      /\ rows' = [rows EXCEPT ![e].status = "PENDING"]
      /\ UNCHANGED <<delivered, dispatch, effects, crashes>>
  BY DEF Enqueue, OInv, RowsSound
<1>2. /\ rows' \in [Events -> Row] /\ rows'[e].status = "PENDING" /\ rows'[e].attempts = rows[e].attempts
      /\ \A f \in Events : f # e => rows'[f] = rows[f]
  BY <1>1 DEF Row, Statuses
<1>3. RowsSound'
  <2>1. ASSUME NEW f \in Events
        PROVE  /\ rows'[f].status = "DISPATCHED" =>
                    Matching[f] # <<>> /\ \A i \in DOMAIN Matching[f] : <<f, Matching[f][i]>> \in delivered
               /\ rows'[f].status \in {"ABSENT", "PENDING"} => rows'[f].attempts < MaxAttempts
    <3>1. CASE f = e
      BY <1>1, <1>2, <3>1
    <3>2. CASE f # e
      BY <1>2, <3>2 DEF OInv, RowsSound
    <3> QED BY <3>1, <3>2
  <2> QED BY <1>1, <1>2, <2>1 DEF OInv, RowsSound
<1>4. WorkersSound'
  <2>1. ASSUME NEW w \in Workers PROVE DispatchSound(dispatch[w])'
    <3>1. DispatchSound(dispatch[w])
      BY DEF OInv, WorkersSound
    <3>2. \A f \in dispatch[w].claimed : rows'[f].status = "PENDING"
      BY <1>1, <1>2, <3>1 DEF DispatchSound, OInv, WorkersSound, Dispatches
    <3>3. DataSound(dispatch[w].data, dispatch[w].claimed)'
      BY <1>1, <3>1 DEF DispatchSound, DataSound
    <3>4. \A i \in DOMAIN dispatch[w].saves : DataSound(dispatch[w].saves[i].data, dispatch[w].claimed)'
      BY <1>1, <3>1 DEF DispatchSound, DataSound
    <3>5. StepSound(dispatch[w])'
      BY <1>1, <3>1 DEF DispatchSound, StepSound, At
    <3> QED BY <1>1, <3>1, <3>2, <3>3, <3>4, <3>5 DEF DispatchSound
  <2> QED BY <1>1, <2>1 DEF OInv, WorkersSound
<1>5. EffectsCounted'
  <2>1. HasHandlers' => HasHandlers
    BY <1>1, <1>2 DEF HasHandlers
  <2> QED BY <1>1, <2>1 DEF OInv, EffectsCounted
<1> QED BY <1>3, <1>4, <1>5 DEF OInv

LEMMA ClaimHolds == ASSUME OInv, NEW w \in Workers, Claim(w) PROVE OInv'
<1>1. PICK S \in SUBSET Free :
        dispatch' = [dispatch EXCEPT ![w] = [Idle EXCEPT !.claimed = S, !.todo = S,
                       !.data = [rows |-> rows, delivered |-> {}]]]
  BY DEF Claim
<1> DEFINE x == [rows |-> rows, delivered |-> {}]
<1> DEFINE d == [Idle EXCEPT !.claimed = S, !.todo = S, !.data = x]
<1>2. /\ S \subseteq Events /\ \A e \in S : rows[e].status = "PENDING"
      /\ \A v \in Workers : S \cap dispatch[v].claimed = {}
      /\ dispatch[w].claimed = {} /\ UNCHANGED <<rows, delivered, effects, crashes>>
  BY DEF Free, Pending, Locked, Claim, Busy
<1>3. x \in Data /\ DataSound(x, S)
  <2>1. rows \in [Events -> Row]
    BY DEF OInv, RowsSound
  <2> QED BY <1>2, <2>1 DEF OInv, RowsSound, Data, DataSound
<1> HIDE DEF x
<1>4. /\ d \in Dispatches /\ d.claimed = S /\ d.todo = S /\ d.step = 0 /\ d.saves = <<>> /\ d.data = x
  BY <1>2, <1>3, IdleSound DEF Dispatches
<1>5. dispatch' = [dispatch EXCEPT ![w] = d]
  BY <1>1 DEF x
<1> HIDE DEF d
<1>6. DispatchSound(d)
  BY <1>2, <1>3, <1>4 DEF DispatchSound, StepSound
<1>7. RowsSound' /\ WorkersSound'
  BY <1>2, <1>4, <1>5, <1>6, WorkerMoves
<1>8. dispatch[w].data.delivered = {}
  BY <1>2 DEF OInv, WorkersSound, DispatchSound, DataSound
<1>9. EffectsCounted'
  BY <1>2, <1>5, <1>8, CountMoves
<1> QED BY <1>7, <1>9 DEF OInv

\* A worker's record is one; what it opens on top of its savepoints is sound.
LEMMA MyDispatch ==
  ASSUME OInv, NEW w \in Workers
  PROVE  /\ dispatch[w] \in Dispatches /\ DispatchSound(dispatch[w])
         /\ \A v \in Workers : v # w => dispatch[w].claimed \cap dispatch[v].claimed = {}
         /\ dispatch[w].data \in Data /\ dispatch[w].saves \in Seq(Savepoint)
  BY DEF OInv, WorkersSound, Dispatches

LEMMA OneMoreSave ==
  ASSUME NEW d \in Dispatches, DispatchSound(d), NEW n \in {"event", "handler"},
         NEW s, s = Append(d.saves, [name |-> n, data |-> d.data])
  PROVE  /\ s \in Seq(Savepoint) /\ s # <<>> /\ Len(s) = Len(d.saves) + 1
         /\ s[Len(s)].name = n /\ s[Len(s)].data = d.data
         /\ \A i \in DOMAIN s : DataSound(s[i].data, d.claimed)
<1> DEFINE p == [name |-> n, data |-> d.data]
<1>1. p \in Savepoint /\ d.saves \in Seq(Savepoint) /\ p.name = n /\ p.data = d.data
  BY DEF Savepoint, Dispatches
<1>2. s = Append(d.saves, p)
  OBVIOUS
<1> HIDE DEF p
<1>3. /\ s \in Seq(Savepoint) /\ s # <<>> /\ Len(s) = Len(d.saves) + 1 /\ s[Len(s)] = p
      /\ \A i \in DOMAIN s : i = Len(s) \/ (i \in DOMAIN d.saves /\ s[i] = d.saves[i])
  BY <1>1, <1>2
<1>4. \A i \in DOMAIN s : DataSound(s[i].data, d.claimed)
  BY <1>1, <1>3 DEF DispatchSound
<1> QED BY <1>1, <1>3, <1>4

LEMMA OpenEventHolds == ASSUME OInv, NEW w \in Workers, OpenEvent(w) PROVE OInv'
<1> DEFINE d == dispatch[w]
<1> DEFINE s == Append(d.saves, [name |-> "event", data |-> d.data])
<1>1. /\ d \in Dispatches /\ DispatchSound(d) /\ d.todo # {} /\ d.step = 0 /\ Current(w) = At(d)
      /\ \A v \in Workers : v # w => d.claimed \cap dispatch[v].claimed = {}
      /\ UNCHANGED <<rows, delivered, effects, crashes>>
  BY MyDispatch, CurrentIs DEF OpenEvent
<1>2. At(d) \in d.todo /\ At(d) \in Events
  BY <1>1, AtIsTodo
<1>3. /\ s \in Seq(Savepoint) /\ s # <<>> /\ s[Len(s)].name = "event"
      /\ \A i \in DOMAIN s : DataSound(s[i].data, d.claimed)
  <2>1. s = Append(d.saves, [name |-> "event", data |-> d.data]) /\ "event" \in {"event", "handler"}
    OBVIOUS
  <2> HIDE DEF d, s
  <2> QED BY <1>1, <2>1, OneMoreSave
<1>4. dispatch' = [dispatch EXCEPT ![w] = IF Matching[At(d)] = <<>> THEN Failed(d, At(d), s)
                                          ELSE [d EXCEPT !.step = 1, !.saves = s]]
  BY <1>1 DEF OpenEvent
<1>5. CASE Matching[At(d)] = <<>>
  <2> DEFINE n == Failed(d, At(d), s)
  <2> HIDE DEF d, s
  <2>1. n \in Dispatches /\ DispatchSound(n) /\ n.claimed = d.claimed
    BY <1>1, <1>2, <1>3, FailedSound
  <2>2. dispatch' = [dispatch EXCEPT ![w] = n]
    BY <1>4, <1>5
  <2> HIDE DEF n
  <2>3. RowsSound' /\ WorkersSound'
    BY <1>1, <2>1, <2>2, WorkerMoves
  <2>4. ~HasHandlers
    <3>1. At(d) \in Events /\ rows[At(d)].status = "PENDING"
      BY <1>1, <1>2 DEF DispatchSound
    <3> QED BY <1>5, <3>1 DEF HasHandlers
  <2>5. EffectsCounted'
    BY <1>1, <2>2, <2>4, CountMoves
  <2> QED BY <2>3, <2>5 DEF OInv
<1>6. CASE Matching[At(d)] # <<>>
  <2> DEFINE n == [d EXCEPT !.step = 1, !.saves = s]
  <2>1. dispatch' = [dispatch EXCEPT ![w] = n]
    BY <1>4, <1>6
  <2> HIDE DEF d, s
  <2>2. n \in Dispatches /\ n.claimed = d.claimed /\ n.todo = d.todo /\ n.step = 1 /\ n.saves = s /\ n.data = d.data
    BY <1>1, <1>3 DEF Dispatches
  <2> HIDE DEF n
  <2>3. StepSound(n)
    <3>1. At(n) = At(d) /\ Matching[At(d)] \in Seq(Handlers)
      BY <1>2, <2>2, OutboxAssumption DEF At
    <3>2. \A i \in DOMAIN Matching[At(d)] : ~ (i < 1)
      BY <3>1
    <3>3. Len(Matching[At(d)]) \in Nat
      BY <3>1
    <3> QED BY <1>1, <1>3, <1>6, <2>2, <3>1, <3>2, <3>3 DEF StepSound
  <2>4. DispatchSound(n)
    BY <1>1, <1>3, <2>2, <2>3 DEF DispatchSound
  <2>5. RowsSound' /\ WorkersSound'
    BY <1>1, <2>1, <2>2, <2>4, WorkerMoves
  <2>6. EffectsCounted'
    BY <1>1, <2>1, <2>2, CountMoves DEF d
  <2> QED BY <2>5, <2>6 DEF OInv
<1> QED BY <1>5, <1>6

\* At a handler: the event and the place in its list are real.
LEMMA HereIs ==
  ASSUME OInv, NEW w \in Workers, dispatch[w].step > 0
  PROVE  /\ Current(w) = At(dispatch[w]) /\ At(dispatch[w]) \in dispatch[w].todo /\ At(dispatch[w]) \in Events
         /\ Matching[At(dispatch[w])] \in Seq(Handlers) /\ dispatch[w].step \in Nat
         /\ AtHandler(w) <=> dispatch[w].step \in DOMAIN Matching[At(dispatch[w])]
         /\ AtHandler(w) => Here(w) = <<At(dispatch[w]), Matching[At(dispatch[w])][dispatch[w].step]>> /\ Here(w) \in Pairs
<1>1. dispatch[w] \in Dispatches /\ dispatch[w].todo # {} /\ dispatch[w].step \in Nat
  BY MyDispatch DEF DispatchSound, StepSound, Dispatches
<1>2. At(dispatch[w]) \in dispatch[w].todo /\ At(dispatch[w]) \in Events
  BY <1>1, AtIsTodo
<1>3. Matching[At(dispatch[w])] \in Seq(Handlers)
  BY <1>2, OutboxAssumption
<1>4. AtHandler(w) <=> dispatch[w].step \in DOMAIN Matching[At(dispatch[w])]
  BY CurrentIs DEF AtHandler
<1>5. AtHandler(w) => Here(w) = <<At(dispatch[w]), Matching[At(dispatch[w])][dispatch[w].step]>>
  BY CurrentIs DEF Here
<1>6. AtHandler(w) => Matching[At(dispatch[w])][dispatch[w].step] \in Handlers
  BY <1>3, <1>4
<1> QED BY <1>1, <1>2, <1>3, <1>4, <1>5, <1>6, CurrentIs DEF Pairs

\* A dispatch goes on to its next handler with the delivery of the one it is at.
LEMMA NextHandlerSound ==
  ASSUME OInv, NEW w \in Workers, dispatch[w].step > 0, AtHandler(w),
         NEW n \in Dispatches, n.claimed = dispatch[w].claimed, n.todo = dispatch[w].todo,
         n.step = dispatch[w].step + 1, n.saves = dispatch[w].saves, n.data.rows = dispatch[w].data.rows,
         n.data.delivered \in {dispatch[w].data.delivered, dispatch[w].data.delivered \cup {Here(w)}},
         Here(w) \in delivered \cup n.data.delivered
  PROVE  DispatchSound(n)
<1> DEFINE d == dispatch[w]
<1> DEFINE l == Matching[At(d)]
<1>1. /\ d \in Dispatches /\ DispatchSound(d)
      /\ At(d) \in d.todo /\ l \in Seq(Handlers) /\ d.step \in DOMAIN l /\ d.step \in Nat
      /\ Here(w) = <<At(d), l[d.step]>> /\ Here(w) \in Pairs /\ At(n) = At(d)
  BY MyDispatch, HereIs DEF At
<1>2. d.data.delivered \subseteq n.data.delivered
  OBVIOUS
<1>3. DataSound(n.data, n.claimed)
  <2>1. DataSound(d.data, d.claimed) /\ At(d) \in d.claimed
    BY <1>1 DEF DispatchSound
  <2>2. d.data.delivered \subseteq d.claimed \X Handlers
    BY <2>1 DEF DataSound
  <2>3. Here(w) \in d.claimed \X Handlers
    BY <1>1, <2>1 DEF Pairs
  <2>4. n.data.delivered \subseteq n.claimed \X Handlers
    BY <2>2, <2>3
  <2> QED BY <1>2, <2>1, <2>4 DEF DataSound
<1>4. StepSound(n)
  <2>1. /\ d.todo # {} /\ l # <<>> /\ d.saves # <<>> /\ d.saves[Len(d.saves)].name = "event"
        /\ \A i \in DOMAIN l : i < d.step => <<At(d), l[i]>> \in delivered \cup d.data.delivered
    BY <1>1 DEF DispatchSound, StepSound
  <2>2. n.step <= Len(l) + 1
    BY <1>1
  <2>3. \A i \in DOMAIN l : i < n.step => <<At(n), l[i]>> \in delivered \cup n.data.delivered
    <3> SUFFICES ASSUME NEW i \in DOMAIN l, i < d.step + 1 PROVE <<At(d), l[i]>> \in delivered \cup n.data.delivered
      BY <1>1
    <3>1. CASE i = d.step
      BY <1>1, <3>1
    <3>2. CASE i < d.step
      BY <1>2, <2>1, <3>2
    <3>3. i \in Nat
      BY <1>1
    <3> QED BY <1>1, <3>1, <3>2, <3>3
  <2> HIDE DEF l
  <2> QED BY <1>1, <2>1, <2>2, <2>3 DEF StepSound, l
<1> QED BY <1>1, <1>3, <1>4 DEF DispatchSound

LEMMA SkipHandlerHolds == ASSUME OInv, NEW w \in Workers, SkipHandler(w) PROVE OInv'
<1> DEFINE d == dispatch[w]
<1> DEFINE n == [d EXCEPT !.step = @ + 1]
<1>1. /\ d.step > 0 /\ AtHandler(w) /\ Done(w) /\ UNCHANGED <<rows, delivered, effects, crashes>>
      /\ d \in Dispatches /\ DispatchSound(d) /\ d.step \in Nat
      /\ \A v \in Workers : v # w => d.claimed \cap dispatch[v].claimed = {}
  BY MyDispatch, HereIs DEF SkipHandler
<1>2. dispatch' = [dispatch EXCEPT ![w] = n]
  BY DEF SkipHandler
<1>3. n \in Dispatches /\ n.claimed = d.claimed /\ n.todo = d.todo /\ n.step = d.step + 1 /\ n.saves = d.saves /\ n.data = d.data
  BY <1>1 DEF Dispatches
<1> HIDE DEF n
<1>4. DispatchSound(n)
  BY <1>1, <1>3, NextHandlerSound DEF Done
<1>5. RowsSound' /\ WorkersSound'
  BY <1>1, <1>2, <1>3, <1>4, WorkerMoves
<1>6. EffectsCounted'
  BY <1>1, <1>2, <1>3, CountMoves
<1> QED BY <1>5, <1>6 DEF OInv

\* The one effect: of what is neither recorded nor being recorded by anybody.
LEMMA RunHandlerHolds == ASSUME OInv, NEW w \in Workers, RunHandler(w) PROVE OInv'
<1> DEFINE d == dispatch[w]
<1> DEFINE n == [d EXCEPT !.step = @ + 1, !.data.delivered = @ \cup {Here(w)}]
<1>1. /\ d.step > 0 /\ AtHandler(w) /\ ~Done(w) /\ UNCHANGED <<rows, delivered, crashes>>
      /\ d \in Dispatches /\ DispatchSound(d) /\ d.step \in Nat /\ d.data \in Data
      /\ \A v \in Workers : v # w => d.claimed \cap dispatch[v].claimed = {}
      /\ Here(w) \in Pairs /\ Here(w)[1] \in d.claimed /\ effects' = [effects EXCEPT ![Here(w)] = @ + 1]
  BY MyDispatch, HereIs DEF RunHandler, DispatchSound
<1>2. dispatch' = [dispatch EXCEPT ![w] = n]
  BY <1>1 DEF RunHandler, OInv, WorkersSound, Dispatches, Data
<1>3. /\ n \in Dispatches /\ n.claimed = d.claimed /\ n.todo = d.todo /\ n.step = d.step + 1 /\ n.saves = d.saves
      /\ n.data.rows = d.data.rows /\ n.data.delivered = d.data.delivered \cup {Here(w)}
  <2> DEFINE x == [d.data EXCEPT !.delivered = @ \cup {Here(w)}]
  <2>1. x \in Data /\ x.rows = d.data.rows /\ x.delivered = d.data.delivered \cup {Here(w)}
    BY <1>1 DEF Data
  <2>2. n = [d EXCEPT !.step = d.step + 1, !.data = x] /\ d.step + 1 \in Nat
    BY <1>1 DEF Dispatches, Data
  <2>3. d \in Dispatches
    BY <1>1
  <2> HIDE DEF x, n, d
  <2>4. /\ n \in Dispatches /\ n.claimed = d.claimed /\ n.todo = d.todo /\ n.step = d.step + 1
        /\ n.saves = d.saves /\ n.data = x
    BY <2>1, <2>2, <2>3 DEF Dispatches
  <2> QED BY <2>1, <2>4
<1> HIDE DEF n
<1>4. DispatchSound(n)
  BY <1>1, <1>3, NextHandlerSound
<1>5. RowsSound' /\ WorkersSound'
  BY <1>1, <1>2, <1>3, <1>4, WorkerMoves
<1>6. EffectsCounted'
  <2>1. /\ dispatch'[w] = n /\ \A v \in Workers : v # w => dispatch'[v] = dispatch[v]
        /\ effects' \in [Pairs -> Nat] /\ effects'[Here(w)] = effects[Here(w)] + 1
        /\ \A p \in Pairs : p # Here(w) => effects'[p] = effects[p]
    BY <1>1, <1>2 DEF OInv, WorkersSound, EffectsCounted
  <2>2. \A v \in Workers : Here(w) \notin dispatch[v].data.delivered
    <3>1. Here(w) \notin d.data.delivered
      BY <1>1 DEF Done
    <3>2. ASSUME NEW v \in Workers, v # w PROVE Here(w) \notin dispatch[v].data.delivered
      <4>1. DispatchSound(dispatch[v]) /\ d.claimed \cap dispatch[v].claimed = {}
        BY <1>1, <3>2, MyDispatch
      <4>2. DataSound(dispatch[v].data, dispatch[v].claimed)
        BY <4>1 DEF DispatchSound
      <4>3. dispatch[v].data.delivered \subseteq dispatch[v].claimed \X Handlers
        BY <4>2 DEF DataSound
      <4>4. Here(w)[1] \in d.claimed
        BY <1>1
      <4> HIDE DEF d
      <4> QED BY <4>1, <4>3, <4>4
    <3> QED BY <3>1, <3>2
  <2>3. Here(w) \notin delivered
    BY <1>1 DEF Done
  <2>4. HasHandlers' <=> HasHandlers
    BY <1>1 DEF HasHandlers
  <2>5. ASSUME HasHandlers, NEW p \in Pairs
        PROVE  /\ effects'[p] <= crashes + 1
               /\ p \notin delivered /\ (\A v \in Workers : p \notin dispatch'[v].data.delivered) => effects'[p] <= crashes
    <3>1. CASE p = Here(w)
      <4>1. effects[p] <= crashes /\ effects[p] \in Nat /\ crashes \in Nat
        BY <1>1, <2>2, <2>3, <2>5, <3>1 DEF OInv, EffectsCounted
      <4>2. p \in dispatch'[w].data.delivered
        BY <1>3, <2>1, <3>1
      <4> QED BY <2>1, <3>1, <4>1, <4>2
    <3>2. CASE p # Here(w)
      <4>1. (\A v \in Workers : p \notin dispatch'[v].data.delivered) => \A v \in Workers : p \notin dispatch[v].data.delivered
        BY <1>3, <2>1
      <4> QED BY <2>1, <2>5, <3>2, <4>1 DEF OInv, EffectsCounted
    <3> QED BY <3>1, <3>2
  <2> QED BY <1>1, <2>1, <2>4, <2>5 DEF EffectsCounted, OInv
<1> QED BY <1>5, <1>6 DEF OInv

\* A handler throws: back to where it began.
LEMMA FailHandlerHolds == ASSUME OInv, NEW w \in Workers, FailHandler(w) PROVE OInv'
<1> DEFINE d == dispatch[w]
<1> DEFINE s == Append(d.saves, [name |-> "handler", data |-> d.data])
<1> DEFINE n == Failed(d, At(d), s)
<1>1. /\ d.step > 0 /\ UNCHANGED <<rows, delivered, effects, crashes>>
      /\ d \in Dispatches /\ DispatchSound(d) /\ Current(w) = At(d) /\ At(d) \in d.todo /\ At(d) \in Events
      /\ \A v \in Workers : v # w => d.claimed \cap dispatch[v].claimed = {}
  BY MyDispatch, HereIs DEF FailHandler
<1>2. dispatch' = [dispatch EXCEPT ![w] = n]
  BY <1>1 DEF FailHandler
<1>3. s = Append(d.saves, [name |-> "handler", data |-> d.data]) /\ "handler" \in {"event", "handler"}
  OBVIOUS
<1>4. d.data = dispatch[w].data
  OBVIOUS
<1> HIDE DEF d, s
<1>5. /\ s \in Seq(Savepoint) /\ s # <<>> /\ s[Len(s)].name = "handler" /\ s[Len(s)].data = d.data /\ Len(s) # 0
      /\ \A i \in DOMAIN s : DataSound(s[i].data, d.claimed)
  <2>1. /\ s \in Seq(Savepoint) /\ s # <<>> /\ s[Len(s)].name = "handler" /\ s[Len(s)].data = d.data
        /\ \A i \in DOMAIN s : DataSound(s[i].data, d.claimed)
    <3> HIDE DEF n
    <3>1. d \in Dispatches /\ DispatchSound(d)
      BY <1>1
    <3>2. \A t : t = Append(d.saves, [name |-> "handler", data |-> d.data]) =>
             /\ t \in Seq(Savepoint) /\ t # <<>> /\ t[Len(t)].name = "handler" /\ t[Len(t)].data = d.data
             /\ \A i \in DOMAIN t : DataSound(t[i].data, d.claimed)
      BY <3>1, <1>3, OneMoreSave, ZenonT(60)
    <3> QED BY <3>2, <1>3, ZenonT(60)
  <2>2. Len(s) # 0
    BY <2>1
  <2> QED BY <2>1, <2>2
<1>6. n \in Dispatches /\ DispatchSound(n) /\ n.claimed = d.claimed
  BY <1>1, <1>5, FailedSound
<1>7. n.data.delivered = d.data.delivered
  <2>1. LastSave(s, "handler") = Len(s)
    BY <1>5, LastSaveOnTop
  <2>2. n = [d EXCEPT !.todo = @ \ {At(d)}, !.step = 0, !.saves = SubSeq(s, 1, Len(s)),
                      !.data = [d.data EXCEPT !.rows[At(d)] = Counted(rows[At(d)])]]
    BY <1>5, <2>1 DEF Failed
  <2>3. d.data \in Data
    BY <1>1 DEF Dispatches
  <2> QED BY <1>1, <2>2, <2>3 DEF Dispatches, Data
<1> HIDE DEF n
<1>8. RowsSound' /\ WorkersSound'
  BY <1>1, <1>2, <1>6, WorkerMoves DEF d
<1>9. EffectsCounted'
  BY <1>1, <1>2, <1>4, <1>7, CountMoves
<1> QED BY <1>8, <1>9 DEF OInv

\* Every handler of the event is through: its deliveries are there.
LEMMA FinishEventHolds == ASSUME OInv, NEW w \in Workers, FinishEvent(w) PROVE OInv'
<1> DEFINE d == dispatch[w]
<1> DEFINE e == At(d)
<1> DEFINE row == [status |-> "DISPATCHED", attempts |-> rows[e].attempts + 1]
<1> DEFINE x == [d.data EXCEPT !.rows[e] = row]
<1> DEFINE kept == SubSeq(d.saves, 1, LastSave(d.saves, "event") - 1)
<1> DEFINE n == [d EXCEPT !.todo = @ \ {e}, !.step = 0, !.saves = kept, !.data = x]
<1>1. /\ d.step > 0 /\ ~AtHandler(w) /\ UNCHANGED <<rows, delivered, effects, crashes>>
      /\ d \in Dispatches /\ DispatchSound(d) /\ d.step \in Nat /\ d.data \in Data /\ d.saves \in Seq(Savepoint)
      /\ \A v \in Workers : v # w => d.claimed \cap dispatch[v].claimed = {}
      /\ Current(w) = e /\ e \in d.todo /\ e \in Events /\ Matching[e] \in Seq(Handlers)
      /\ d.step \notin DOMAIN Matching[e]
  BY MyDispatch, HereIs DEF FinishEvent
<1>2. dispatch' = [dispatch EXCEPT ![w] = n]
  BY <1>1 DEF FinishEvent, OInv, WorkersSound, Dispatches, Data
<1>3. rows[e] \in Row /\ rows[e].status = "PENDING" /\ rows[e].attempts < MaxAttempts
  BY <1>1 DEF DispatchSound, OInv, RowsSound
<1>4. row \in Row
  BY <1>3, OutboxAssumption DEF Row, Statuses
<1>5. row.status = "DISPATCHED"
  OBVIOUS
<1> HIDE DEF row
<1>6. /\ x \in Data /\ x.delivered = d.data.delivered /\ x.rows[e] = row
      /\ \A f \in Events : f # e => x.rows[f] = d.data.rows[f]
  <2>1. d.data \in Data /\ e \in Events
    BY <1>1
  <2> HIDE DEF d, e
  <2> QED BY <1>4, <2>1 DEF Data
<1>7. Matching[e] # <<>> /\ \A i \in DOMAIN Matching[e] : <<e, Matching[e][i]>> \in delivered \cup d.data.delivered
  <2>1. /\ Matching[e] # <<>> /\ d.step <= Len(Matching[e]) + 1
        /\ \A i \in DOMAIN Matching[e] : i < d.step => <<e, Matching[e][i]>> \in delivered \cup d.data.delivered
    BY <1>1 DEF DispatchSound, StepSound
  <2>2. d.step = Len(Matching[e]) + 1
    BY <1>1, <2>1
  <2>3. \A i \in DOMAIN Matching[e] : i < Len(Matching[e]) + 1
    BY <1>1
  <2> QED BY <2>1, <2>2, <2>3
<1>8. kept \in Seq(Savepoint) /\ DOMAIN kept \subseteq DOMAIN d.saves /\ \A i \in DOMAIN kept : kept[i] = d.saves[i]
  <2>1. d.saves # <<>> /\ LastSave(d.saves, "event") = Len(d.saves)
    BY <1>1, LastSaveOnTop DEF DispatchSound, StepSound
  <2>2. kept = SubSeq(d.saves, 1, Len(d.saves) - 1) /\ Len(d.saves) - 1 \in Nat
    BY <1>1, <2>1
  <2>3. d.saves \in Seq(Savepoint)
    BY <1>1
  <2> HIDE DEF kept, d
  <2> QED BY <2>2, <2>3
<1>9. /\ n \in Dispatches /\ n.claimed = d.claimed /\ n.todo = d.todo \ {e} /\ n.step = 0
      /\ n.saves = kept /\ n.data = x
  <2>1. d \in Dispatches /\ d.todo \ {e} \in SUBSET Events
    BY <1>1 DEF Dispatches
  <2> HIDE DEF d, e, x, kept
  <2> QED BY <1>6, <1>8, <2>1 DEF Dispatches
<1> HIDE DEF n, x, kept
<1>10. DataSound(x, d.claimed)
  <2>1. DataSound(d.data, d.claimed)
    BY <1>1 DEF DispatchSound
  <2>2. \A f \in d.claimed : x.rows[f].status # "ABSENT"
    BY <1>1, <1>5, <1>6, <2>1 DEF DataSound, Dispatches
  <2>3. ASSUME NEW f \in Events
        PROVE  /\ x.rows[f].status = "DISPATCHED" =>
                    Matching[f] # <<>> /\ \A i \in DOMAIN Matching[f] : <<f, Matching[f][i]>> \in delivered \cup x.delivered
               /\ x.rows[f].status \in {"ABSENT", "PENDING"} => x.rows[f].attempts < MaxAttempts
    <3>1. CASE f = e
      BY <1>5, <1>6, <1>7, <3>1
    <3>2. CASE f # e
      BY <1>6, <2>1, <3>2 DEF DataSound
    <3> QED BY <3>1, <3>2
  <2> QED BY <1>6, <2>1, <2>2, <2>3 DEF DataSound
<1>11. DispatchSound(n)
  <2>1. n.todo \subseteq n.claimed /\ \A f \in n.claimed : rows[f].status = "PENDING"
    BY <1>1, <1>9 DEF DispatchSound
  <2>2. \A i \in DOMAIN n.saves : DataSound(n.saves[i].data, n.claimed)
    BY <1>1, <1>8, <1>9 DEF DispatchSound
  <2>3. StepSound(n)
    BY <1>9 DEF StepSound
  <2> QED BY <1>9, <1>10, <2>1, <2>2, <2>3 DEF DispatchSound
<1>12. RowsSound' /\ WorkersSound'
  BY <1>1, <1>2, <1>9, <1>11, WorkerMoves
<1>13. EffectsCounted'
  BY <1>1, <1>2, <1>6, <1>9, CountMoves
<1> QED BY <1>12, <1>13 DEF OInv

\* A dispatch ends: what it claimed is its own, so nobody else's view goes stale.
LEMMA DispatchEnds ==
  ASSUME OInv, NEW w \in Workers, dispatch' = [dispatch EXCEPT ![w] = Idle],
         rows' \in [Events -> Row], delivered' \subseteq Pairs, delivered \subseteq delivered',
         \A e \in Events \ dispatch[w].claimed : rows'[e] = rows[e]
  PROVE  WorkersSound'
<1>1. /\ dispatch' \in [Workers -> Dispatches] /\ dispatch'[w] = Idle
      /\ \A v \in Workers : v # w => dispatch'[v] = dispatch[v]
  BY IdleSound DEF OInv, WorkersSound
<1>2. ASSUME NEW v \in Workers, v # w PROVE DispatchSound(dispatch[v])'
  <2> DEFINE d == dispatch[v]
  <2>1. /\ d \in Dispatches /\ DispatchSound(d) /\ dispatch'[v] = d
        /\ d.claimed \cap dispatch[w].claimed = {} /\ d.claimed \subseteq Events
    BY <1>1, <1>2, MyDispatch DEF Dispatches
  <2>2. \A f \in d.claimed : rows'[f].status = "PENDING"
    BY <2>1 DEF DispatchSound
  <2>3. ASSUME NEW x, DataSound(x, d.claimed) PROVE
        /\ x.delivered \subseteq d.claimed \X Handlers
        /\ \A e \in d.claimed : x.rows[e].status # "ABSENT"
        /\ \A e \in Events :
             /\ x.rows[e].status = "DISPATCHED" =>
                  Matching[e] # <<>> /\ \A i \in DOMAIN Matching[e] : <<e, Matching[e][i]>> \in delivered' \cup x.delivered
             /\ x.rows[e].status \in {"ABSENT", "PENDING"} => x.rows[e].attempts < MaxAttempts
    BY <2>3 DEF DataSound
  <2>4. DataSound(dispatch[v].data, dispatch[v].claimed)'
    BY <2>1, <2>3 DEF DispatchSound, DataSound
  <2>5. \A i \in DOMAIN dispatch'[v].saves : DataSound(dispatch[v].saves[i].data, dispatch[v].claimed)'
    <3> SUFFICES ASSUME NEW i \in DOMAIN dispatch'[v].saves
                 PROVE  DataSound(dispatch[v].saves[i].data, dispatch[v].claimed)'
      OBVIOUS
    <3>1. DataSound(d.saves[i].data, d.claimed)
      BY <2>1 DEF DispatchSound
    <3> QED BY <2>1, <2>3, <3>1 DEF DataSound
  <2>6. StepSound(dispatch[v])'
    BY <2>1 DEF DispatchSound, StepSound, At
  <2> QED BY <2>1, <2>2, <2>4, <2>5, <2>6 DEF DispatchSound
<1>3. DispatchSound(dispatch[w])'
  <2>1. DispatchSound(Idle)' <=> DispatchSound(dispatch[w])'
    BY <1>1 DEF DispatchSound, DataSound, StepSound, At
  <2>2. DispatchSound(Idle)'
    BY IdleSound DEF DispatchSound, DataSound, StepSound, Idle
  <2> QED BY <2>1, <2>2
<1>4. \A u, v \in Workers : u # v => dispatch'[u].claimed \cap dispatch'[v].claimed = {}
  BY <1>1, IdleSound DEF OInv, WorkersSound
<1> QED BY <1>1, <1>2, <1>3, <1>4 DEF WorkersSound

LEMMA CommitBatchHolds == ASSUME OInv, NEW w \in Workers, CommitBatch(w) PROVE OInv'
<1> DEFINE d == dispatch[w]
<1>1. /\ rows' = [e \in Events |-> IF e \in d.claimed THEN d.data.rows[e] ELSE rows[e]]
      /\ delivered' = delivered \cup d.data.delivered
      /\ dispatch' = [dispatch EXCEPT ![w] = Idle]
      /\ UNCHANGED <<effects, crashes>>
  BY DEF CommitBatch
<1>2. /\ d \in Dispatches /\ DispatchSound(d) /\ d.data \in Data /\ DataSound(d.data, d.claimed) /\ d.claimed \subseteq Events
      /\ d.data.rows \in [Events -> Row] /\ d.data.delivered \subseteq Pairs
      /\ rows \in [Events -> Row] /\ delivered \subseteq Pairs
  BY MyDispatch DEF DispatchSound, Dispatches, Data, OInv, RowsSound
<1>3. /\ \A e \in d.claimed : rows'[e] = d.data.rows[e]
      /\ \A e \in Events \ d.claimed : rows'[e] = rows[e]
      /\ rows' \in [Events -> Row]
  BY <1>1, <1>2
<1>4. RowsSound'
  <2>1. ASSUME NEW e \in Events
        PROVE  /\ rows'[e].status = "DISPATCHED" =>
                    Matching[e] # <<>> /\ \A i \in DOMAIN Matching[e] : <<e, Matching[e][i]>> \in delivered'
               /\ rows'[e].status \in {"ABSENT", "PENDING"} => rows'[e].attempts < MaxAttempts
    <3>1. CASE e \in d.claimed
      BY <1>1, <1>2, <1>3, <3>1 DEF DataSound
    <3>2. CASE e \notin d.claimed
      BY <1>1, <1>3, <3>2 DEF OInv, RowsSound
    <3> QED BY <3>1, <3>2
  <2> QED BY <1>1, <1>2, <1>3, <2>1 DEF RowsSound
<1>5. WorkersSound'
  <2>1. delivered' \subseteq Pairs /\ delivered \subseteq delivered'
    BY <1>1, <1>2
  <2> QED BY <1>1, <1>3, <2>1, DispatchEnds
<1>6. EffectsCounted'
  <2>1. HasHandlers' => HasHandlers
    BY <1>2, <1>3 DEF HasHandlers, DataSound
  <2>2. ASSUME NEW p \in Pairs, p \notin delivered', \A v \in Workers : p \notin dispatch'[v].data.delivered
        PROVE  p \notin delivered /\ \A v \in Workers : p \notin dispatch[v].data.delivered
    <3>1. \A v \in Workers : v # w => dispatch'[v] = dispatch[v]
      BY <1>1 DEF OInv, WorkersSound
    <3> QED BY <1>1, <2>2, <3>1
  <2> QED BY <1>1, <2>1, <2>2 DEF OInv, EffectsCounted
<1> QED BY <1>4, <1>5, <1>6 DEF OInv

\* A crash loses at most what was being delivered, and is counted.
LEMMA CrashHolds == ASSUME OInv, NEW w \in Workers, Crash(w) PROVE OInv'
<1>1. /\ dispatch' = [dispatch EXCEPT ![w] = Idle] /\ crashes' = crashes + 1 /\ crashes < MaxCrashes
      /\ UNCHANGED <<rows, delivered, effects>>
  BY DEF Crash
<1>2. RowsSound'
  BY <1>1 DEF OInv, RowsSound
<1>3. WorkersSound'
  BY <1>1, DispatchEnds DEF OInv, RowsSound
<1>4. EffectsCounted'
  <2>1. HasHandlers' => HasHandlers
    BY <1>1 DEF HasHandlers
  <2>2. crashes \in Nat /\ crashes' \in 0 .. MaxCrashes
    BY <1>1, OutboxAssumption DEF OInv, EffectsCounted
  <2>3. HasHandlers => \A p \in Pairs : effects[p] <= crashes' /\ effects[p] <= crashes' + 1
    BY <1>1, <2>2 DEF OInv, EffectsCounted
  <2> QED BY <1>1, <2>1, <2>2, <2>3 DEF OInv, EffectsCounted
<1> QED BY <1>2, <1>3, <1>4 DEF OInv

LEMMA OutboxSteps == OInv /\ [OutboxNext]_outboxVars => OInv'
<1> SUFFICES ASSUME OInv, [OutboxNext]_outboxVars PROVE OInv'
  OBVIOUS
<1>1. ASSUME NEW e \in Events, Enqueue(e) PROVE OInv'
  BY <1>1, EnqueueHolds
<1>2. ASSUME NEW w \in Workers, Dispatch(w) \/ Crash(w) PROVE OInv'
  BY <1>2, ClaimHolds, OpenEventHolds, SkipHandlerHolds, RunHandlerHolds, FailHandlerHolds,
     FinishEventHolds, CommitBatchHolds, CrashHolds DEF Dispatch
<1>3. CASE UNCHANGED outboxVars
  <2>1. UNCHANGED <<rows, delivered, dispatch, effects, crashes>>
    BY <1>3 DEF outboxVars
  <2>2. RowsSound' /\ EffectsCounted'
    BY <2>1 DEF OInv, RowsSound, EffectsCounted, HasHandlers
  <2>3. WorkersSound'
    <3> SUFFICES ASSUME NEW w \in Workers PROVE DispatchSound(dispatch[w])'
      BY <2>1 DEF OInv, WorkersSound
    <3>1. DispatchSound(dispatch[w])
      BY DEF OInv, WorkersSound
    <3>2. DataSound(dispatch[w].data, dispatch[w].claimed)'
      BY <2>1, <3>1 DEF DispatchSound, DataSound
    <3>3. \A i \in DOMAIN dispatch[w].saves : DataSound(dispatch[w].saves[i].data, dispatch[w].claimed)'
      BY <2>1, <3>1 DEF DispatchSound, DataSound
    <3>4. StepSound(dispatch[w])'
      BY <2>1, <3>1 DEF DispatchSound, StepSound, At
    <3> QED BY <2>1, <3>1, <3>2, <3>3, <3>4 DEF DispatchSound
  <2> QED BY <2>2, <2>3 DEF OInv
<1> QED BY <1>1, <1>2, <1>3 DEF OutboxNext

-----------------------------------------------------------------------------
\* What the dispatchers keep, in every state.
THEOREM OutboxInvariant == OutboxSpec => []OInv
  BY OutboxStarts, OutboxSteps, PTL DEF OutboxSpec

\* A dispatched event has a delivery of every handler, for any events, handlers,
\* workers and batch size and any number of attempts and crashes (dispatcher.ts:52).
THEOREM DispatchedDelivered == OutboxSpec => []DispatchedIsDelivered
<1>1. OInv => DispatchedIsDelivered
  <2> SUFFICES ASSUME OInv PROVE DispatchedIsDelivered
    OBVIOUS
  <2>1. ASSUME NEW w \in Workers
        PROVE  /\ dispatch[w].todo \subseteq dispatch[w].claimed /\ dispatch[w].claimed \subseteq Events
               /\ dispatch[w].step \in Nat
               /\ dispatch[w].data \in Data
               /\ \A i \in DOMAIN dispatch[w].saves : dispatch[w].saves[i] \in Savepoint
    <3>1. dispatch[w] \in Dispatches /\ dispatch[w].todo \subseteq dispatch[w].claimed
      BY MyDispatch DEF DispatchSound
    <3>2. /\ dispatch[w].claimed \subseteq Events /\ dispatch[w].step \in Nat /\ dispatch[w].data \in Data
          /\ dispatch[w].saves \in Seq(Savepoint)
      BY <3>1 DEF Dispatches
    <3> QED BY <3>1, <3>2
  <2>2. OutboxTypeOK
    BY <2>1 DEF OInv, RowsSound, EffectsCounted, OutboxTypeOK
  <2> QED BY <2>2 DEF OInv, RowsSound, DispatchedIsDelivered
<1> QED BY OutboxInvariant, <1>1, PTL

\* While every event has a handler, a handler runs an event to its end at most once
\* more than the dispatchers died, for the same parameters.
THEOREM RunsOnceBarCrashes == OutboxSpec => []RunsOnceUnlessCrashed
<1>1. OInv => RunsOnceUnlessCrashed
  <2> SUFFICES ASSUME OInv, HasHandlers, NEW p \in Pairs PROVE effects[p] <= 1 + crashes
    BY DEF RunsOnceUnlessCrashed, HasHandlers
  <2>1. effects[p] <= crashes + 1 /\ crashes \in Nat
    BY OutboxAssumption DEF OInv, EffectsCounted
  <2> QED BY <2>1
<1> QED BY OutboxInvariant, <1>1, PTL

\* No recorded delivery is run again, by this worker or another, after any rollback
\* or crash.
THEOREM DeliveriesStand == OutboxSpec => RecordedNotRepeated
<1>1. OInv /\ [OutboxNext]_outboxVars => [\A p \in Pairs : effects'[p] > effects[p] => p \notin delivered]_outboxVars
  <2> SUFFICES ASSUME OInv, OutboxNext, NEW p \in Pairs, effects'[p] > effects[p] PROVE p \notin delivered
    BY DEF OutboxNext
  <2>1. effects \in [Pairs -> Nat]
    BY DEF OInv, EffectsCounted
  <2>2. effects' # effects
    BY <2>1
  <2>3. \A e \in Events : ~Enqueue(e)
    BY <2>2 DEF Enqueue
  <2>4. \A w \in Workers : Dispatch(w) \/ Crash(w) => RunHandler(w)
    BY <2>2 DEF Dispatch, Claim, OpenEvent, SkipHandler, FailHandler, FinishEvent, CommitBatch, Crash
  <2>5. PICK w \in Workers : RunHandler(w)
    BY <2>3, <2>4 DEF OutboxNext
  <2>6. p = Here(w)
    BY <2>1, <2>5 DEF RunHandler
  <2> QED BY <2>5, <2>6 DEF RunHandler, Done
<1> QED BY OutboxInvariant, <1>1, PTL DEF OutboxSpec, RecordedNotRepeated

-----------------------------------------------------------------------------
(* What publishers and consumers are promised of each event: Delivery. *)

\* One of an event's handlers has not taken it, if there are any.
Short(e, D) == Matching[e] # <<>> => \E i \in DOMAIN Matching[e] : <<e, Matching[e][i]>> \notin D
Owed == {p \in Pairs : p[2] \in ConsumersOf(p[1])}
Completed(row) == [status |-> "DISPATCHED", attempts |-> row.attempts + 1]

\* Of some events a dispatch says nothing yet; of others what becomes of them at
\* its commit: all delivered, or short with at most one attempt more.
Untouched(x, S) == \A e \in S : x.rows[e] = rows[e]
Reckons(x, S) ==
  /\ x.delivered \subseteq Owed
  /\ \A e \in S : \/ x.rows[e] \in {rows[e], Counted(rows[e])} /\ Short(e, delivered \cup x.delivered)
                  \/ x.rows[e] = Completed(rows[e])
Beside(d) == IF d.step > 0 THEN d.claimed \ {At(d)} ELSE d.claimed
Tells(d) ==
  /\ Untouched(d.data, d.todo) /\ Reckons(d.data, Beside(d))
  /\ \A i \in DOMAIN d.saves : Untouched(d.saves[i].data, d.todo) /\ Reckons(d.saves[i].data, d.claimed)

RowsTell ==
  /\ delivered \subseteq Owed
  /\ \A e \in Events : rows[e].status # "DISPATCHED" => Short(e, delivered)
FInv == OInv /\ RowsTell /\ \A w \in Workers : Tells(dispatch[w])

-----------------------------------------------------------------------------
LEMMA IdleTells == Tells(Idle)
  BY IdleSound DEF Tells, Untouched, Reckons, Beside

LEMMA PromiseStarts == OutboxInit => FInv
<1> SUFFICES ASSUME OutboxInit PROVE FInv
  OBVIOUS
<1>1. OInv
  BY OutboxStarts
<1>2. RowsTell
  <2> SUFFICES ASSUME NEW e \in Events, Matching[e] # <<>>
               PROVE  \E i \in DOMAIN Matching[e] : <<e, Matching[e][i]>> \notin delivered
    BY DEF RowsTell, Short, OutboxInit
  <2>1. 1 \in DOMAIN Matching[e]
    BY OutboxAssumption
  <2> QED BY <2>1 DEF OutboxInit
<1>3. \A w \in Workers : dispatch[w] = Idle
  BY DEF OutboxInit
<1> QED BY <1>1, <1>2, <1>3, IdleTells DEF FInv

\* A worker goes on by itself.
LEMMA WorkerTells ==
  ASSUME FInv, NEW w \in Workers, NEW d, Tells(d),
         dispatch' = [dispatch EXCEPT ![w] = d], UNCHANGED <<rows, delivered>>
  PROVE  RowsTell' /\ \A v \in Workers : Tells(dispatch[v])'
<1>1. dispatch'[w] = d /\ \A v \in Workers : v # w => dispatch'[v] = dispatch[v]
  BY DEF FInv, OInv, WorkersSound
<1>2. RowsTell'
  BY DEF FInv, RowsTell, Short
<1>3. ASSUME NEW v \in Workers PROVE Tells(dispatch[v])'
  <2>1. Tells(dispatch'[v])
    BY <1>1 DEF FInv
  <2>2. Untouched(dispatch[v].data, dispatch[v].todo)'
    BY <2>1 DEF Tells, Untouched
  <2>3. Reckons(dispatch[v].data, Beside(dispatch[v]))'
    BY <2>1 DEF Tells, Reckons, Short, Beside, At
  <2>4. \A i \in DOMAIN dispatch'[v].saves : Untouched(dispatch[v].saves[i].data, dispatch[v].todo)'
    BY <2>1 DEF Tells, Untouched
  <2>5. ASSUME NEW i \in DOMAIN dispatch'[v].saves PROVE Reckons(dispatch[v].saves[i].data, dispatch[v].claimed)'
    <3>1. Reckons(dispatch'[v].saves[i].data, dispatch'[v].claimed)
      BY <2>1 DEF Tells
    <3> QED BY <3>1 DEF Reckons, Short
  <2> QED BY <2>2, <2>3, <2>4, <2>5 DEF Tells
<1> QED BY <1>2, <1>3

\* A rollback: what is left to do is untouched there, and the event short.
LEMMA FailedTells ==
  ASSUME OInv, NEW d \in Dispatches, DispatchSound(d), NEW e \in d.todo, NEW s \in Seq(Savepoint),
         s # <<>>, s[Len(s)].name \in {"event", "handler"},
         \A i \in DOMAIN s : Untouched(s[i].data, d.todo) /\ Reckons(s[i].data, d.claimed)
  PROVE  Tells(Failed(d, e, s))
<1> DEFINE n == Failed(d, e, s)
<1>1. /\ e \in Events /\ e \in d.claimed /\ rows[e] \in Row /\ rows[e].status = "PENDING"
      /\ rows[e].attempts < MaxAttempts /\ d.claimed \subseteq Events
  BY DEF DispatchSound, Dispatches, OInv, RowsSound
<1>2. PICK to \in DOMAIN s :
           /\ n.claimed = d.claimed /\ n.todo = d.todo \ {e} /\ n.step = 0
           /\ DOMAIN n.saves = 1 .. to /\ \A i \in DOMAIN n.saves : i \in DOMAIN s /\ n.saves[i] = s[i]
           /\ n.data.delivered = s[to].data.delivered /\ n.data.rows[e] = Counted(rows[e])
           /\ \A f \in Events : f # e => n.data.rows[f] = s[to].data.rows[f]
  BY <1>1, FailedIs
<1> HIDE DEF n
<1>3. Untouched(s[to].data, d.todo) /\ Reckons(s[to].data, d.claimed) /\ n.todo \subseteq Events
  BY <1>1, <1>2 DEF DispatchSound
<1>4. Untouched(n.data, n.todo)
  BY <1>2, <1>3 DEF Untouched
<1>5. Reckons(n.data, n.claimed)
  <2> SUFFICES ASSUME NEW f \in d.claimed
               PROVE  \/ n.data.rows[f] \in {rows[f], Counted(rows[f])} /\ Short(f, delivered \cup n.data.delivered)
                      \/ n.data.rows[f] = Completed(rows[f])
    BY <1>2, <1>3 DEF Reckons
  <2>1. CASE f = e
    <3>1. s[to].data.rows[e] = rows[e] /\ rows[e] # Completed(rows[e])
      BY <1>1, <1>3 DEF Untouched, Completed
    <3>2. Short(e, delivered \cup s[to].data.delivered)
      BY <1>1, <1>3, <3>1 DEF Reckons
    <3> QED BY <1>2, <2>1, <3>2
  <2>2. CASE f # e
    BY <1>1, <1>2, <1>3, <2>2 DEF Reckons
  <2> QED BY <2>1, <2>2
<1>6. \A i \in DOMAIN n.saves : Untouched(n.saves[i].data, n.todo) /\ Reckons(n.saves[i].data, n.claimed)
  BY <1>2 DEF Untouched
<1>7. Beside(n) = n.claimed
  BY <1>2 DEF Beside
<1>8. Tells(n)
  BY <1>4, <1>5, <1>6, <1>7 DEF Tells
<1> QED BY <1>8 DEF n

\* What a dispatch opens on top of its savepoints.
LEMMA OneMoreTells ==
  ASSUME NEW d \in Dispatches, Tells(d), NEW n, Reckons(d.data, d.claimed),
         NEW s, s = Append(d.saves, [name |-> n, data |-> d.data])
  PROVE  \A i \in DOMAIN s : Untouched(s[i].data, d.todo) /\ Reckons(s[i].data, d.claimed)
<1> DEFINE p == [name |-> n, data |-> d.data]
<1>1. d.saves \in Seq(Savepoint) /\ p.data = d.data
  BY DEF Dispatches
<1>2. s = Append(d.saves, p)
  OBVIOUS
<1> HIDE DEF p
<1>3. \A i \in DOMAIN s : (s[i] = p \/ (i \in DOMAIN d.saves /\ s[i] = d.saves[i]))
  BY <1>1, <1>2
<1> QED BY <1>1, <1>3 DEF Tells

\* One more delivery of an event leaves the others as they were.
LEMMA OthersFollow ==
  ASSUME NEW x, NEW y, NEW S, NEW e, e \notin S, NEW h, y.rows = x.rows,
         y.delivered \in {x.delivered, x.delivered \cup {<<e, h>>}}, <<e, h>> \in Owed, Reckons(x, S)
  PROVE  Reckons(y, S)
<1> SUFFICES ASSUME NEW f \in S, Short(f, delivered \cup x.delivered) PROVE Short(f, delivered \cup y.delivered)
  BY DEF Reckons
<1>1. f # e
  OBVIOUS
<1> QED BY <1>1 DEF Short

LEMMA ClaimTells ==
  ASSUME FInv, NEW w \in Workers, Claim(w) PROVE RowsTell' /\ \A v \in Workers : Tells(dispatch[v])'
<1>1. PICK S \in SUBSET Free :
        dispatch' = [dispatch EXCEPT ![w] = [Idle EXCEPT !.claimed = S, !.todo = S,
                       !.data = [rows |-> rows, delivered |-> {}]]]
  BY DEF Claim
<1> DEFINE x == [rows |-> rows, delivered |-> {}]
<1> DEFINE d == [Idle EXCEPT !.claimed = S, !.todo = S, !.data = x]
<1>2. /\ d.claimed = S /\ d.todo = S /\ d.step = 0 /\ d.saves = <<>> /\ d.data = x
      /\ x.rows = rows /\ x.delivered = {}
  BY IdleSound DEF Idle
<1>3. S \subseteq Events /\ \A e \in S : rows[e].status = "PENDING"
  BY DEF Free, Pending
<1>4. \A e \in S : Short(e, delivered)
  BY <1>3 DEF FInv, RowsTell
<1>5. Tells(d)
  <2>1. delivered \cup x.delivered = delivered
    BY <1>2
  <2> HIDE DEF d, x
  <2> QED BY <1>2, <1>4, <2>1 DEF Tells, Untouched, Reckons, Beside
<1>6. dispatch' = [dispatch EXCEPT ![w] = d] /\ UNCHANGED <<rows, delivered>>
  BY <1>1 DEF Claim
<1> HIDE DEF d
<1> QED BY <1>5, <1>6, WorkerTells

LEMMA OpenEventTells ==
  ASSUME FInv, NEW w \in Workers, OpenEvent(w) PROVE RowsTell' /\ \A v \in Workers : Tells(dispatch[v])'
<1> DEFINE d == dispatch[w]
<1> DEFINE s == Append(d.saves, [name |-> "event", data |-> d.data])
<1>1. /\ OInv /\ d \in Dispatches /\ DispatchSound(d) /\ Tells(d) /\ d.todo # {} /\ d.step = 0 /\ Current(w) = At(d)
      /\ UNCHANGED <<rows, delivered>>
  BY MyDispatch, CurrentIs DEF OpenEvent, FInv
<1>2. At(d) \in d.todo /\ At(d) \in Events
  BY <1>1, AtIsTodo
<1>3. dispatch' = [dispatch EXCEPT ![w] = IF Matching[At(d)] = <<>> THEN Failed(d, At(d), s)
                                          ELSE [d EXCEPT !.step = 1, !.saves = s]]
  BY <1>1 DEF OpenEvent
<1>4. s = Append(d.saves, [name |-> "event", data |-> d.data]) /\ "event" \in {"event", "handler"}
  OBVIOUS
<1>5. Reckons(d.data, d.claimed)
  BY <1>1 DEF Tells, Beside
<1> HIDE DEF d, s
<1>6. s \in Seq(Savepoint) /\ s # <<>> /\ s[Len(s)].name = "event"
  BY <1>1, <1>4, OneMoreSave
<1>7. \A i \in DOMAIN s : Untouched(s[i].data, d.todo) /\ Reckons(s[i].data, d.claimed)
  BY <1>1, <1>4, <1>5, OneMoreTells
<1>8. CASE Matching[At(d)] = <<>>
  <2> DEFINE n == Failed(d, At(d), s)
  <2>1. Tells(n)
    BY <1>1, <1>2, <1>6, <1>7, FailedTells
  <2>2. dispatch' = [dispatch EXCEPT ![w] = n]
    BY <1>3, <1>8
  <2> HIDE DEF n
  <2> QED BY <1>1, <2>1, <2>2, WorkerTells
<1>9. CASE Matching[At(d)] # <<>>
  <2> DEFINE n == [d EXCEPT !.step = 1, !.saves = s]
  <2>1. dispatch' = [dispatch EXCEPT ![w] = n]
    BY <1>3, <1>9
  <2>2. n.claimed = d.claimed /\ n.todo = d.todo /\ n.saves = s /\ n.data = d.data /\ Beside(n) \subseteq d.claimed
    BY <1>1 DEF Dispatches, Beside
  <2> HIDE DEF n
  <2>3. Tells(n)
    BY <1>1, <1>5, <1>7, <2>2 DEF Tells, Reckons
  <2> QED BY <1>1, <2>1, <2>3, WorkerTells
<1> QED BY <1>8, <1>9

\* A dispatch goes on to its next handler.
LEMMA NextHandlerTells ==
  ASSUME OInv, NEW w \in Workers, dispatch[w].step > 0, AtHandler(w), Tells(dispatch[w]),
         NEW n, n.claimed = dispatch[w].claimed, n.todo = dispatch[w].todo,
         n.step = dispatch[w].step + 1, n.saves = dispatch[w].saves, n.data.rows = dispatch[w].data.rows,
         n.data.delivered \in {dispatch[w].data.delivered, dispatch[w].data.delivered \cup {Here(w)}}
  PROVE  Tells(n)
<1> DEFINE d == dispatch[w]
<1>1. d.step \in Nat /\ At(n) = At(d) /\ Here(w) = <<At(d), Matching[At(d)][d.step]>>
  BY HereIs DEF At
<1>2. Beside(n) = d.claimed \ {At(d)} /\ Beside(d) = d.claimed \ {At(d)}
  BY <1>1 DEF Beside
<1>3. Reckons(n.data, Beside(n))
  <2>1. Reckons(d.data, Beside(d))
    BY DEF Tells
  <2>2. At(d) \notin Beside(n)
    BY <1>2
  <2> DEFINE h == Matching[At(d)][d.step]
  <2>3. n.data.delivered \in {d.data.delivered, d.data.delivered \cup {<<At(d), h>>}}
    BY <1>1
  <2>4. Reckons(d.data, Beside(n)) /\ n.data.rows = d.data.rows
    BY <1>2, <2>1
  <2>5. <<At(d), h>> \in Owed
    BY <1>1, HereIs DEF Owed, ConsumersOf
  <2> HIDE DEF h, d
  <2> QED BY <2>2, <2>3, <2>4, <2>5, OthersFollow
<1> QED BY <1>3 DEF Tells, Untouched

LEMMA SkipHandlerTells ==
  ASSUME FInv, NEW w \in Workers, SkipHandler(w) PROVE RowsTell' /\ \A v \in Workers : Tells(dispatch[v])'
<1> DEFINE d == dispatch[w]
<1> DEFINE n == [d EXCEPT !.step = @ + 1]
<1>1. /\ OInv /\ d.step > 0 /\ AtHandler(w) /\ Tells(d) /\ UNCHANGED <<rows, delivered>> /\ d \in Dispatches
      /\ dispatch' = [dispatch EXCEPT ![w] = n]
  BY MyDispatch DEF SkipHandler, FInv
<1>2. n.claimed = d.claimed /\ n.todo = d.todo /\ n.step = d.step + 1 /\ n.saves = d.saves /\ n.data = d.data
  BY <1>1 DEF Dispatches
<1> HIDE DEF n
<1>3. Tells(n)
  BY <1>1, <1>2, NextHandlerTells
<1> QED BY <1>1, <1>3, WorkerTells

LEMMA RunHandlerTells ==
  ASSUME FInv, NEW w \in Workers, RunHandler(w) PROVE RowsTell' /\ \A v \in Workers : Tells(dispatch[v])'
<1> DEFINE d == dispatch[w]
<1> DEFINE x == [d.data EXCEPT !.delivered = @ \cup {Here(w)}]
<1> DEFINE n == [d EXCEPT !.step = d.step + 1, !.data = x]
<1>1. /\ OInv /\ d.step > 0 /\ AtHandler(w) /\ Tells(d) /\ UNCHANGED <<rows, delivered>> /\ d \in Dispatches
      /\ d.data \in Data
  BY MyDispatch DEF RunHandler, FInv
<1>2. dispatch' = [dispatch EXCEPT ![w] = n]
  BY <1>1 DEF RunHandler, FInv, OInv, WorkersSound, Dispatches, Data
<1>3. x.rows = d.data.rows /\ x.delivered = d.data.delivered \cup {Here(w)}
  BY <1>1 DEF Data
<1> HIDE DEF x
<1>4. n.claimed = d.claimed /\ n.todo = d.todo /\ n.step = d.step + 1 /\ n.saves = d.saves /\ n.data = x
  BY <1>1 DEF Dispatches
<1> HIDE DEF n
<1>5. Tells(n)
  BY <1>1, <1>3, <1>4, NextHandlerTells
<1> QED BY <1>1, <1>2, <1>5, WorkerTells

\* The handler that throws is one the event is short of.
LEMMA FailHandlerTells ==
  ASSUME FInv, NEW w \in Workers, FailHandler(w) PROVE RowsTell' /\ \A v \in Workers : Tells(dispatch[v])'
<1> DEFINE d == dispatch[w]
<1> DEFINE s == Append(d.saves, [name |-> "handler", data |-> d.data])
<1> DEFINE n == Failed(d, At(d), s)
<1>1. /\ OInv /\ d.step > 0 /\ UNCHANGED <<rows, delivered>> /\ d \in Dispatches /\ DispatchSound(d) /\ Tells(d)
      /\ At(d) \in d.todo /\ Current(w) = At(d) /\ Matching[At(d)] \in Seq(Handlers)
      /\ d.step \in DOMAIN Matching[At(d)]
      /\ <<At(d), Matching[At(d)][d.step]>> \notin delivered \cup d.data.delivered
  BY MyDispatch, HereIs DEF FailHandler, FInv, Done
<1>2. dispatch' = [dispatch EXCEPT ![w] = n]
  BY <1>1 DEF FailHandler
<1>3. s = Append(d.saves, [name |-> "handler", data |-> d.data]) /\ "handler" \in {"event", "handler"}
  OBVIOUS
<1> HIDE DEF d, s
<1>4. Reckons(d.data, d.claimed)
  <2>1. Short(At(d), delivered \cup d.data.delivered)
    BY <1>1 DEF Short
  <2>2. d.data.rows[At(d)] = rows[At(d)] /\ Reckons(d.data, d.claimed \ {At(d)})
    BY <1>1 DEF Tells, Untouched, Beside
  <2> QED BY <2>1, <2>2 DEF Reckons
<1>5. s \in Seq(Savepoint) /\ s # <<>> /\ s[Len(s)].name = "handler"
  <2> HIDE DEF n
  <2>1. d \in Dispatches /\ DispatchSound(d)
    BY <1>1
  <2>2. \A t : t = Append(d.saves, [name |-> "handler", data |-> d.data]) =>
           t \in Seq(Savepoint) /\ t # <<>> /\ t[Len(t)].name = "handler"
    BY <2>1, <1>3, OneMoreSave, ZenonT(60)
  <2> QED BY <2>2, <1>3, ZenonT(60)
<1>6. \A i \in DOMAIN s : Untouched(s[i].data, d.todo) /\ Reckons(s[i].data, d.claimed)
  BY <1>1, <1>3, <1>4, OneMoreTells
<1>7. Tells(n)
  BY <1>1, <1>5, <1>6, FailedTells
<1> HIDE DEF n
<1> QED BY <1>1, <1>2, <1>7, WorkerTells

LEMMA FinishEventTells ==
  ASSUME FInv, NEW w \in Workers, FinishEvent(w) PROVE RowsTell' /\ \A v \in Workers : Tells(dispatch[v])'
<1> DEFINE d == dispatch[w]
<1> DEFINE e == At(d)
<1> DEFINE x == [d.data EXCEPT !.rows[e] = Completed(rows[e])]
<1> DEFINE kept == SubSeq(d.saves, 1, LastSave(d.saves, "event") - 1)
<1> DEFINE n == [d EXCEPT !.todo = @ \ {e}, !.step = 0, !.saves = kept, !.data = x]
<1>1. /\ OInv /\ d.step > 0 /\ UNCHANGED <<rows, delivered>> /\ d \in Dispatches /\ DispatchSound(d) /\ Tells(d)
      /\ d.data \in Data /\ d.saves \in Seq(Savepoint) /\ Current(w) = e /\ e \in d.todo /\ e \in Events
      /\ d.claimed \subseteq Events /\ d.todo \subseteq Events
  BY MyDispatch, HereIs DEF FinishEvent, FInv, Dispatches
<1>2. dispatch' = [dispatch EXCEPT ![w] = n]
  BY <1>1 DEF FinishEvent, FInv, OInv, WorkersSound, Dispatches, Data, Completed
<1>3. /\ x.delivered = d.data.delivered /\ x.rows[e] = Completed(rows[e])
      /\ \A f \in Events : f # e => x.rows[f] = d.data.rows[f]
  <2>1. d.data \in Data /\ e \in Events
    BY <1>1
  <2> HIDE DEF d, e
  <2> QED BY <2>1 DEF Data
<1>4. DOMAIN kept \subseteq DOMAIN d.saves /\ \A i \in DOMAIN kept : kept[i] = d.saves[i]
  <2>1. d.saves # <<>> /\ LastSave(d.saves, "event") = Len(d.saves)
    BY <1>1, LastSaveOnTop DEF DispatchSound, StepSound
  <2>2. kept = SubSeq(d.saves, 1, Len(d.saves) - 1) /\ Len(d.saves) - 1 \in Nat
    BY <1>1, <2>1
  <2>3. d.saves \in Seq(Savepoint)
    BY <1>1
  <2> HIDE DEF kept, d
  <2> QED BY <2>2, <2>3
<1> HIDE DEF x, kept
<1>5. n.claimed = d.claimed /\ n.todo = d.todo \ {e} /\ n.step = 0 /\ n.saves = kept /\ n.data = x
  BY <1>1 DEF Dispatches
<1> HIDE DEF n
<1>6. Untouched(n.data, n.todo)
  BY <1>1, <1>3, <1>5 DEF Tells, Untouched
<1>7. Reckons(n.data, n.claimed)
  <2>1. Reckons(d.data, d.claimed \ {e})
    BY <1>1 DEF Tells, Beside
  <2> QED BY <1>1, <1>3, <1>5, <2>1 DEF Reckons
<1>8. \A i \in DOMAIN n.saves : Untouched(n.saves[i].data, n.todo) /\ Reckons(n.saves[i].data, n.claimed)
  BY <1>1, <1>4, <1>5 DEF Tells, Untouched
<1>9. Beside(n) = n.claimed
  BY <1>5 DEF Beside
<1>10. Tells(n)
  BY <1>6, <1>7, <1>8, <1>9 DEF Tells
<1> QED BY <1>1, <1>2, <1>10, WorkerTells

\* What becomes of an event at a commit, and of those nobody in it claimed.
LEMMA Committed ==
  ASSUME FInv, NEW w \in Workers, CommitBatch(w), NEW e \in Events
  PROVE  \/ /\ e \notin dispatch[w].claimed /\ rows'[e] = rows[e]
            /\ \A h : <<e, h>> \in delivered' <=> <<e, h>> \in delivered
         \/ /\ e \in dispatch[w].claimed /\ rows[e].status = "PENDING" /\ delivered \subseteq delivered'
            /\ \/ rows'[e] \in {rows[e], Counted(rows[e])} /\ Short(e, delivered')
               \/ rows'[e] = Completed(rows[e])
<1> DEFINE d == dispatch[w]
<1>1. /\ rows' = [f \in Events |-> IF f \in d.claimed THEN d.data.rows[f] ELSE rows[f]]
      /\ delivered' = delivered \cup d.data.delivered
  BY DEF CommitBatch
<1>2. /\ d \in Dispatches /\ DispatchSound(d) /\ Tells(d) /\ d.data.delivered \subseteq d.claimed \X Handlers
      /\ d.step \in Nat
  BY MyDispatch DEF FInv, DispatchSound, DataSound, Dispatches
<1>3. d.step = 0 /\ Beside(d) = d.claimed
  BY <1>2 DEF CommitBatch, DispatchSound, StepSound, Beside
<1>4. CASE e \in d.claimed
  <2>1. rows'[e] = d.data.rows[e] /\ rows[e].status = "PENDING" /\ Reckons(d.data, d.claimed)
    BY <1>1, <1>2, <1>3, <1>4 DEF DispatchSound, Tells
  <2> QED BY <1>1, <1>4, <2>1 DEF Reckons
<1>5. CASE e \notin d.claimed
  BY <1>1, <1>2, <1>5
<1> QED BY <1>4, <1>5

\* A dispatch ends; the others' events are none of its own.
LEMMA EndTells ==
  ASSUME FInv, NEW w \in Workers, dispatch' = [dispatch EXCEPT ![w] = Idle],
         \A e \in Events \ dispatch[w].claimed :
           rows'[e] = rows[e] /\ \A h : <<e, h>> \in delivered' <=> <<e, h>> \in delivered
  PROVE  \A v \in Workers : Tells(dispatch[v])'
<1>1. dispatch'[w] = Idle /\ \A v \in Workers : v # w => dispatch'[v] = dispatch[v]
  BY DEF FInv, OInv, WorkersSound
<1>2. Tells(dispatch[w])'
  <2>1. Tells(Idle)'
    BY IdleSound DEF Tells, Untouched, Reckons, Beside
  <2> QED BY <1>1, <2>1 DEF Tells, Untouched, Reckons, Beside, Short, At
<1>3. ASSUME NEW v \in Workers, v # w PROVE Tells(dispatch[v])'
  <2> DEFINE d == dispatch[v]
  <2>1. /\ d \in Dispatches /\ DispatchSound(d) /\ Tells(d) /\ dispatch'[v] = d /\ d.claimed \subseteq Events
        /\ d.claimed \cap dispatch[w].claimed = {} /\ d.todo \subseteq d.claimed
    BY <1>1, <1>3, MyDispatch DEF FInv, Dispatches, DispatchSound
  <2>2. \A e \in d.claimed : rows'[e] = rows[e] /\ \A h : <<e, h>> \in delivered' <=> <<e, h>> \in delivered
    BY <2>1
  <2>3. ASSUME NEW x, NEW S \in SUBSET d.claimed, Reckons(x, S)
        PROVE  /\ x.delivered \subseteq Owed
               /\ \A e \in S : \/ x.rows[e] \in {rows'[e], Counted(rows'[e])} /\ Short(e, delivered' \cup x.delivered)
                               \/ x.rows[e] = Completed(rows'[e])
    <3>1. \A e \in S : Short(e, delivered \cup x.delivered) => Short(e, delivered' \cup x.delivered)
      BY <2>2 DEF Short
    <3> QED BY <2>2, <2>3, <3>1 DEF Reckons
  <2>4. Reckons(dispatch[v].data, Beside(dispatch[v]))'
    <3>1. Reckons(d.data, Beside(d)) /\ Beside(d) \subseteq d.claimed /\ Beside(dispatch'[v]) = Beside(d)
      BY <2>1 DEF Tells, Beside
    <3>2. Beside(dispatch[v])' = Beside(d)
      BY <3>1 DEF Beside, At
    <3> DEFINE x == d.data
    <3>3. /\ x.delivered \subseteq Owed
          /\ \A e \in Beside(d) : \/ x.rows[e] \in {rows'[e], Counted(rows'[e])} /\ Short(e, delivered' \cup x.delivered)
                                \/ x.rows[e] = Completed(rows'[e])
      BY <2>3, <3>1
    <3>4. dispatch'[v].data = x
      BY <2>1
    <3> HIDE DEF x, d
    <3> QED BY <3>2, <3>3, <3>4 DEF Reckons
  <2>5. ASSUME NEW i \in DOMAIN dispatch'[v].saves
        PROVE  Untouched(dispatch[v].saves[i].data, dispatch[v].todo)' /\ Reckons(dispatch[v].saves[i].data, dispatch[v].claimed)'
    <3>1. Untouched(d.saves[i].data, d.todo) /\ Reckons(d.saves[i].data, d.claimed)
      BY <2>1 DEF Tells
    <3>2. Reckons(dispatch[v].saves[i].data, dispatch[v].claimed)'
      <4> DEFINE x == d.saves[i].data
      <4>1. /\ x.delivered \subseteq Owed
            /\ \A e \in d.claimed : \/ x.rows[e] \in {rows'[e], Counted(rows'[e])} /\ Short(e, delivered' \cup x.delivered)
                                    \/ x.rows[e] = Completed(rows'[e])
        BY <2>3, <3>1
      <4> QED BY <2>1, <4>1 DEF Reckons
    <3> QED BY <2>1, <2>2, <3>1, <3>2 DEF Untouched
  <2>6. Untouched(dispatch[v].data, dispatch[v].todo)'
    BY <2>1, <2>2 DEF Tells, Untouched
  <2> QED BY <2>4, <2>5, <2>6 DEF Tells
<1> QED BY <1>2, <1>3

LEMMA CommitBatchTells ==
  ASSUME FInv, NEW w \in Workers, CommitBatch(w) PROVE RowsTell' /\ \A v \in Workers : Tells(dispatch[v])'
<1>1. \A e \in Events :
         \/ /\ e \notin dispatch[w].claimed /\ rows'[e] = rows[e]
            /\ \A h : <<e, h>> \in delivered' <=> <<e, h>> \in delivered
         \/ /\ e \in dispatch[w].claimed
            /\ \/ rows'[e] \in {rows[e], Counted(rows[e])} /\ Short(e, delivered')
               \/ rows'[e] = Completed(rows[e])
  BY Committed
<1>2. \A v \in Workers : Tells(dispatch[v])'
  <2>1. dispatch' = [dispatch EXCEPT ![w] = Idle]
    BY DEF CommitBatch
  <2> QED BY <1>1, <2>1, EndTells
<1>3. RowsTell'
  <2> SUFFICES ASSUME NEW e \in Events, rows'[e].status # "DISPATCHED" PROVE Short(e, delivered')
    <3>1. delivered' \subseteq Owed
      <4>1. dispatch[w].data.delivered \subseteq Owed
        BY DEF FInv, Tells, Reckons
      <4> QED BY <4>1 DEF CommitBatch, FInv, RowsTell
    <3> QED BY <3>1 DEF RowsTell, Short
  <2>1. CASE e \notin dispatch[w].claimed
    <3>1. Short(e, delivered)
      BY <1>1, <2>1 DEF FInv, RowsTell
    <3> QED BY <1>1, <2>1, <3>1 DEF Short
  <2>2. CASE e \in dispatch[w].claimed
    <3>1. Completed(rows[e]).status = "DISPATCHED"
      BY DEF Completed
    <3>2. Short(e, delivered') \/ rows'[e] = Completed(rows[e])
      BY <1>1, <2>2, Zenon
    <3> QED BY <3>1, <3>2
  <2> QED BY <2>1, <2>2
<1> QED BY <1>2, <1>3

LEMMA CrashTells ==
  ASSUME FInv, NEW w \in Workers, Crash(w) PROVE RowsTell' /\ \A v \in Workers : Tells(dispatch[v])'
<1>1. dispatch' = [dispatch EXCEPT ![w] = Idle] /\ UNCHANGED <<rows, delivered>>
  BY DEF Crash
<1> QED BY <1>1, IdleTells, WorkerTells

LEMMA EnqueueTells ==
  ASSUME FInv, NEW e \in Events, Enqueue(e) PROVE RowsTell' /\ \A v \in Workers : Tells(dispatch[v])'
<1>1. /\ rows \in [Events -> Row] /\ rows[e].status = "ABSENT" /\ rows'= [rows EXCEPT ![e].status = "PENDING"]
      /\ UNCHANGED <<delivered, dispatch>> /\ OInv /\ RowsTell
  BY DEF Enqueue, FInv, OInv, RowsSound
<1>2. \A f \in Events : f # e => rows'[f] = rows[f]
  BY <1>1
<1>3. RowsTell'
  <2> SUFFICES ASSUME NEW f \in Events, rows'[f].status # "DISPATCHED" PROVE Short(f, delivered)
    BY <1>1 DEF RowsTell, Short
  <2> QED BY <1>1, <1>2 DEF RowsTell
<1>4. ASSUME NEW v \in Workers PROVE Tells(dispatch[v])'
  <2> DEFINE d == dispatch[v]
  <2>1. d \in Dispatches /\ DispatchSound(d) /\ Tells(d) /\ d.claimed \subseteq Events /\ d.todo \subseteq d.claimed
    BY MyDispatch DEF FInv, Dispatches, DispatchSound
  <2>2. \A f \in d.claimed : rows'[f] = rows[f]
    BY <1>1, <1>2, <2>1 DEF DispatchSound
  <2>3. Beside(d) \subseteq d.claimed
    BY DEF Beside
  <2>4. Reckons(d.data, Beside(d)) /\ Untouched(d.data, d.todo)
    BY <2>1 DEF Tells
  <2>5. Reckons(dispatch[v].data, Beside(dispatch[v]))' /\ Untouched(dispatch[v].data, dispatch[v].todo)'
    <3>1. Beside(dispatch[v])' = Beside(d)
      BY <1>1 DEF Beside, At
    <3> QED BY <1>1, <2>1, <2>2, <2>3, <2>4, <3>1 DEF Reckons, Untouched, Short
  <2>6. ASSUME NEW i \in DOMAIN dispatch'[v].saves
        PROVE  /\ Untouched(dispatch[v].saves[i].data, dispatch[v].todo)'
               /\ Reckons(dispatch[v].saves[i].data, dispatch[v].claimed)'
    <3>1. Untouched(d.saves[i].data, d.todo) /\ Reckons(d.saves[i].data, d.claimed) /\ dispatch'[v] = d
      BY <1>1, <2>1 DEF Tells
    <3>2. Untouched(dispatch[v].saves[i].data, dispatch[v].todo)'
      BY <2>1, <2>2, <3>1 DEF Untouched
    <3>3. Reckons(dispatch[v].saves[i].data, dispatch[v].claimed)'
      BY <1>1, <2>2, <3>1 DEF Reckons, Short
    <3> QED BY <3>2, <3>3
  <2> QED BY <2>5, <2>6 DEF Tells
<1> QED BY <1>3, <1>4

LEMMA PromiseSteps == FInv /\ [OutboxNext]_outboxVars => FInv'
<1> SUFFICES ASSUME FInv, [OutboxNext]_outboxVars PROVE FInv'
  OBVIOUS
<1>1. OInv'
  BY OutboxSteps DEF FInv
<1> DEFINE kept == RowsTell' /\ \A v \in Workers : Tells(dispatch[v])'
<1>2. ASSUME NEW e \in Events, Enqueue(e) PROVE kept
  BY <1>2, EnqueueTells
<1>3. ASSUME NEW w \in Workers, Dispatch(w) \/ Crash(w) PROVE kept
  BY <1>3, ClaimTells, OpenEventTells, SkipHandlerTells, RunHandlerTells, FailHandlerTells,
     FinishEventTells, CommitBatchTells, CrashTells DEF Dispatch
<1>4. ASSUME UNCHANGED outboxVars PROVE kept
  <2>1. UNCHANGED <<rows, delivered, dispatch>>
    BY <1>4 DEF outboxVars
  <2>2. RowsTell'
    BY <2>1 DEF FInv, RowsTell, Short
  <2>3. ASSUME NEW v \in Workers PROVE Tells(dispatch[v])'
    <3>1. Tells(dispatch[v])
      BY DEF FInv
    <3> QED BY <2>1, <3>1 DEF Tells, Untouched, Reckons, Short, Beside, At
  <2> QED BY <2>2, <2>3
<1>5. kept
  BY <1>2, <1>3, <1>4 DEF OutboxNext
<1> QED BY <1>1, <1>5 DEF FInv

\* What every dispatch will make of its events, in every state.
THEOREM PromiseInvariant == OutboxSpec => []FInv
  BY PromiseStarts, PromiseSteps, PTL DEF OutboxSpec

-----------------------------------------------------------------------------
TakenBy(e) == {h \in Handlers : <<e, h>> \in delivered}

\* Short of a consumer, or not.
LEMMA ShortIs ==
  ASSUME NEW e \in Events, NEW D
  PROVE  LET T == {h \in Handlers : <<e, h>> \in D} IN
         /\ ConsumersOf(e) \subseteq Handlers /\ (ConsumersOf(e) # {} <=> Matching[e] # <<>>)
         /\ Short(e, D) <=> (ConsumersOf(e) # {} => ~(ConsumersOf(e) \subseteq T))
<1> DEFINE T == {h \in Handlers : <<e, h>> \in D}
<1>1. Matching[e] \in Seq(Handlers)
  BY OutboxAssumption
<1>2. \A i \in DOMAIN Matching[e] : Matching[e][i] \in Handlers
  BY <1>1
<1>3. Matching[e] # <<>> <=> \E i \in DOMAIN Matching[e] : TRUE
  <2>1. Matching[e] # <<>> => 1 \in DOMAIN Matching[e]
    BY <1>1
  <2> QED BY <2>1
<1>4. ConsumersOf(e) \subseteq Handlers /\ (ConsumersOf(e) # {} <=> Matching[e] # <<>>)
  BY <1>2, <1>3 DEF ConsumersOf
<1>5. (\E i \in DOMAIN Matching[e] : <<e, Matching[e][i]>> \notin D) <=> ~(ConsumersOf(e) \subseteq T)
  BY <1>2 DEF ConsumersOf
<1> QED BY <1>4, <1>5 DEF Short

\* A commit completes the event, or falls short of it.
LEMMA CommitPromised ==
  ASSUME FInv, NEW w \in Workers, CommitBatch(w), NEW e \in Events
  PROVE  Promised(e)!Next \/ UNCHANGED <<rows[e].status, rows[e].attempts, TakenBy(e)>>
<1> DEFINE took == {h \in Handlers : <<e, h>> \in delivered'}
<1>1. took = TakenBy(e)'
  BY DEF TakenBy
<1>2. CASE e \notin dispatch[w].claimed
  <2>1. rows'[e] = rows[e] /\ \A h : <<e, h>> \in delivered' <=> <<e, h>> \in delivered
    BY <1>2, Committed
  <2> QED BY <1>1, <2>1 DEF TakenBy
<1>3. CASE e \in dispatch[w].claimed
  <2>1. /\ rows[e].status = "PENDING" /\ delivered \subseteq delivered'
        /\ \/ rows'[e] \in {rows[e], Counted(rows[e])} /\ Short(e, delivered')
           \/ rows'[e] = Completed(rows[e])
    BY <1>3, Committed
  <2>2. FInv' /\ took \subseteq ConsumersOf(e) /\ TakenBy(e) \subseteq took
    <3>1. FInv'
      BY PromiseSteps DEF OutboxNext, Dispatch
    <3>2. delivered' \subseteq Owed
      BY <3>1 DEF FInv, RowsTell
    <3> QED BY <2>1, <3>1, <3>2 DEF Owed, TakenBy
  <2>3. CASE rows'[e] = Completed(rows[e])
    <3>1. rows'[e].status = "DISPATCHED" /\ rows'[e].attempts = rows[e].attempts + 1
      BY <2>3 DEF Completed
    <3>2. Matching[e] # <<>> /\ \A i \in DOMAIN Matching[e] : <<e, Matching[e][i]>> \in delivered'
      BY <2>2, <3>1 DEF FInv, OInv, RowsSound
    <3>3. ConsumersOf(e) # {} /\ ConsumersOf(e) \subseteq took
      BY <3>2, ShortIs DEF ConsumersOf
    <3>4. Promised(e)!Complete
      BY <2>1, <2>2, <3>1, <3>3 DEF Promised!Complete
    <3> QED BY <3>4 DEF Promised!Next
  <2>4. CASE rows'[e] \in {rows[e], Counted(rows[e])} /\ Short(e, delivered')
    <3>1. ConsumersOf(e) # {} => took # ConsumersOf(e)
      BY <2>4, ShortIs
    <3>2. \/ rows'[e].status = rows[e].status /\ rows'[e].attempts = rows[e].attempts
          \/ /\ rows'[e].attempts = rows[e].attempts + 1
             /\ rows'[e].status = IF rows'[e].attempts >= MaxAttempts THEN "FAILED" ELSE "PENDING"
      BY <2>4 DEF Counted
    <3>3. Promised(e)!FallShort
      BY <2>1, <2>2, <3>1, <3>2 DEF Promised!FallShort, TakenBy
    <3> QED BY <3>3 DEF Promised!Next
  <2> QED BY <2>1, <2>3, <2>4
<1> QED BY <1>2, <1>3

\* Each command is a step of what every event is promised, or a stutter.
THEOREM ImplementsDelivery == ASSUME NEW e \in Events PROVE OutboxSpec => Promised(e)!Spec
<1> DEFINE here == <<rows[e].status, rows[e].attempts, TakenBy(e)>>
<1>1. OutboxInit => Promised(e)!Init
  BY DEF OutboxInit, Promised!Init
<1>2. FInv /\ [OutboxNext]_outboxVars => [Promised(e)!Next]_(Promised(e)!vars)
  <2> SUFFICES ASSUME FInv, [OutboxNext]_outboxVars PROVE Promised(e)!Next \/ UNCHANGED here
    BY DEF Promised!vars, TakenBy
  <2>1. ASSUME NEW f \in Events, Enqueue(f) PROVE Promised(e)!Next \/ UNCHANGED here
    <3>1. /\ rows \in [Events -> Row] /\ rows[f].status = "ABSENT" /\ rows'= [rows EXCEPT ![f].status = "PENDING"]
          /\ UNCHANGED delivered
      BY <2>1 DEF Enqueue, FInv, OInv, RowsSound
    <3>2. TakenBy(e)' = TakenBy(e)
      BY <3>1 DEF TakenBy
    <3>3. CASE f = e
      <4>1. rows'[e].status = "PENDING" /\ rows'[e].attempts = rows[e].attempts
        BY <3>1, <3>3 DEF Row
      <4>2. Promised(e)!Publish
        BY <3>1, <3>2, <3>3, <4>1 DEF Promised!Publish, TakenBy
      <4> QED BY <4>2 DEF Promised!Next
    <3>4. CASE f # e
      <4>1. rows'[e] = rows[e]
        BY <3>1, <3>4
      <4> QED BY <3>2, <4>1
    <3> QED BY <3>3, <3>4
  <2>2. ASSUME NEW w \in Workers, CommitBatch(w) PROVE Promised(e)!Next \/ UNCHANGED here
    BY <2>2, CommitPromised DEF TakenBy
  <2>3. ASSUME UNCHANGED <<rows, delivered>> PROVE UNCHANGED here
    BY <2>3 DEF TakenBy
  <2>4. ASSUME NEW w \in Workers, Dispatch(w) \/ Crash(w), ~CommitBatch(w) PROVE UNCHANGED <<rows, delivered>>
    BY <2>4 DEF Dispatch, Claim, OpenEvent, SkipHandler, RunHandler, FailHandler, FinishEvent, Crash
  <2>5. CASE UNCHANGED outboxVars
    BY <2>3, <2>5 DEF outboxVars
  <2> QED BY <2>1, <2>2, <2>3, <2>4, <2>5 DEF OutboxNext, Dispatch
<1> QED BY <1>1, <1>2, PromiseInvariant, PTL DEF OutboxSpec, Promised!Spec

\* What is promised follows: an event's status is the truth about it.
THEOREM DeliveryPromise == ASSUME NEW e \in Events PROVE OutboxSpec => []Promised(e)!StatusTrue
<1>1. Promised(e)!Init => Promised(e)!StatusTrue
  <2> SUFFICES ASSUME rows[e].status = "ABSENT", rows[e].attempts = 0, TakenBy(e) = {} PROVE Promised(e)!StatusTrue
    BY DEF Promised!Init, TakenBy
  <2>1. 0 < MaxAttempts
    BY OutboxAssumption
  <2>2. TakenBy(e) \subseteq ConsumersOf(e) /\ ~(TakenBy(e) = ConsumersOf(e) /\ ConsumersOf(e) # {})
    OBVIOUS
  <2>3. /\ rows[e].status \in {"ABSENT", "PENDING", "DISPATCHED", "FAILED"} /\ rows[e].attempts \in Nat
        /\ rows[e].status # "DISPATCHED" /\ rows[e].status # "FAILED" /\ rows[e].attempts < MaxAttempts
    BY <2>1
  <2> QED BY <2>2, <2>3, Zenon DEF Promised!StatusTrue, TakenBy
<1>2. Promised(e)!StatusTrue /\ [Promised(e)!Next]_(Promised(e)!vars) => Promised(e)!StatusTrue'
  <2> SUFFICES ASSUME Promised(e)!StatusTrue, [Promised(e)!Next]_(Promised(e)!vars) PROVE Promised(e)!StatusTrue'
    OBVIOUS
  <2>1. CASE Promised(e)!Publish
    BY <2>1 DEF Promised!Publish, Promised!StatusTrue
  <2>2. CASE Promised(e)!Complete
    BY <2>2 DEF Promised!Complete, Promised!StatusTrue
  <2>3. CASE Promised(e)!FallShort
    <3>1. MaxAttempts \in Nat
      BY OutboxAssumption
    <3>2. /\ rows[e].status = "PENDING" /\ rows[e].attempts \in Nat /\ rows[e].attempts < MaxAttempts
          /\ TakenBy(e)' \subseteq ConsumersOf(e) /\ ~(TakenBy(e)' = ConsumersOf(e) /\ ConsumersOf(e) # {})
      BY <2>3 DEF Promised!FallShort, Promised!StatusTrue, TakenBy
    <3>3. /\ rows'[e].status \in {"PENDING", "FAILED"} /\ rows'[e].attempts \in Nat
          /\ rows'[e].status = "PENDING" => rows'[e].attempts < MaxAttempts
          /\ rows'[e].status = "FAILED" => rows'[e].attempts = MaxAttempts
      <4>1. CASE rows'[e].status = rows[e].status /\ rows'[e].attempts = rows[e].attempts
        BY <3>2, <4>1
      <4>2. CASE /\ rows'[e].attempts = rows[e].attempts + 1
                 /\ rows'[e].status = IF rows'[e].attempts >= MaxAttempts THEN "FAILED" ELSE "PENDING"
        BY <3>1, <3>2, <4>2
      <4> QED BY <2>3, <4>1, <4>2 DEF Promised!FallShort
    <3>4. /\ rows'[e].status \in {"ABSENT", "PENDING", "DISPATCHED", "FAILED"} /\ rows'[e].status # "DISPATCHED"
          /\ rows'[e].status \in {"ABSENT", "PENDING"} => rows'[e].attempts < MaxAttempts
      BY <3>3
    <3> QED BY <3>2, <3>3, <3>4, Zenon DEF Promised!StatusTrue, TakenBy
  <2>4. CASE UNCHANGED Promised(e)!vars
    BY <2>4 DEF Promised!vars, Promised!StatusTrue
  <2> QED BY <2>1, <2>2, <2>3, <2>4 DEF Promised!Next
<1> QED BY <1>1, <1>2, ImplementsDelivery, PTL DEF Promised!Spec

-----------------------------------------------------------------------------
(* The scanner and the deposit addresses. *)

\* Who holds an address: as OneHolder says, and one never assigned has no row.
CustodyInv ==
  /\ CustodyTypeOK
  /\ OneHolder
  /\ \A s \in Subjects : assigned[s] # Unassigned => status[assigned[s]] # "ABSENT"

\* What a transfer pays for: ClaimsAreOwn but for the types and the holders.
ClaimsBacked ==
  \A t \in Transfers : claim[t] # Nobody =>
       /\ rec[t] # "NONE" /\ assigned[claim[t]] = dest[t]
       /\ claim[t] \in Trades => rec[t] \in {"DETECTED", "CONFIRMED"}
       /\ claim[t] \in Trades \cap ended /\ rec[t] = "DETECTED" => t \in late

\* What is being recorded goes to an address of ours, and for who was given that address.
Asked ==
  /\ \A r \in Runs : \A t \in run[r].todo : dest[t] \in Known
  /\ \A c \in looked : /\ c.t \in Transfers /\ dest[c.t] \in Known
                       /\ c.who # Nobody => c.who \in Subjects /\ assigned[c.who] = dest[c.t]

\* A transfer that was recorded or mined goes to an address of ours.
Ours == \A t \in Transfers : rec[t] # "NONE" \/ mined[t] # 0 => dest[t] \in Known

\* What is not recorded yet and is the scanner's to find goes to a watched address.
Watching ==
  \A t \in Transfers : t \notin unwatched /\ mined[t] # 0 /\ rec[t] = "NONE" => dest[t] \in WatchList

\* What is confirmed is final and succeeded.
ConfirmedIsFinal == \A t \in Transfers : rec[t] = "CONFIRMED" => Final(t) /\ ok[t]

\* What a run will not read again is final.
Behind == head - solid <= Overlap /\ cursor - Overlap <= solid

\* NothingPassed, without the words that follow from Behind.
Passed ==
  \A t \in Transfers : t \notin unwatched /\ ok[t] /\ mined[t] # 0 /\ mined[t] < cursor - Overlap
    => rec[t] # "NONE"

\* What a run has proved: of the addresses it is done with, all that is final is recorded
\* or next to be.
RunSound(r) ==
  run[r].busy =>
    /\ run[r].proven <= run[r].to /\ run[r].to - Overlap <= solid
    /\ cursor # NoCursor /\ (run[r].from = 0 \/ run[r].from <= cursor - Overlap)
    /\ \A t \in Transfers :
         /\ t \notin unwatched /\ ok[t] /\ mined[t] # 0 /\ dest[t] \notin run[r].left
         /\ run[r].from <= mined[t] /\ mined[t] <= run[r].proven /\ mined[t] <= run[r].to - Overlap
         => rec[t] # "NONE" \/ t \in run[r].todo
RunsSound == \A r \in Runs : RunSound(r)

ScanInv ==
  /\ ScannerTypeOK /\ CustodyInv /\ ClaimsBacked /\ Asked /\ Ours
  /\ Watching /\ ConfirmedIsFinal /\ Behind /\ Passed /\ RunsSound

-----------------------------------------------------------------------------
(* Who holds an address. *)

LEMMA OneOpen == ASSUME NEW a, NEW s, Open(a) = {s} PROVE Cardinality(Open(a)) = 1
  BY FS_Singleton

\* Of an assigned address the only open subject is known.
LEMMA HeldByOne ==
  ASSUME CustodyInv, NEW a \in Addresses, NEW s \in Open(a)
  PROVE  status[a] = "ASSIGNED" /\ Open(a) = {s}
<1>1. status[a] = "ASSIGNED"
  BY DEF CustodyInv, OneHolder
<1>2. \A t \in Open(a) : t = s
  <2> SUFFICES ASSUME NEW t \in Open(a), t # s PROVE FALSE
    OBVIOUS
  <2>1. s \in Subjects /\ t \in Subjects /\ assigned[s] = a /\ assigned[t] = a /\ {s, t} \cap released = {}
    BY DEF Open
  <2>2. a # Unassigned
    BY ScannerAssumption
  <2> QED BY <2>1, <2>2 DEF CustodyInv, OneHolder
<1> QED BY <1>1, <1>2

LEMMA ImportCustody == ASSUME CustodyInv, NEW a \in Addresses, Import(a) PROVE CustodyInv'
<1>1. CustodyTypeOK'
  BY DEF CustodyInv, CustodyTypeOK, Import
<1>2. \A b \in Addresses : status'[b] = IF b = a THEN "AVAILABLE" ELSE status[b]
  BY DEF CustodyInv, CustodyTypeOK, Import
<1>3. \A b \in Addresses : Open(b)' = Open(b)
  BY DEF Open, Import
<1>4. OneHolder'
  BY <1>2, <1>3 DEF CustodyInv, OneHolder, Import
<1> QED BY <1>1, <1>2, <1>4 DEF CustodyInv, CustodyTypeOK, Import

LEMMA AllocateCustody ==
  ASSUME CustodyInv, NEW s \in Subjects, NEW a \in Addresses, Allocate(s, a) PROVE CustodyInv'
<1>1. /\ CustodyTypeOK' /\ s \notin released /\ a # Unassigned
      /\ \A b \in Addresses : status'[b] = IF b = a THEN "ASSIGNED" ELSE status[b]
      /\ \A t \in Subjects : assigned'[t] = IF t = s THEN a ELSE assigned[t]
  BY ScannerAssumption DEF CustodyInv, CustodyTypeOK, Allocate
<1>2. \A t \in Subjects : assigned[t] = a => a \in Pool /\ t \in released
  <2> SUFFICES ASSUME NEW t \in Subjects, assigned[t] = a PROVE a \in Pool /\ t \in released
    OBVIOUS
  <2>1. status[a] # "ABSENT"
    BY <1>1 DEF CustodyInv
  <2>2. a \in Pool /\ status[a] = "AVAILABLE"
    BY <2>1 DEF Allocate, Issuable
  <2>3. Open(a) = {}
    BY <2>2 DEF CustodyInv, OneHolder
  <2> QED BY <2>2, <2>3 DEF Open
<1>3. Open(a)' = {s}
  BY <1>1, <1>2 DEF Open, Allocate
<1>4. \A b \in Addresses : b # a => Open(b)' = Open(b)
  <2>1. Unassigned \notin Addresses
    BY ScannerAssumption
  <2> QED BY <1>1, <2>1 DEF Open, Allocate
<1>5. \A b \in Addresses : IF status'[b] = "ASSIGNED" THEN Cardinality(Open(b)') = 1 ELSE Open(b)' = {}
  <2> SUFFICES ASSUME NEW b \in Addresses
               PROVE  IF status'[b] = "ASSIGNED" THEN Cardinality(Open(b)') = 1 ELSE Open(b)' = {}
    OBVIOUS
  <2>1. CASE b = a
    BY <1>1, <1>3, <2>1, FS_Singleton
  <2>2. CASE b # a
    BY <1>1, <1>4, <2>2 DEF CustodyInv, OneHolder
  <2> QED BY <2>1, <2>2
<1>6. \A t, u \in Subjects : t # u /\ assigned'[t] = assigned'[u] /\ assigned'[t] # Unassigned
        => assigned'[t] \in Pool /\ {t, u} \cap released # {}
  BY <1>1, <1>2 DEF CustodyInv, OneHolder
<1>7. OneHolder'
  BY <1>5, <1>6 DEF OneHolder, Allocate
<1>8. \A t \in Subjects : assigned'[t] # Unassigned => status'[assigned'[t]] # "ABSENT"
  BY <1>1 DEF CustodyInv, CustodyTypeOK
<1> QED BY <1>1, <1>7, <1>8 DEF CustodyInv

LEMMA ReleaseCustody == ASSUME CustodyInv, NEW s \in Subjects, Release(s) PROVE CustodyInv'
<1> DEFINE a == assigned[s]
<1>0. a \in Addresses
  BY DEF CustodyInv, CustodyTypeOK, Release
<1> HIDE DEF a
<1>1. \A b \in Addresses : status'[b] = IF b = a THEN "COOLDOWN" ELSE status[b]
  BY <1>0 DEF CustodyInv, CustodyTypeOK, Release, a
<1>2. CustodyTypeOK'
  BY <1>0 DEF CustodyInv, CustodyTypeOK, Release, a
<1>3. Open(a) = {s}
  BY <1>0, HeldByOne DEF Open, Release, a
<1>4. \A b \in Addresses : Open(b)' = IF b = a THEN {} ELSE Open(b)
  BY <1>3 DEF Open, Release, a
<1>5. \A b \in Addresses : IF status'[b] = "ASSIGNED" THEN Cardinality(Open(b)') = 1 ELSE Open(b)' = {}
  <2> SUFFICES ASSUME NEW b \in Addresses
               PROVE  IF status'[b] = "ASSIGNED" THEN Cardinality(Open(b)') = 1 ELSE Open(b)' = {}
    OBVIOUS
  <2>1. CASE b = a
    BY <1>1, <1>4, <2>1
  <2>2. CASE b # a
    BY <1>1, <1>4, <2>2 DEF CustodyInv, OneHolder
  <2> QED BY <2>1, <2>2
<1>6. \A t, u \in Subjects : t # u /\ assigned'[t] = assigned'[u] /\ assigned'[t] # Unassigned
        => assigned'[t] \in Pool /\ {t, u} \cap released' # {}
  BY DEF CustodyInv, OneHolder, Release
<1>7. OneHolder'
  BY <1>5, <1>6 DEF OneHolder
<1> QED BY <1>0, <1>1, <1>2, <1>7 DEF CustodyInv, CustodyTypeOK, Release

\* An address that nobody holds changes its status to another without a holder.
LEMMA RestCustody ==
  ASSUME CustodyInv, NEW a \in Addresses, NEW s \in {"AVAILABLE", "RETIRED"}, status[a] # "ASSIGNED",
         status' = [status EXCEPT ![a] = s], UNCHANGED <<assigned, released>>
  PROVE  CustodyInv'
<1>1. CustodyTypeOK' /\ \A b \in Addresses : status'[b] = IF b = a THEN s ELSE status[b]
  BY DEF CustodyInv, CustodyTypeOK
<1>2. \A b \in Addresses : Open(b)' = Open(b)
  BY DEF Open
<1>3. OneHolder'
  BY <1>1, <1>2 DEF CustodyInv, OneHolder
<1> QED BY <1>1, <1>3 DEF CustodyInv, CustodyTypeOK

-----------------------------------------------------------------------------
(* What the scanner knows. *)

\* The parts that hold as they are while the chain and the cursor stand still and nothing
\* that was recorded or set aside is undone.
LEMMA StandStill ==
  ASSUME ScanInv, UNCHANGED <<head, solid, mined, ok, dest, cursor>>,
         \A t \in Transfers : t \notin unwatched' /\ rec'[t] = "NONE" => t \notin unwatched /\ rec[t] = "NONE"
  PROVE  Behind' /\ Passed' /\ \A r \in Runs : run'[r] = run[r] => RunSound(r)'
<1>1. Behind'
  BY DEF ScanInv, Behind
<1>2. Passed'
  BY DEF ScanInv, Passed
<1>3. ASSUME NEW r \in Runs, run'[r] = run[r] PROVE RunSound(r)'
  BY <1>3 DEF ScanInv, RunsSound, RunSound
<1> QED BY <1>1, <1>2, <1>3

\* The same for all of the scanner's part when the runs stand still too.
LEMMA RunsStandStill ==
  ASSUME ScanInv, UNCHANGED <<head, solid, mined, ok, dest, cursor, run>>,
         \A t \in Transfers : t \notin unwatched' /\ rec'[t] = "NONE" => t \notin unwatched /\ rec[t] = "NONE"
  PROVE  Behind' /\ Passed' /\ RunsSound'
  BY StandStill DEF RunsSound

\* A watched address stays watched unless it is let go.
LEMMA ImportWatch == ASSUME CustodyInv, NEW a \in Addresses, Import(a) PROVE WatchList' = WatchList
  BY DEF WatchList, Watched, CustodyInv, CustodyTypeOK, Import

LEMMA AllocateWatch ==
  ASSUME CustodyInv, NEW s \in Subjects, NEW a \in Addresses, Allocate(s, a) PROVE WatchList \subseteq WatchList'
  BY DEF WatchList, Watched, CustodyInv, CustodyTypeOK, Allocate

LEMMA ReleaseWatch ==
  ASSUME CustodyInv, NEW s \in Subjects, Release(s) PROVE WatchList \subseteq WatchList'
  BY DEF WatchList, Watched, CustodyInv, CustodyTypeOK, Release

\* The assignments an address or a claim rests on are only added to.
LEMMA TakeAddressHolds == ASSUME ScanInv, TakeAddress PROVE ScanInv'
<1>1. CustodyInv' /\ WatchList \subseteq WatchList' /\ released' = released
      /\ \A s \in Subjects : assigned[s] # Unassigned => assigned'[s] = assigned[s]
  <2>1. CASE \E a \in Addresses : Import(a)
    BY <2>1, ImportCustody, ImportWatch DEF ScanInv, Import
  <2>2. CASE \E s \in Subjects, a \in Addresses : Allocate(s, a)
    <3>1. PICK s \in Subjects, a \in Addresses : Allocate(s, a)
      BY <2>2
    <3>2. CustodyInv' /\ WatchList \subseteq WatchList'
      BY <3>1, AllocateCustody, AllocateWatch DEF ScanInv
    <3> QED BY <3>1, <3>2 DEF Allocate, ScanInv, CustodyInv, CustodyTypeOK
  <2> QED BY <2>1, <2>2 DEF TakeAddress
<1>2. ScannerTypeOK'
  BY <1>1 DEF ScanInv, ScannerTypeOK, TakeAddress, chainVars, recordVars, scanVars, CustodyInv
<1>3. Behind' /\ Passed' /\ RunsSound'
  BY RunsStandStill DEF TakeAddress, chainVars, recordVars, scanVars
<1>4. Watching'
  BY <1>1 DEF ScanInv, Watching, TakeAddress, chainVars, recordVars
<1>5. Ours' /\ ConfirmedIsFinal'
  BY DEF ScanInv, Ours, ConfirmedIsFinal, Final, TakeAddress, chainVars, recordVars
<1>6. ClaimsBacked'
  <2> SUFFICES ASSUME NEW t \in Transfers, claim[t] # Nobody PROVE assigned'[claim[t]] = assigned[claim[t]]
    BY <1>1 DEF ScanInv, ClaimsBacked, TakeAddress, chainVars, recordVars
  <2>1. claim[t] \in Subjects /\ assigned[claim[t]] = dest[t] /\ dest[t] \in Known
    BY DEF ScanInv, ClaimsBacked, ScannerTypeOK, Ours
  <2>2. dest[t] # Unassigned
    BY <2>1, ScannerAssumption DEF Known
  <2> QED BY <1>1, <2>1, <2>2
<1>7. Asked'
  <2> SUFFICES ASSUME NEW c \in looked, c.who # Nobody PROVE assigned'[c.who] = assigned[c.who]
    BY DEF ScanInv, Asked, TakeAddress, chainVars, scanVars, Known, Addresses
  <2>1. c.who \in Subjects /\ assigned[c.who] = dest[c.t] /\ dest[c.t] \in Known
    BY DEF ScanInv, Asked
  <2>2. dest[c.t] # Unassigned
    BY <2>1, ScannerAssumption DEF Known
  <2> QED BY <1>1, <2>1, <2>2
<1> QED BY <1>1, <1>2, <1>3, <1>4, <1>5, <1>6, <1>7 DEF ScanInv

\* An address leaves the watch, and what was not recorded on it is set aside.
LEMMA LeaveWatchHolds == ASSUME ScanInv, LeaveWatch PROVE ScanInv'
<1>1. PICK a \in Addresses :
        /\ CoolDown(a) \/ Retire(a)
        /\ unwatched' = unwatched \cup {t \in Transfers : dest[t] = a /\ rec[t] = "NONE"}
  BY DEF LeaveWatch
<1>2. UNCHANGED <<chainVars, rec, claim, absent, late, scanVars, looked, ended, assigned, released>>
  BY <1>1 DEF LeaveWatch, CoolDown, Retire
<1>3. CustodyInv'
  <2>1. CASE CoolDown(a)
    BY <2>1, RestCustody DEF CoolDown, ScanInv
  <2>2. CASE Retire(a)
    BY <2>2, RestCustody DEF Retire, ScanInv
  <2> QED BY <1>1, <2>1, <2>2
<1>4. \A b \in Addresses : b # a => status'[b] = status[b]
  BY <1>1 DEF CoolDown, Retire, ScanInv, CustodyInv, CustodyTypeOK
<1>5. ScannerTypeOK'
  BY <1>1, <1>2, <1>3 DEF ScanInv, ScannerTypeOK, chainVars, scanVars, CustodyInv
<1>6. Behind' /\ Passed' /\ RunsSound'
  BY <1>1, <1>2, RunsStandStill DEF chainVars, scanVars
<1>7. Watching'
  <2> SUFFICES ASSUME NEW t \in Transfers, t \notin unwatched', mined[t] # 0, rec[t] = "NONE"
               PROVE  dest[t] \in WatchList'
    BY <1>2 DEF Watching, chainVars
  <2>1. dest[t] \in WatchList /\ dest[t] # a
    BY <1>1 DEF ScanInv, Watching
  <2> QED BY <1>4, <2>1 DEF WatchList, Watched
<1>8. Ours' /\ ConfirmedIsFinal' /\ ClaimsBacked' /\ Asked'
  BY <1>2 DEF ScanInv, Ours, ConfirmedIsFinal, Final, ClaimsBacked, Asked, chainVars, scanVars
<1> QED BY <1>3, <1>5, <1>6, <1>7, <1>8 DEF ScanInv

\* A subject ends: a cancelled trade keeps nothing that is not confirmed.
LEMMA EndingHolds == ASSUME ScanInv, NEW s \in Subjects, Ending(s) PROVE ScanInv'
<1>1. /\ UNCHANGED <<chainVars, rec, absent, unwatched, late, scanVars, looked, assigned>>
      /\ Release(s) \/ UNCHANGED custodyVars
      /\ ended' \subseteq Subjects
  BY DEF Ending, CancelTrade, CompleteTrade, CancelObligation, CloseDelivery, Release, recordVars, custodyVars,
         ScanInv, ScannerTypeOK
<1>2. CustodyInv' /\ WatchList \subseteq WatchList'
  <2>1. CASE Release(s)
    BY <2>1, ReleaseCustody, ReleaseWatch DEF ScanInv
  <2>2. CASE UNCHANGED custodyVars
    BY <2>2 DEF ScanInv, CustodyInv, CustodyTypeOK, OneHolder, Open, custodyVars, WatchList, Watched
  <2> QED BY <1>1, <2>1, <2>2
<1>3. \A t \in Transfers :
        /\ claim'[t] \in {claim[t], Nobody}
        /\ claim'[t] \in Trades \cap ended' /\ rec[t] = "DETECTED" => claim'[t] \in ended
  <2> SUFFICES ASSUME NEW t \in Transfers
               PROVE  /\ claim'[t] \in {claim[t], Nobody}
                      /\ claim'[t] \in Trades \cap ended' /\ rec[t] = "DETECTED" => claim'[t] \in ended
    OBVIOUS
  <2>1. CASE CancelTrade(s)
    <3>1. claim'[t] = IF claim[t] = s /\ rec[t] = "DETECTED" THEN Nobody ELSE claim[t]
      BY <2>1 DEF CancelTrade, Detached
    <3>2. ended' = ended \cup {s} /\ s # Nobody
      BY <2>1, CustodyAssumption DEF CancelTrade
    <3> QED BY <3>1, <3>2
  <2>2. CASE CompleteTrade(s) \/ CloseDelivery(s)
    BY <2>2 DEF CompleteTrade, CloseDelivery, recordVars
  <2>3. CASE CancelObligation(s)
    BY <2>3 DEF CancelObligation, recordVars, Obligations
  <2> QED BY <2>1, <2>2, <2>3 DEF Ending
<1>4. claim' \in [Transfers -> Subjects \cup {Nobody}]
  BY DEF Ending, CancelTrade, CompleteTrade, CancelObligation, CloseDelivery, Detached, recordVars, ScanInv, ScannerTypeOK
<1>5. ScannerTypeOK'
  BY <1>1, <1>2, <1>4 DEF ScanInv, ScannerTypeOK, chainVars, scanVars, CustodyInv
<1>6. Behind' /\ Passed' /\ RunsSound'
  BY <1>1, RunsStandStill DEF chainVars, scanVars
<1>7. Watching' /\ Ours' /\ ConfirmedIsFinal' /\ Asked'
  BY <1>1, <1>2 DEF ScanInv, Watching, Ours, ConfirmedIsFinal, Final, Asked, chainVars, scanVars
<1>8. ClaimsBacked'
  BY <1>1, <1>3 DEF ScanInv, ClaimsBacked, chainVars
<1> QED BY <1>2, <1>5, <1>6, <1>7, <1>8 DEF ScanInv

\* A record moves on; a claim that ends was of something not confirmed.
LEMMA FollowUpHolds == ASSUME ScanInv, NEW t \in Transfers, FollowUp(t) PROVE ScanInv'
<1>1. UNCHANGED <<custodyVars, chainVars, unwatched, late, scanVars, looked, ended>>
  BY DEF FollowUp, Confirm, Unclaim, AskAbsent, Orphan
<1>2. \A u \in Transfers :
        /\ claim'[u] \in {claim[u], Nobody}
        /\ \/ rec'[u] = rec[u]
           \/ rec[u] = "DETECTED" /\ rec'[u] = "CONFIRMED" /\ Final(u) /\ ok[u]
           \/ rec[u] = "DETECTED" /\ rec'[u] \in {"FAILED", "ORPHANED"} /\ claim'[u] \notin Trades
  <2>1. Nobody \notin Trades
    BY CustodyAssumption, ScannerAssumption
  <2>2. CASE Confirm(t)
    BY <2>1, <2>2 DEF Confirm, LetGo, ScanInv, ScannerTypeOK
  <2>3. CASE Unclaim(t) \/ AskAbsent(t)
    BY <2>3 DEF Unclaim, AskAbsent, ScanInv, ScannerTypeOK
  <2>4. CASE Orphan(t)
    BY <2>1, <2>4 DEF Orphan, Orphanable, LetGo, ScanInv, ScannerTypeOK
  <2> QED BY <2>2, <2>3, <2>4 DEF FollowUp
<1>3. ScannerTypeOK'
  <2>1. /\ rec' \in [Transfers -> {"NONE", "DETECTED", "CONFIRMED", "FAILED", "ORPHANED"}]
        /\ claim' \in [Transfers -> Subjects \cup {Nobody}] /\ absent' \subseteq Transfers
    BY DEF FollowUp, Confirm, Unclaim, AskAbsent, Orphan, LetGo, ScanInv, ScannerTypeOK
  <2> QED BY <1>1, <2>1 DEF ScanInv, ScannerTypeOK, custodyVars, chainVars, scanVars, CustodyTypeOK, Addresses
<1>4. CustodyInv'
  BY <1>1 DEF ScanInv, CustodyInv, CustodyTypeOK, OneHolder, Open, custodyVars
<1>5. Behind' /\ Passed' /\ RunsSound'
  BY <1>1, <1>2, RunsStandStill DEF chainVars, scanVars
<1>6. Watching' /\ Ours' /\ ConfirmedIsFinal'
  BY <1>1, <1>2 DEF ScanInv, Watching, Ours, ConfirmedIsFinal, Final, chainVars, custodyVars, WatchList, Watched
<1>7. ClaimsBacked' /\ Asked'
  BY <1>1, <1>2 DEF ScanInv, ClaimsBacked, Asked, custodyVars, chainVars, scanVars
<1> QED BY <1>3, <1>4, <1>5, <1>6, <1>7 DEF ScanInv

-----------------------------------------------------------------------------
(* The chain. *)

\* Blocks that are not final come and go; what is in them is not proved by anybody yet.
LEMMA PlaceHolds ==
  ASSUME ScanInv, NEW S \in SUBSET Transfers, NEW at, NEW to, NEW failed, Place(S, at, to, failed),
         head' \in Blocks, head <= head', head' - solid <= Overlap, solid' = solid, reorgs' \in 0 .. MaxReorgs,
         \A t \in S : at[t] \in Blocks /\ (at[t] = 0 \/ at[t] > solid),
         \A t \in S : mined[t] = 0 \/ mined[t] > solid,
         \A t \in S : to[t] \in Known \cup {Unassigned} /\ dest[t] \in {Unassigned, to[t]},
         \A t \in S : at[t] # 0 => to[t] \in Known
  PROVE  ScanInv'
<1>1. /\ UNCHANGED <<custodyVars, rec, claim, absent, late, scanVars, looked, ended>>
      /\ \A t \in Transfers : t \notin S => mined'[t] = mined[t] /\ ok'[t] = ok[t] /\ dest'[t] = dest[t]
      /\ \A t \in S : mined'[t] = at[t] /\ dest'[t] = to[t]
      /\ \A t \in Transfers : t \notin S /\ t \notin unwatched' => t \notin unwatched
      /\ \A t \in S : t \notin unwatched' /\ rec[t] = "NONE" => to[t] \in WatchList
  BY DEF Place
<1>2. head \in Nat /\ solid \in Nat /\ head' \in Nat /\ Overlap \in Nat /\ solid <= head'
  BY ScannerAssumption DEF ScanInv, ScannerTypeOK, Blocks
<1>3. ScannerTypeOK'
  <2>1. /\ mined' \in [Transfers -> Blocks] /\ ok' \in [Transfers -> BOOLEAN]
        /\ dest' \in [Transfers -> Known \cup {Unassigned}] /\ unwatched' \subseteq Transfers
    BY DEF Place, ScanInv, ScannerTypeOK
  <2>2. solid' \in 0 .. head'
    BY <1>2
  <2> QED BY <1>1, <2>1, <2>2 DEF ScanInv, ScannerTypeOK, custodyVars, scanVars, CustodyTypeOK, Addresses
<1>4. CustodyInv'
  BY <1>1 DEF ScanInv, CustodyInv, CustodyTypeOK, OneHolder, Open, custodyVars
<1>5. Behind'
  BY <1>1 DEF ScanInv, Behind, scanVars
<1>6. Watching'
  BY <1>1 DEF ScanInv, Watching, WatchList, Watched, custodyVars
<1>7. Passed'
  <2> SUFFICES ASSUME NEW t \in Transfers, t \notin unwatched', ok'[t], mined'[t] # 0, mined'[t] < cursor - Overlap
               PROVE  rec[t] # "NONE"
    BY <1>1 DEF Passed, scanVars
  <2>1. cursor - Overlap <= solid /\ cursor \in Int
    BY <1>1 DEF ScanInv, Behind, ScannerTypeOK, Blocks, NoCursor
  <2>2. mined'[t] \in Nat
    BY <1>3 DEF ScannerTypeOK, Blocks
  <2>3. ~ (mined'[t] > solid)
    BY <1>2, <2>1, <2>2
  <2>4. t \notin S
    BY <1>1, <2>3
  <2> QED BY <1>1, <2>4 DEF ScanInv, Passed
<1>8. RunsSound'
  <2> SUFFICES ASSUME NEW r \in Runs, run[r].busy PROVE RunSound(r)'
    BY <1>1 DEF RunsSound, RunSound, scanVars
  <2>1. RunSound(r) /\ run[r].to \in Int /\ run[r].to - Overlap <= solid
    BY DEF ScanInv, RunsSound, RunSound, ScannerTypeOK, Reading, Blocks
  <2>2. ASSUME NEW t \in Transfers, t \notin unwatched', ok'[t], mined'[t] # 0, dest'[t] \notin run[r].left,
               run[r].from <= mined'[t], mined'[t] <= run[r].proven, mined'[t] <= run[r].to - Overlap
        PROVE  rec[t] # "NONE" \/ t \in run[r].todo
    <3>1. mined'[t] \in Nat
      BY <1>3 DEF ScannerTypeOK, Blocks
    <3>2. ~ (mined'[t] > solid)
      BY <1>2, <2>1, <2>2, <3>1
    <3>3. t \notin S
      BY <1>1, <2>2, <3>2
    <3> QED BY <1>1, <2>1, <2>2, <3>3 DEF RunSound
  <2> QED BY <1>1, <2>1, <2>2 DEF RunSound, scanVars
<1>9. \A t \in Transfers : rec[t] # "NONE" => dest'[t] = dest[t] /\ dest[t] \in Known
  BY <1>1, ScannerAssumption DEF ScanInv, Ours, Known
<1>10. Ours'
  <2> SUFFICES ASSUME NEW t \in Transfers, rec[t] # "NONE" \/ mined'[t] # 0 PROVE dest'[t] \in Known
    BY <1>1 DEF Ours, custodyVars, Known, Addresses
  <2> QED BY <1>1, <1>9 DEF ScanInv, Ours
<1>11. ConfirmedIsFinal'
  <2> SUFFICES ASSUME NEW t \in Transfers, rec[t] = "CONFIRMED" PROVE t \notin S /\ Final(t) /\ ok[t]
    BY <1>1 DEF ConfirmedIsFinal, Final
  <2>1. Final(t) /\ ok[t] /\ mined[t] \in Nat
    BY DEF ScanInv, ConfirmedIsFinal, ScannerTypeOK, Blocks
  <2> QED BY <1>2, <2>1 DEF Final
<1>12. ClaimsBacked'
  BY <1>1, <1>9 DEF ScanInv, ClaimsBacked, custodyVars
<1>13. Asked'
  <2>1. \A t \in Transfers : dest[t] \in Known => dest'[t] = dest[t]
    BY <1>1, ScannerAssumption DEF Known
  <2>2. \A r \in Runs : \A t \in run[r].todo : t \in Transfers
    BY DEF ScanInv, ScannerTypeOK, Reading
  <2> QED BY <1>1, <2>1, <2>2 DEF ScanInv, Asked, custodyVars, scanVars, Known, Addresses
<1> QED BY <1>3, <1>4, <1>5, <1>6, <1>7, <1>8, <1>10, <1>11, <1>12, <1>13 DEF ScanInv

LEMMA MineHolds == ASSUME ScanInv, Mine PROVE ScanInv'
<1>1. head \in Nat /\ solid \in Nat /\ Overlap \in Nat /\ MaxBlock \in Nat /\ solid <= head /\ reorgs \in 0 .. MaxReorgs
  BY ScannerAssumption DEF ScanInv, ScannerTypeOK, Blocks
<1>2. head' \in Blocks /\ head <= head' /\ head' - solid <= Overlap /\ UNCHANGED <<solid, reorgs>> /\ head' = head + 1
  BY <1>1 DEF Mine, Blocks
<1>3. PICK S \in SUBSET {t \in Transfers : mined[t] = 0} :
        \E to \in [S -> Given], failed \in SUBSET {t \in S : rec[t] # "NONE"} :
          /\ \A t \in S : dest[t] \in {Unassigned, to[t]}
          /\ Place(S, [t \in S |-> head + 1], to, failed)
  BY DEF Mine
<1>4. PICK to \in [S -> Given], failed \in SUBSET {t \in S : rec[t] # "NONE"} :
        /\ \A t \in S : dest[t] \in {Unassigned, to[t]}
        /\ Place(S, [t \in S |-> head + 1], to, failed)
  BY <1>3
<1>5. Given \subseteq Known
  BY DEF Given, Known
<1> DEFINE at == [t \in S |-> head + 1]
<1>6. Place(S, at, to, failed) /\ \A t \in S : at[t] = head'
  BY <1>2, <1>4
<1> HIDE DEF at
<1>7. \A t \in S : /\ at[t] \in Blocks /\ (at[t] = 0 \/ at[t] > solid) /\ mined[t] = 0
                   /\ to[t] \in Known \cup {Unassigned} /\ dest[t] \in {Unassigned, to[t]}
                   /\ to[t] \in Known
  BY <1>1, <1>2, <1>4, <1>5, <1>6
<1>8. S \in SUBSET Transfers
  BY <1>3
<1> QED BY <1>1, <1>2, <1>6, <1>7, <1>8, PlaceHolds

LEMMA ReorganiseHolds == ASSUME ScanInv, Reorganise PROVE ScanInv'
<1>1. head \in Nat /\ solid \in Nat /\ Overlap \in Nat /\ MaxBlock \in Nat /\ MaxReorgs \in Nat /\ solid <= head
      /\ reorgs \in 0 .. MaxReorgs /\ head - solid <= Overlap /\ head <= MaxBlock
  BY ScannerAssumption DEF ScanInv, ScannerTypeOK, Blocks, Behind
<1>2. head' \in Blocks /\ head <= head' /\ head' - solid <= Overlap /\ solid' = solid /\ reorgs' \in 0 .. MaxReorgs
  BY <1>1 DEF Reorganise, Blocks
<1>3. PICK b \in solid + 1 .. head : \E at \in [{t \in Transfers : mined[t] >= b} -> {0} \cup b .. head] :
        Place({t \in Transfers : mined[t] >= b}, at, [t \in {u \in Transfers : mined[u] >= b} |-> dest[t]], {})
  BY DEF Reorganise
<1> DEFINE S == {t \in Transfers : mined[t] >= b}
           to == [t \in S |-> dest[t]]
<1>4. PICK at \in [S -> {0} \cup b .. head] : Place(S, at, to, {})
  BY <1>3
<1>5. S \in SUBSET Transfers /\ \A t \in S : to[t] = dest[t] /\ mined[t] >= b /\ mined[t] \in Nat
  BY DEF ScanInv, ScannerTypeOK, Blocks
<1> HIDE DEF S, to
<1>6. b \in Nat /\ b > solid
  BY <1>1
<1>7. \A t \in S : at[t] \in Blocks /\ (at[t] = 0 \/ at[t] > solid)
  <2> SUFFICES ASSUME NEW t \in S PROVE at[t] \in Blocks /\ (at[t] = 0 \/ at[t] > solid)
    OBVIOUS
  <2>1. at[t] \in {0} \cup b .. head
    BY <1>4
  <2> QED BY <1>1, <1>6, <2>1 DEF Blocks
<1>8. \A t \in S : (mined[t] = 0 \/ mined[t] > solid) /\ dest[t] \in {Unassigned, to[t]}
  BY <1>1, <1>5, <1>6
<1>9. \A t \in S : to[t] \in Known
  <2> SUFFICES ASSUME NEW t \in S PROVE to[t] \in Known
    OBVIOUS
  <2>1. mined[t] # 0 /\ t \in Transfers
    BY <1>5, <1>6, <1>1
  <2> QED BY <1>5, <2>1 DEF ScanInv, Ours
<1> QED BY <1>2, <1>4, <1>5, <1>7, <1>8, <1>9, PlaceHolds

\* A block becomes final: nothing of a final block is waited for by anybody.
LEMMA SolidifyHolds == ASSUME ScanInv, Solidify PROVE ScanInv'
<1>1. head \in Nat /\ solid \in Nat /\ Overlap \in Nat /\ cursor \in Int /\ solid' = solid + 1 /\ solid < head
  BY ScannerAssumption DEF ScanInv, ScannerTypeOK, Blocks, NoCursor, Solidify
<1>2. UNCHANGED <<custodyVars, head, mined, ok, dest, reorgs, recordVars, scanVars, looked, ended>>
  BY DEF Solidify
<1>3. ScannerTypeOK'
  BY <1>1, <1>2 DEF ScanInv, ScannerTypeOK, custodyVars, recordVars, scanVars, CustodyTypeOK, Addresses
<1>4. CustodyInv'
  BY <1>2 DEF ScanInv, CustodyInv, CustodyTypeOK, OneHolder, Open, custodyVars
<1>5. Behind' /\ Passed'
  BY <1>1, <1>2 DEF ScanInv, Behind, Passed, scanVars, recordVars
<1>6. RunsSound'
  <2> SUFFICES ASSUME NEW r \in Runs PROVE RunSound(r)'
    BY DEF RunsSound
  <2>1. RunSound(r) /\ run[r].to \in Int
    BY DEF ScanInv, RunsSound, ScannerTypeOK, Reading, Blocks
  <2> QED BY <1>1, <1>2, <2>1 DEF RunSound, scanVars, recordVars
<1>7. Watching' /\ Ours' /\ ClaimsBacked' /\ Asked'
  BY <1>2 DEF ScanInv, Watching, WatchList, Watched, Ours, ClaimsBacked, Asked, custodyVars, recordVars, scanVars, Known, Addresses
<1>8. ConfirmedIsFinal'
  <2> SUFFICES ASSUME NEW t \in Transfers, rec[t] = "CONFIRMED" PROVE Final(t)' /\ ok[t]
    BY <1>2 DEF ConfirmedIsFinal, recordVars
  <2>1. Final(t) /\ ok[t] /\ mined[t] \in Nat
    BY DEF ScanInv, ConfirmedIsFinal, ScannerTypeOK, Blocks
  <2> QED BY <1>1, <1>2, <2>1 DEF Final
<1> QED BY <1>3, <1>4, <1>5, <1>6, <1>7, <1>8 DEF ScanInv

-----------------------------------------------------------------------------
(* The runs. *)

\* A run begins: what it will not read is recorded, set aside, or another run's.
LEMMA BeginHolds == ASSUME ScanInv, NEW r \in Runs, Begin(r) PROVE ScanInv'
<1>1. PICK h \in Greatest(0, head - Lag) .. head :
       LET at   == IF cursor = NoCursor THEN Greatest(h - Lookback, 0) ELSE cursor
           from == Greatest(at - Overlap, 0)
           to   == Least(h, from + Window)
       IN  /\ cursor' = at
           /\ run' = [run EXCEPT ![r] = [busy |-> TRUE, from |-> from,
                                        to |-> to, left |-> WatchList, proven |-> to, work |-> 0, todo |-> {}]]
           /\ unwatched' = unwatched \cup {t \in Transfers : /\ cursor = NoCursor /\ rec[t] = "NONE"
                                                            /\ 0 < mined[t] /\ mined[t] < from}
  BY DEF Begin
<1> DEFINE at   == IF cursor = NoCursor THEN Greatest(h - Lookback, 0) ELSE cursor
           from == Greatest(at - Overlap, 0)
           to   == Least(h, from + Window)
<1>2. head \in Nat /\ head <= MaxBlock /\ solid \in Nat /\ solid <= head /\ head - solid <= Overlap
      /\ Overlap \in Nat /\ Lag \in Nat /\ Lookback \in Nat /\ Window \in Nat /\ MaxBlock \in Nat /\ Budget \in Nat
  BY ScannerAssumption DEF ScanInv, ScannerTypeOK, Blocks, Behind
<1>3. h \in Nat /\ h <= head
  BY <1>2 DEF Greatest
<1>4. cursor \in Blocks \cup {NoCursor} /\ cursor - Overlap <= solid
  BY DEF ScanInv, ScannerTypeOK, Behind
<1>5. at \in Blocks /\ at - Overlap <= solid /\ (cursor # NoCursor => at = cursor)
  BY <1>2, <1>3, <1>4 DEF Greatest, Blocks, NoCursor
<1> HIDE DEF at
<1>6. from \in Blocks /\ (from = 0 \/ from = at - Overlap) /\ (\A n \in Nat : n # 0 /\ n < at - Overlap => n < from)
  BY <1>2, <1>5 DEF Greatest, Blocks
<1> HIDE DEF from
<1>7. to \in Blocks /\ to - Overlap <= solid
  BY <1>2, <1>3, <1>6 DEF Least, Blocks
<1> HIDE DEF to
<1>8. /\ cursor' = at
      /\ run' = [run EXCEPT ![r] = [busy |-> TRUE, from |-> from,
                                    to |-> to, left |-> WatchList, proven |-> to, work |-> 0, todo |-> {}]]
      /\ unwatched' = unwatched \cup {t \in Transfers : cursor = NoCursor /\ rec[t] = "NONE" /\ 0 < mined[t] /\ mined[t] < from}
      /\ UNCHANGED <<custodyVars, chainVars, rec, claim, absent, late, looked, ended>>
  BY <1>1 DEF Begin, at, from, to
<1>9. WatchList \subseteq Known
  BY DEF WatchList, Watched, Known
<1>10. run' \in [Runs -> Reading]
  BY <1>2, <1>6, <1>7, <1>8, <1>9 DEF ScanInv, ScannerTypeOK, Reading
<1>11. ScannerTypeOK'
  BY <1>5, <1>8, <1>10 DEF ScanInv, ScannerTypeOK, custodyVars, chainVars, CustodyTypeOK, Addresses
<1>12. CustodyInv'
  BY <1>8 DEF ScanInv, CustodyInv, CustodyTypeOK, OneHolder, Open, custodyVars
<1>13. Behind'
  BY <1>2, <1>5, <1>8 DEF Behind, chainVars
<1>14. Watching' /\ Ours' /\ ConfirmedIsFinal' /\ ClaimsBacked'
  BY <1>8 DEF ScanInv, Watching, WatchList, Watched, Ours, ConfirmedIsFinal, Final, ClaimsBacked, custodyVars, chainVars
<1>17. Asked'
  <2>1. \A q \in Runs : run'[q].todo = {} \/ run'[q] = run[q]
    BY <1>8 DEF ScanInv, ScannerTypeOK
  <2> QED BY <1>8, <2>1 DEF ScanInv, Asked, custodyVars, chainVars, Known, Addresses
<1>15. Passed'
  <2> SUFFICES ASSUME NEW t \in Transfers, t \notin unwatched', ok[t], mined[t] # 0, mined[t] < at - Overlap
               PROVE  rec[t] # "NONE"
    BY <1>8 DEF Passed, chainVars
  <2>1. mined[t] \in Nat
    BY DEF ScanInv, ScannerTypeOK, Blocks
  <2>2. CASE cursor = NoCursor
    BY <1>6, <1>8, <2>1, <2>2
  <2>3. CASE cursor # NoCursor
    BY <1>5, <1>8, <2>3 DEF ScanInv, Passed
  <2> QED BY <2>2, <2>3
<1>16. RunsSound'
  <2> SUFFICES ASSUME NEW q \in Runs PROVE RunSound(q)'
    BY DEF RunsSound
  <2>1. CASE q = r
    <3>1. run'[q] = [busy |-> TRUE, from |-> from, to |-> to, left |-> WatchList, proven |-> to, work |-> 0, todo |-> {}]
      BY <1>8, <2>1 DEF ScanInv, ScannerTypeOK
    <3>2. at # NoCursor
      BY <1>5, <1>2 DEF Blocks, NoCursor
    <3>3. \A t \in Transfers : t \notin unwatched' /\ mined[t] # 0 /\ dest[t] \notin WatchList => rec[t] # "NONE"
      BY <1>8 DEF ScanInv, Watching
    <3>4. to <= to /\ (from = 0 \/ from <= at - Overlap)
      BY <1>2, <1>5, <1>6, <1>7 DEF Blocks
    <3> QED BY <1>7, <1>8, <3>1, <3>2, <3>3, <3>4 DEF RunSound, chainVars
  <2>2. CASE q # r
    <3>1. run'[q] = run[q] /\ RunSound(q)
      BY <1>8, <2>2 DEF ScanInv, ScannerTypeOK, RunsSound
    <3>2. run[q].busy => cursor' = cursor
      BY <1>5, <1>8, <3>1 DEF RunSound
    <3> QED BY <1>8, <3>1, <3>2 DEF RunSound, chainVars
  <2> QED BY <2>1, <2>2
<1> QED BY <1>11, <1>12, <1>13, <1>14, <1>15, <1>16, <1>17 DEF ScanInv

\* A run ends without a trace.
LEMMA AbortHolds == ASSUME ScanInv, NEW r \in Runs, Abort(r) PROVE ScanInv'
<1>1. UNCHANGED <<custodyVars, chainVars, recordVars, cursor, looked, ended>> /\ run' = [run EXCEPT ![r] = IdleReading]
  BY DEF Abort
<1>2. IdleReading \in Reading /\ ~ IdleReading.busy /\ IdleReading.todo = {}
  BY ScannerAssumption DEF IdleReading, Reading, Blocks, Known
<1>3. ScannerTypeOK'
  BY <1>1, <1>2 DEF ScanInv, ScannerTypeOK, custodyVars, chainVars, recordVars, CustodyTypeOK, Addresses
<1>4. CustodyInv'
  BY <1>1 DEF ScanInv, CustodyInv, CustodyTypeOK, OneHolder, Open, custodyVars
<1>5. Behind' /\ Passed' /\ \A q \in Runs : run'[q] = run[q] => RunSound(q)'
  BY <1>1, StandStill DEF chainVars, recordVars
<1>6. RunsSound'
  <2> SUFFICES ASSUME NEW q \in Runs PROVE RunSound(q)'
    BY DEF RunsSound
  <2>1. CASE q = r
    <3>1. run'[q] = IdleReading
      BY <1>1, <2>1 DEF ScanInv, ScannerTypeOK
    <3> QED BY <1>2, <3>1 DEF RunSound
  <2>2. CASE q # r
    BY <1>1, <1>5, <2>2 DEF ScanInv, ScannerTypeOK
  <2> QED BY <2>1, <2>2
<1>7. Watching' /\ Ours' /\ ConfirmedIsFinal' /\ ClaimsBacked'
  BY <1>1 DEF ScanInv, Watching, WatchList, Watched, Ours, ConfirmedIsFinal, Final, ClaimsBacked, custodyVars, chainVars, recordVars
<1>8. Asked'
  <2>1. \A q \in Runs : run'[q].todo = {} \/ run'[q] = run[q]
    BY <1>1, <1>2 DEF ScanInv, ScannerTypeOK
  <2> QED BY <1>1, <2>1 DEF ScanInv, Asked, custodyVars, chainVars, Known, Addresses
<1> QED BY <1>3, <1>4, <1>5, <1>6, <1>7, <1>8 DEF ScanInv

\* The cursor moves as far as the run has proved.
LEMMA AdvanceHolds == ASSUME ScanInv, NEW r \in Runs, Advance(r) PROVE ScanInv'
<1>1. /\ UNCHANGED <<custodyVars, chainVars, recordVars, looked, ended>> /\ run' = [run EXCEPT ![r] = IdleReading]
      /\ run[r].busy /\ run[r].left = {} /\ cursor' = Greatest(cursor, run[r].proven)
      /\ \A t \in run[r].todo : rec[t] # "NONE"
  BY DEF Advance, Through
<1>2. IdleReading \in Reading /\ ~ IdleReading.busy /\ IdleReading.todo = {}
  BY ScannerAssumption DEF IdleReading, Reading, Blocks, Known
<1>3. /\ Overlap \in Nat /\ cursor \in Int /\ solid \in Nat
      /\ run[r].proven \in Int /\ run[r].to \in Int /\ run[r].from \in Nat
      /\ run[r].proven \in Blocks \cup {NoCursor} /\ cursor \in Blocks \cup {NoCursor}
      /\ \A t \in Transfers : mined[t] \in Nat
  BY ScannerAssumption DEF ScanInv, ScannerTypeOK, Reading, Blocks, NoCursor
<1>4. RunSound(r)
  BY DEF ScanInv, RunsSound
<1>5. cursor' \in Int /\ cursor <= cursor' /\ cursor' \in Blocks \cup {NoCursor} /\ (cursor' = cursor \/ cursor' = run[r].proven)
  BY <1>1, <1>3 DEF Greatest
<1>6. ScannerTypeOK'
  BY <1>1, <1>2, <1>5 DEF ScanInv, ScannerTypeOK, custodyVars, chainVars, recordVars, CustodyTypeOK, Addresses
<1>7. CustodyInv'
  BY <1>1 DEF ScanInv, CustodyInv, CustodyTypeOK, OneHolder, Open, custodyVars
<1>8. run[r].proven <= run[r].to /\ run[r].to - Overlap <= solid
  BY <1>1, <1>4 DEF RunSound
<1>9. Behind'
  BY <1>1, <1>3, <1>5, <1>8 DEF ScanInv, Behind, chainVars
<1>10. Passed'
  <2> SUFFICES ASSUME NEW t \in Transfers, t \notin unwatched, ok[t], mined[t] # 0, mined[t] < cursor' - Overlap
               PROVE  rec[t] # "NONE"
    BY <1>1 DEF Passed, chainVars, recordVars
  <2>1. CASE mined[t] < cursor - Overlap
    BY <2>1 DEF ScanInv, Passed
  <2>2. CASE ~ (mined[t] < cursor - Overlap)
    <3>1. cursor' = run[r].proven
      BY <1>5, <2>2
    <3>2. run[r].from <= mined[t]
      BY <1>1, <1>3, <1>4, <2>2 DEF RunSound
    <3>3. mined[t] <= run[r].proven /\ mined[t] <= run[r].to - Overlap
      BY <1>3, <1>8, <3>1
    <3> QED BY <1>1, <1>4, <3>2, <3>3 DEF RunSound
  <2> QED BY <2>1, <2>2
<1>11. RunsSound'
  <2> SUFFICES ASSUME NEW q \in Runs PROVE RunSound(q)'
    BY DEF RunsSound
  <2>1. CASE q = r
    <3>1. run'[q] = IdleReading
      BY <1>1, <2>1 DEF ScanInv, ScannerTypeOK
    <3> QED BY <1>2, <3>1 DEF RunSound
  <2>2. CASE q # r
    <3>1. run'[q] = run[q] /\ RunSound(q) /\ run[q].from \in Nat
      BY <1>1, <2>2 DEF ScanInv, ScannerTypeOK, RunsSound, Reading, Blocks
    <3>2. run[q].busy => cursor' # NoCursor /\ (run[q].from = 0 \/ run[q].from <= cursor' - Overlap)
      BY <1>3, <1>5, <3>1 DEF RunSound, NoCursor, Blocks
    <3> QED BY <1>1, <3>1, <3>2 DEF RunSound, chainVars, recordVars
  <2> QED BY <2>1, <2>2
<1>12. Watching' /\ Ours' /\ ConfirmedIsFinal' /\ ClaimsBacked'
  BY <1>1 DEF ScanInv, Watching, WatchList, Watched, Ours, ConfirmedIsFinal, Final, ClaimsBacked, custodyVars, chainVars, recordVars
<1>13. Asked'
  <2>1. \A q \in Runs : run'[q].todo = {} \/ run'[q] = run[q]
    BY <1>1, <1>2 DEF ScanInv, ScannerTypeOK
  <2> QED BY <1>1, <2>1 DEF ScanInv, Asked, custodyVars, chainVars, Known, Addresses
<1> QED BY <1>6, <1>7, <1>9, <1>10, <1>11, <1>12, <1>13 DEF ScanInv

\* What the providers answer is on the chain, and all there is as far as they vouch for.
LEMMA Answered ==
  ASSUME ScanInv, NEW a, NEW from \in Blocks, NEW to \in Blocks, NEW x \in Reads(a, from, to)
  PROVE  /\ x.seen \subseteq InWindow(a, from, to) /\ x.proven \in Blocks \cup {-1}
         /\ \A t \in Transfers : dest[t] = a /\ mined[t] # 0 /\ ok[t] /\ from <= mined[t] /\ mined[t] <= x.proven
              => t \in x.seen
<1>1. /\ x \in ReadAnswers(a, from, to) /\ InWindow(a, from, x.proven) \subseteq x.seen
  BY DEF Reads
<1>2. PICK S \in SUBSET InWindow(a, from, to), p \in {from - 1, to} \cup {mined[t] : t \in InWindow(a, from, to)} :
        x = [seen |-> S, proven |-> p]
  BY <1>1 DEF ReadAnswers
<1>3. x.seen = S /\ x.proven = p
  BY <1>2
<1>4. MaxBlock \in Nat
  BY ScannerAssumption
<1>5. p \in Blocks \cup {-1}
  <2>1. from - 1 \in Blocks \cup {-1}
    BY <1>4 DEF Blocks
  <2>2. \A t \in InWindow(a, from, to) : mined[t] \in Blocks
    BY DEF InWindow, ScanInv, ScannerTypeOK
  <2> QED BY <2>1, <2>2
<1>6. \A t \in Transfers : dest[t] = a /\ mined[t] # 0 /\ ok[t] /\ from <= mined[t] /\ mined[t] <= x.proven
        => t \in InWindow(a, from, x.proven)
  BY DEF InWindow
<1> QED BY <1>1, <1>3, <1>5, <1>6

\* Out of its budget, a run has proved the blocks before the first it left out.
LEMMA FirstLeft ==
  ASSUME NEW rest, rest # {}, \A t \in rest : mined[t] \in Blocks /\ mined[t] # 0
  PROVE  LET first == CHOOSE b \in {mined[t] - 1 : t \in rest} : \A t \in rest : b < mined[t]
         IN  first \in Blocks /\ \A t \in rest : first < mined[t]
<1> DEFINE M == {mined[t] : t \in rest}
           B == {mined[t] - 1 : t \in rest}
<1>0. MaxBlock \in Nat
  BY ScannerAssumption
<1>1. M \in SUBSET Nat /\ M # {}
  BY DEF Blocks
<1>2. PICK m \in M : \A n \in M : m <= n
  <2> HIDE DEF M
  <2> QED BY <1>1, LeastIn
<1>3. m - 1 \in B /\ \A t \in rest : m - 1 < mined[t]
  <2>1. \A t \in rest : m <= mined[t] /\ mined[t] \in Nat /\ m \in Nat
    BY <1>1, <1>2
  <2> QED BY <1>2, <2>1
<1>4. \A b \in B : b \in Blocks
  BY <1>0 DEF Blocks
<1> DEFINE first == CHOOSE b \in B : \A t \in rest : b < mined[t]
<1>5. first \in B /\ \A t \in rest : first < mined[t]
  <2> HIDE DEF B
  <2> QED BY <1>3
<1> QED BY <1>4, <1>5

\* Who is read as the holder of an address has it, and has not let go of it.
LEMMA HolderHolds ==
  ASSUME NEW b, HolderOf(b) # Nobody
  PROVE  HolderOf(b) \in Subjects \ released /\ assigned[HolderOf(b)] = b
<1>1. Open(b) # {} /\ HolderOf(b) = CHOOSE s \in Open(b) : TRUE
  BY DEF HolderOf, Holder
<1>2. HolderOf(b) \in Open(b)
  BY <1>1
<1> QED BY <1>2 DEF Open

\* A command reads the assignment of an address of ours.
LEMMA LookUpHolds == ASSUME ScanInv, NEW t \in Transfers, LookUp(t) PROVE ScanInv'
<1> DEFINE c == [t |-> t, who |-> HolderOf(dest[t])]
<1>1. looked' = looked \cup {c} /\ UNCHANGED <<custodyVars, chainVars, recordVars, scanVars, ended>>
  BY DEF LookUp
<1>2. dest[t] \in Known
  BY DEF LookUp, ToRecord, ScanInv, Asked
<1>3. c.t = t /\ (c.who # Nobody => c.who \in Subjects /\ assigned[c.who] = dest[c.t]) /\ c \in LookUps
  BY HolderHolds DEF LookUps
<1> HIDE DEF c
<1>4. ScannerTypeOK'
  BY <1>1, <1>3 DEF ScanInv, ScannerTypeOK, custodyVars, chainVars, recordVars, scanVars, CustodyTypeOK, Addresses
<1>5. CustodyInv'
  BY <1>1 DEF ScanInv, CustodyInv, CustodyTypeOK, OneHolder, Open, custodyVars
<1>6. Behind' /\ Passed' /\ RunsSound'
  BY <1>1, RunsStandStill DEF chainVars, recordVars, scanVars
<1>7. Watching' /\ Ours' /\ ConfirmedIsFinal' /\ ClaimsBacked'
  BY <1>1 DEF ScanInv, Watching, WatchList, Watched, Ours, ConfirmedIsFinal, Final, ClaimsBacked, custodyVars, chainVars, recordVars
<1>8. Asked'
  BY <1>1, <1>2, <1>3 DEF ScanInv, Asked, custodyVars, chainVars, scanVars, Known, Addresses
<1> QED BY <1>4, <1>5, <1>6, <1>7, <1>8 DEF ScanInv

\* It writes: for who had the address when it was read, or for nobody.
LEMMA RecordDepositHolds == ASSUME ScanInv, NEW c \in looked, RecordDeposit(c) PROVE ScanInv'
<1>1. /\ UNCHANGED <<custodyVars, chainVars, scanVars, ended, absent>> /\ looked' = looked \ {c}
      /\ c.t \in Transfers /\ dest[c.t] \in Known
      /\ c.who # Nobody => c.who \in Subjects /\ assigned[c.who] = dest[c.t]
  BY DEF RecordDeposit, recordVars, ScanInv, Asked
<1>2. \A t \in Transfers :
        \/ rec'[t] = rec[t] /\ claim'[t] = claim[t]
        \/ /\ t = c.t /\ rec[t] = "NONE" /\ rec'[t] = "DETECTED" /\ claim'[t] \in {c.who, Nobody}
           /\ claim'[t] \in Trades \cap ended => t \in late'
  <2>1. CASE rec[c.t] # "NONE"
    BY <2>1 DEF RecordDeposit, recordVars
  <2>2. CASE rec[c.t] = "NONE"
    <3>1. PICK s \in PaysFor(c.who) : claim' = [claim EXCEPT ![c.t] = s]
      BY <2>2 DEF RecordDeposit
    <3>2. /\ rec' = [rec EXCEPT ![c.t] = "DETECTED"]
          /\ late' = IF c.who \in Trades \cap ended THEN late \cup {c.t} ELSE late
      BY <2>2 DEF RecordDeposit
    <3>3. s \in {c.who, Nobody} /\ (s \in Trades \cap ended => s = c.who \/ s = Nobody)
      BY <3>1 DEF PaysFor
    <3>4. Nobody \notin Trades
      BY CustodyAssumption, ScannerAssumption
    <3>5. rec \in [Transfers -> {"NONE", "DETECTED", "CONFIRMED", "FAILED", "ORPHANED"}] /\ claim \in [Transfers -> Subjects \cup {Nobody}]
      BY DEF ScanInv, ScannerTypeOK
    <3> QED BY <1>1, <2>2, <3>1, <3>2, <3>3, <3>4, <3>5
  <2> QED BY <2>1, <2>2
<1>3. \A t \in Transfers : /\ t \notin unwatched' /\ rec'[t] = "NONE" => t \notin unwatched /\ rec[t] = "NONE"
                           /\ t \in late => t \in late'
  BY DEF RecordDeposit, recordVars, ScanInv, ScannerTypeOK
<1>4. ScannerTypeOK'
  <2>1. /\ rec' \in [Transfers -> {"NONE", "DETECTED", "CONFIRMED", "FAILED", "ORPHANED"}]
        /\ unwatched' \subseteq Transfers /\ late' \subseteq Transfers /\ looked' \subseteq LookUps
    BY <1>1 DEF RecordDeposit, recordVars, ScanInv, ScannerTypeOK
  <2>2. claim' \in [Transfers -> Subjects \cup {Nobody}]
    BY <1>1 DEF RecordDeposit, PaysFor, recordVars, ScanInv, ScannerTypeOK
  <2> QED BY <1>1, <2>1, <2>2 DEF ScanInv, ScannerTypeOK, custodyVars, chainVars, scanVars, CustodyTypeOK, Addresses
<1>5. CustodyInv'
  BY <1>1 DEF ScanInv, CustodyInv, CustodyTypeOK, OneHolder, Open, custodyVars
<1>6. Behind' /\ Passed' /\ RunsSound'
  BY <1>1, <1>3, RunsStandStill DEF chainVars, scanVars
<1>7. Watching' /\ ConfirmedIsFinal'
  BY <1>1, <1>2, <1>3 DEF ScanInv, Watching, WatchList, Watched, ConfirmedIsFinal, Final, custodyVars, chainVars
<1>8. Ours' /\ Asked'
  BY <1>1, <1>2 DEF ScanInv, Ours, Asked, custodyVars, chainVars, scanVars, Known, Addresses
<1>9. ClaimsBacked'
  <2> SUFFICES ASSUME NEW t \in Transfers, claim'[t] # Nobody
               PROVE  /\ rec'[t] # "NONE" /\ assigned[claim'[t]] = dest[t]
                      /\ claim'[t] \in Trades => rec'[t] \in {"DETECTED", "CONFIRMED"}
                      /\ claim'[t] \in Trades \cap ended /\ rec'[t] = "DETECTED" => t \in late'
    BY <1>1 DEF ClaimsBacked, custodyVars, chainVars
  <2>1. CASE rec'[t] = rec[t] /\ claim'[t] = claim[t]
    BY <1>3, <2>1 DEF ScanInv, ClaimsBacked
  <2>2. CASE ~ (rec'[t] = rec[t] /\ claim'[t] = claim[t])
    BY <1>1, <1>2, <2>2
  <2> QED BY <2>1, <2>2
<1> QED BY <1>4, <1>5, <1>6, <1>7, <1>8, <1>9 DEF ScanInv

\* Or it ends without a trace.
LEMMA GiveUpHolds == ASSUME ScanInv, NEW c \in looked, GiveUp(c) PROVE ScanInv'
<1>1. looked' \subseteq looked /\ UNCHANGED <<custodyVars, chainVars, recordVars, scanVars, ended>>
  BY DEF GiveUp
<1>2. ScannerTypeOK'
  BY <1>1 DEF ScanInv, ScannerTypeOK, custodyVars, chainVars, recordVars, scanVars, CustodyTypeOK, Addresses
<1>3. CustodyInv'
  BY <1>1 DEF ScanInv, CustodyInv, CustodyTypeOK, OneHolder, Open, custodyVars
<1>4. Behind' /\ Passed' /\ RunsSound'
  BY <1>1, RunsStandStill DEF chainVars, recordVars, scanVars
<1>5. Watching' /\ Ours' /\ ConfirmedIsFinal' /\ ClaimsBacked'
  BY <1>1 DEF ScanInv, Watching, WatchList, Watched, Ours, ConfirmedIsFinal, Final, ClaimsBacked, custodyVars, chainVars, recordVars
<1>6. Asked'
  BY <1>1 DEF ScanInv, Asked, custodyVars, chainVars, scanVars, Known, Addresses
<1> QED BY <1>2, <1>3, <1>4, <1>5, <1>6 DEF ScanInv

LEMMA ReadHolds == ASSUME ScanInv, NEW r \in Runs, NEW a \in Known, Read(r, a) PROVE ScanInv'
<1> DEFINE y == run[r]
<1>1. PICK x \in Reads(a, y.from, y.to) : \E N \in FirstNew(x, Budget - y.work) :
       run' = [run EXCEPT ![r] = IF N # New(x) THEN Stopped(@, a, x, N) ELSE WentOn(@, a, x, N)]
  BY DEF Read
<1>2. PICK N \in FirstNew(x, Budget - y.work) :
       run' = [run EXCEPT ![r] = IF N # New(x) THEN Stopped(@, a, x, N) ELSE WentOn(@, a, x, N)]
  BY <1>1
<1>3. /\ a \in y.left /\ \A t \in y.todo : rec[t] # "NONE"
      /\ UNCHANGED <<custodyVars, chainVars, recordVars, cursor, looked, ended>>
  BY DEF Read, Through
<1>4. y \in Reading /\ RunSound(r) /\ Budget \in Nat /\ MaxBlock \in Nat
  BY ScannerAssumption DEF ScanInv, ScannerTypeOK, RunsSound
<1>5. y.from \in Blocks /\ y.to \in Blocks /\ y.left \in SUBSET Known /\ y.proven \in Blocks \cup {-1} /\ y.work \in 0 .. Budget
      /\ y.busy \in BOOLEAN /\ y.todo \in SUBSET Transfers
  BY <1>4 DEF Reading
<1> HIDE DEF y
<1>6. /\ x.seen \subseteq InWindow(a, y.from, y.to) /\ x.proven \in Blocks \cup {-1}
      /\ \A t \in Transfers : dest[t] = a /\ mined[t] # 0 /\ ok[t] /\ y.from <= mined[t] /\ mined[t] <= x.proven
           => t \in x.seen
  BY <1>1, <1>5, Answered
<1>7. \A t \in x.seen : t \in Transfers /\ dest[t] = a /\ mined[t] # 0 /\ mined[t] \in Blocks
  BY <1>6 DEF InWindow, ScanInv, ScannerTypeOK
<1>8. /\ N \subseteq New(x) /\ New(x) \subseteq x.seen
      /\ Cardinality(N) = Least(Cardinality(New(x)), Budget - y.work)
      /\ \A t \in Transfers : t \in New(x) <=> t \in x.seen /\ rec[t] = "NONE"
  BY <1>7 DEF FirstNew, New
\* What the run has become.
<1> DEFINE z == run'[r]
<1>9. z = IF N # New(x) THEN Stopped(y, a, x, N) ELSE WentOn(y, a, x, N)
  BY <1>2 DEF ScanInv, ScannerTypeOK, y
<1>10. \A q \in Runs : q # r => run'[q] = run[q]
  BY <1>2 DEF ScanInv, ScannerTypeOK
<1> HIDE DEF z
\* The last block proved is before all that is left out.
<1>11. /\ z \in Reading /\ z.busy = y.busy /\ z.from = y.from /\ z.to = y.to /\ z.proven <= y.proven /\ z.proven <= x.proven
       /\ z.todo = N
       /\ N = New(x) => z.left = y.left \ {a}
       /\ N # New(x) => /\ z.left = {}
                        /\ z.proven < y.from \/ (y.left = {a} /\ \A t \in New(x) \ N : z.proven < mined[t])
  <2>1. CASE N = New(x)
    <3>1. Least(y.proven, x.proven) \in Blocks \cup {-1} /\ Least(y.proven, x.proven) <= y.proven /\ Least(y.proven, x.proven) <= x.proven
      BY <1>4, <1>5, <1>6 DEF Least, Blocks
    <3>2. y.work + Cardinality(N) \in 0 .. Budget
      <4>1. IsFiniteSet(N)
        BY <1>7, <1>8, ScannerAssumption, FS_Subset
      <4>2. Cardinality(N) \in Nat
        BY <4>1, FS_CardinalityType
      <4>3. Cardinality(N) <= Budget - y.work
        BY <1>4, <1>5, <1>8, <2>1, <4>2 DEF Least
      <4> QED BY <1>4, <1>5, <4>2, <4>3
    <3>3. z = [y EXCEPT !.left = y.left \ {a}, !.proven = Least(y.proven, x.proven), !.work = y.work + Cardinality(N),
                        !.todo = N]
      BY <1>9, <2>1 DEF WentOn
    <3>4. N \in SUBSET Transfers
      BY <1>7, <1>8
    <3> QED BY <1>4, <1>5, <2>1, <3>1, <3>2, <3>3, <3>4 DEF Reading
  <2>2. CASE N # New(x)
    <3> DEFINE rest == New(x) \ N
               first == CHOOSE b \in {mined[t] - 1 : t \in rest} : \A t \in rest : b < mined[t]
               p == Least(Least(y.proven, x.proven), IF y.left = {a} THEN first ELSE y.from - 1)
    <3>1. rest # {} /\ \A t \in rest : mined[t] \in Blocks /\ mined[t] # 0
      BY <1>7, <1>8, <2>2
    <3>2. first \in Blocks /\ \A t \in rest : first < mined[t]
      <4> HIDE DEF rest
      <4> QED BY <3>1, FirstLeft, Zenon
    <3>3. z = [y EXCEPT !.left = {}, !.todo = N, !.proven = p]
      BY <1>9, <2>2 DEF Stopped
    <3> HIDE DEF first
    <3>4. /\ p \in Blocks \cup {-1} /\ p <= y.proven /\ p <= x.proven
          /\ p < y.from \/ (y.left = {a} /\ p <= first)
      BY <1>4, <1>5, <1>6, <3>2 DEF Least, Blocks
    <3> HIDE DEF p, rest
    <3>7. N \in SUBSET Transfers
      BY <1>7, <1>8
    <3>5. z \in Reading /\ z.busy = y.busy /\ z.from = y.from /\ z.to = y.to /\ z.proven = p /\ z.left = {} /\ z.todo = N
      BY <1>4, <1>5, <3>3, <3>4, <3>7 DEF Reading
    <3>6. \A t \in rest : p <= first => p < mined[t]
      BY <1>4, <3>1, <3>2, <3>4 DEF Blocks
    <3> QED BY <2>2, <3>4, <3>5, <3>6 DEF rest
  <2> QED BY <2>1, <2>2
<1>12. run' \in [Runs -> Reading]
  <2>1. \A q \in Runs : run'[q] \in Reading
    BY <1>10, <1>11 DEF z, ScanInv, ScannerTypeOK
  <2> QED BY <1>2, <2>1 DEF ScanInv, ScannerTypeOK
<1>13. N \in SUBSET Transfers /\ \A t \in N : dest[t] \in Known
  BY <1>7, <1>8
<1>14. ScannerTypeOK' /\ CustodyInv' /\ ClaimsBacked' /\ Ours' /\ Watching' /\ ConfirmedIsFinal' /\ Asked'
  <2>1. ScannerTypeOK'
    BY <1>3, <1>12 DEF ScanInv, ScannerTypeOK, custodyVars, chainVars, recordVars, CustodyTypeOK, Addresses
  <2>2. CustodyInv'
    BY <1>3 DEF ScanInv, CustodyInv, CustodyTypeOK, OneHolder, Open, custodyVars
  <2>3. Watching' /\ Ours' /\ ConfirmedIsFinal' /\ ClaimsBacked'
    BY <1>3 DEF ScanInv, Watching, WatchList, Watched, Ours, ConfirmedIsFinal, Final, ClaimsBacked, custodyVars, chainVars, recordVars
  <2>4. \A q \in Runs : run'[q].todo = N \/ run'[q] = run[q]
    BY <1>10, <1>11 DEF z
  <2>5. Asked'
    BY <1>3, <1>13, <2>4 DEF ScanInv, Asked, custodyVars, chainVars, Known, Addresses
  <2> QED BY <2>1, <2>2, <2>3, <2>5
<1>15. Behind' /\ Passed' /\ \A q \in Runs : run'[q] = run[q] => RunSound(q)'
  BY <1>3, StandStill DEF chainVars, recordVars
<1>16. RunSound(r)'
  <2> SUFFICES ASSUME z.busy PROVE
         /\ z.proven <= z.to /\ z.to - Overlap <= solid
         /\ cursor # NoCursor /\ (z.from = 0 \/ z.from <= cursor - Overlap)
         /\ \A t \in Transfers :
              /\ t \notin unwatched /\ ok[t] /\ mined[t] # 0 /\ dest[t] \notin z.left
              /\ z.from <= mined[t] /\ mined[t] <= z.proven /\ mined[t] <= z.to - Overlap
              => rec[t] # "NONE" \/ t \in z.todo
    BY <1>3 DEF RunSound, z, chainVars, recordVars
  <2>1. /\ y.proven <= y.to /\ y.to - Overlap <= solid
        /\ cursor # NoCursor /\ (y.from = 0 \/ y.from <= cursor - Overlap)
        /\ \A t \in Transfers :
             /\ t \notin unwatched /\ ok[t] /\ mined[t] # 0 /\ dest[t] \notin y.left
             /\ y.from <= mined[t] /\ mined[t] <= y.proven /\ mined[t] <= y.to - Overlap
             => rec[t] # "NONE"
    BY <1>3, <1>4, <1>11 DEF RunSound, y
  <2>2. y.proven \in Int /\ x.proven \in Int /\ z.proven \in Int /\ y.to \in Int /\ y.from \in Int
    BY <1>5, <1>6, <1>11 DEF Reading, Blocks
  <2>3. ASSUME NEW t \in Transfers, t \notin unwatched, ok[t], mined[t] # 0, dest[t] \notin z.left,
               y.from <= mined[t], mined[t] <= z.proven, mined[t] <= y.to - Overlap, rec[t] = "NONE", t \notin N
        PROVE  FALSE
    <3>0. mined[t] \in Nat
      BY DEF ScanInv, ScannerTypeOK, Blocks
    <3>1. mined[t] <= y.proven /\ mined[t] <= x.proven /\ ~ (z.proven < y.from)
      BY <1>11, <2>2, <2>3, <3>0
    <3>3. dest[t] \in y.left
      BY <2>1, <2>3, <3>1
    <3>4. dest[t] = a
      BY <1>11, <2>3, <3>1, <3>3
    <3>5. t \in New(x)
      BY <1>6, <1>8, <2>3, <3>1, <3>4
    <3>6. z.proven < mined[t]
      BY <1>11, <2>3, <3>1, <3>5
    <3> QED BY <2>2, <2>3, <3>0, <3>6
  <2>4. z.proven <= z.to
    BY <1>11, <2>1, <2>2
  <2> QED BY <1>11, <2>1, <2>3, <2>4
<1>17. RunsSound'
  <2> SUFFICES ASSUME NEW q \in Runs PROVE RunSound(q)'
    BY DEF RunsSound
  <2>1. CASE q = r
    BY <1>16, <2>1
  <2>2. CASE q # r
    BY <1>10, <1>15, <2>2
  <2> QED BY <2>1, <2>2
<1> QED BY <1>14, <1>15, <1>17 DEF ScanInv

-----------------------------------------------------------------------------
LEMMA ScannerStarts == ScannerInit => ScanInv
<1> SUFFICES ASSUME ScannerInit PROVE ScanInv
  OBVIOUS
<1>1. MaxBlock \in Nat /\ Overlap \in Nat /\ Budget \in Nat /\ MaxReorgs \in Nat
  BY ScannerAssumption
<1>2. IdleReading \in Reading /\ ~ IdleReading.busy
  BY ScannerAssumption DEF IdleReading, Reading, Blocks, Known
<1>3. CustodyTypeOK
  BY DEF ScannerInit, CustodyInit, CustodyTypeOK
<1>4. ScannerTypeOK
  BY <1>1, <1>2, <1>3 DEF ScannerInit, ScannerTypeOK, Blocks
<1>5. CustodyInv
  <2>1. \A a \in Addresses : Open(a) = {}
    BY ScannerAssumption DEF ScannerInit, CustodyInit, Open
  <2> QED BY <1>3, <2>1 DEF ScannerInit, CustodyInit, CustodyInv, OneHolder
<1>6. ClaimsBacked /\ Ours /\ Watching /\ ConfirmedIsFinal /\ Passed /\ Behind
  BY <1>1 DEF ScannerInit, ClaimsBacked, Ours, Watching, ConfirmedIsFinal, Passed, Behind, NoCursor
<1>8. Asked
  BY DEF ScannerInit, Asked, IdleReading
<1>7. RunsSound
  BY <1>2 DEF ScannerInit, RunsSound, RunSound
<1> QED BY <1>4, <1>5, <1>6, <1>7, <1>8 DEF ScanInv

LEMMA ScannerSteps == ScanInv /\ [ScannerNext]_scannerVars => ScanInv'
<1> SUFFICES ASSUME ScanInv, [ScannerNext]_scannerVars PROVE ScanInv'
  OBVIOUS
<1>1. CASE World
  BY <1>1, MineHolds, ReorganiseHolds, SolidifyHolds DEF World
<1>2. CASE Custom
  BY <1>2, TakeAddressHolds, LeaveWatchHolds, EndingHolds DEF Custom
<1>3. CASE \E r \in Runs : Scan(r)
  <2>1. PICK r \in Runs : Scan(r)
    BY <1>3
  <2> QED BY <2>1, BeginHolds, ReadHolds, AdvanceHolds, AbortHolds DEF Scan
<1>4. CASE \E t \in Transfers : FollowUp(t)
  BY <1>4, FollowUpHolds
<1>6. CASE Recording
  BY <1>6, LookUpHolds, RecordDepositHolds, GiveUpHolds DEF Recording
<1>5. CASE UNCHANGED scannerVars
  <2>1. UNCHANGED <<custodyVars, chainVars, recordVars, scanVars, looked, ended>>
    BY <1>5 DEF scannerVars
  <2>2. ScannerTypeOK'
    BY <2>1 DEF ScanInv, ScannerTypeOK, custodyVars, chainVars, recordVars, scanVars, CustodyTypeOK, Addresses
  <2>3. CustodyInv'
    BY <2>1 DEF ScanInv, CustodyInv, CustodyTypeOK, OneHolder, Open, custodyVars
  <2>4. Behind' /\ Passed' /\ RunsSound'
    BY <2>1, RunsStandStill DEF chainVars, recordVars, scanVars
  <2>5. Watching' /\ Ours' /\ ConfirmedIsFinal' /\ ClaimsBacked' /\ Asked'
    BY <2>1 DEF ScanInv, Watching, WatchList, Watched, Ours, ConfirmedIsFinal, Final, ClaimsBacked, Asked, custodyVars, chainVars, recordVars, scanVars, Known, Addresses
  <2> QED BY <2>2, <2>3, <2>4, <2>5 DEF ScanInv
<1> QED BY <1>1, <1>2, <1>3, <1>4, <1>5, <1>6 DEF ScannerNext

\* What is confirmed nobody takes back, one action after the other.
LEMMA ConfirmedKept ==
  ASSUME ScanInv, ScanInv', [ScannerNext]_scannerVars, NEW t \in Transfers, rec[t] = "CONFIRMED"
  PROVE  rec'[t] = "CONFIRMED" /\ claim'[t] = claim[t]
<1>1. CASE World
  BY <1>1 DEF World, Mine, Reorganise, Solidify, Place, recordVars
<1>2. CASE Custom
  <2>1. CASE TakeAddress \/ LeaveWatch
    BY <2>1 DEF TakeAddress, LeaveWatch, recordVars
  <2>2. ASSUME NEW s \in Subjects, Ending(s) PROVE rec'[t] = "CONFIRMED" /\ claim'[t] = claim[t]
    BY <2>2 DEF Ending, CancelTrade, CompleteTrade, CancelObligation, CloseDelivery, Detached, recordVars
  <2> QED BY <1>2, <2>1, <2>2 DEF Custom
<1>3. CASE \E r \in Runs : Scan(r)
  BY <1>3, ZenonT(60) DEF Scan, Begin, Read, Advance, Abort, recordVars
<1>4. CASE \E u \in Transfers : FollowUp(u)
  BY <1>4 DEF FollowUp, Confirm, Unclaim, AskAbsent, Orphan, Orphanable, LetGo, ScanInv, ScannerTypeOK
<1>6. CASE Recording
  BY <1>6 DEF Recording, LookUp, RecordDeposit, GiveUp, recordVars, ScanInv, ScannerTypeOK
<1>5. CASE UNCHANGED scannerVars
  BY <1>5 DEF scannerVars, recordVars
<1> QED BY <1>1, <1>2, <1>3, <1>4, <1>5, <1>6 DEF ScannerNext

\* What is recorded, or being recorded, for who has let go of its address.
LEMMA NothingGained ==
  ASSUME ScanInv, [ScannerNext]_scannerVars, NEW s \in released
  PROVE  Touching(s)' \subseteq Touching(s)
<1>0. s \in Subjects /\ s # Nobody /\ \A c \in looked : c \in LookUps
  BY CustodyAssumption DEF ScanInv, ScannerTypeOK, CustodyTypeOK
<1>1. ASSUME looked' \subseteq looked, \A t \in Transfers : claim'[t] \in {claim[t], Nobody}
      PROVE  Touching(s)' \subseteq Touching(s)
  BY <1>0, <1>1 DEF Touching
<1>2. CASE World
  BY <1>1, <1>2 DEF World, Mine, Reorganise, Solidify, Place, recordVars
<1>3. CASE Custom
  <2>1. CASE TakeAddress \/ LeaveWatch
    BY <1>1, <2>1 DEF TakeAddress, LeaveWatch, recordVars
  <2>2. ASSUME NEW u \in Subjects, Ending(u) PROVE Touching(s)' \subseteq Touching(s)
    BY <1>1, <2>2 DEF Ending, CancelTrade, CompleteTrade, CancelObligation, CloseDelivery, Detached, recordVars
  <2> QED BY <1>3, <2>1, <2>2 DEF Custom
<1>4. CASE \E r \in Runs : Scan(r)
  <2>1. UNCHANGED <<claim, looked>>
    BY <1>4, ZenonT(60) DEF Scan, Begin, Read, Advance, Abort, recordVars
  <2> QED BY <1>1, <2>1
<1>5. CASE \E u \in Transfers : FollowUp(u)
  BY <1>1, <1>5 DEF FollowUp, Confirm, Unclaim, AskAbsent, Orphan, Orphanable, LetGo, ScanInv, ScannerTypeOK
<1>6. CASE \E u \in Transfers : LookUp(u)
  <2>1. PICK u \in Transfers : looked' = looked \cup {[t |-> u, who |-> HolderOf(dest[u])]} /\ claim' = claim
    BY <1>6 DEF LookUp, recordVars
  <2>2. HolderOf(dest[u]) # s
    BY <1>0, HolderHolds
  <2> QED BY <2>1, <2>2 DEF Touching
<1>7. ASSUME NEW c \in looked, RecordDeposit(c) PROVE Touching(s)' \subseteq Touching(s)
  <2>1. looked' \subseteq looked
    BY <1>7 DEF RecordDeposit
  <2>2. \A t \in Transfers : claim'[t] \in {claim[t], Nobody} \/ (t = c.t /\ claim'[t] = c.who)
    BY <1>7 DEF RecordDeposit, PaysFor, recordVars, ScanInv, ScannerTypeOK
  <2>3. c = [t |-> c.t, who |-> c.who]
    BY <1>0 DEF LookUps
  <2> QED BY <1>0, <2>1, <2>2, <2>3 DEF Touching
<1>8. ASSUME NEW c \in looked, GiveUp(c) PROVE Touching(s)' \subseteq Touching(s)
  BY <1>1, <1>8 DEF GiveUp, recordVars
<1>9. CASE UNCHANGED scannerVars
  BY <1>1, <1>9 DEF scannerVars, recordVars
<1> QED BY <1>2, <1>3, <1>4, <1>5, <1>6, <1>7, <1>8, <1>9 DEF ScannerNext, Recording

\* What custody, the chain, the records and the runs keep, in every state.
THEOREM ScannerInvariant == ScannerSpec => []ScanInv
  BY ScannerStarts, ScannerSteps, PTL DEF ScannerSpec

\* A transfer pays only for who was given the address it went to, an address has one holder,
\* and a cancelled trade keeps no unconfirmed money but what a command recorded that had read
\* its address before (custody.ts:163, cancel.ts:38, firstleg.ts:122-167), for any
\* addresses, subjects, runs and commands.
THEOREM ClaimsOwned == ScannerSpec => []ClaimsAreOwn
<1>1. ScanInv => ClaimsAreOwn
  BY DEF ScanInv, CustodyInv, ClaimsBacked, ClaimsAreOwn
<1> QED BY ScannerInvariant, <1>1, PTL

\* Who has let go of its address gains nothing more from it (firstleg.ts:127), however many
\* commands read it before and whoever holds it next.
THEOREM NothingAfterRelease == ScannerSpec => ReleasedGainsNothing
<1>1. ScanInv /\ [ScannerNext]_scannerVars => [\A s \in released : Touching(s)' \subseteq Touching(s)]_scannerVars
  BY NothingGained
<1> QED BY ScannerInvariant, <1>1, PTL DEF ScannerSpec, ReleasedGainsNothing

\* No final transfer at a watched address is passed (scan.ts:136), whatever the window,
\* the budget and the overlap, however many runs, and whichever provider answered what.
THEOREM NoneIsPassed == ScannerSpec => []NothingPassed
<1>1. ScanInv => NothingPassed
  BY DEF ScanInv, Passed, NothingPassed, Final
<1> QED BY ScannerInvariant, <1>1, PTL

\* Confirmed money stays (movements.ts:203): no sweep, no reorganisation takes it back.
THEOREM ConfirmedForGood == ScannerSpec => ConfirmedStays
<1>1. ScanInv /\ ScanInv' /\ [ScannerNext]_scannerVars =>
        [\A t \in Transfers : rec[t] = "CONFIRMED" =>
           rec'[t] = "CONFIRMED" /\ claim'[t] = claim[t] /\ Final(t)' /\ ok'[t]]_scannerVars
  <2> SUFFICES ASSUME ScanInv, ScanInv', [ScannerNext]_scannerVars, NEW t \in Transfers, rec[t] = "CONFIRMED"
               PROVE  rec'[t] = "CONFIRMED" /\ claim'[t] = claim[t] /\ Final(t)' /\ ok'[t]
    OBVIOUS
  <2>1. rec'[t] = "CONFIRMED" /\ claim'[t] = claim[t]
    BY ConfirmedKept
  <2> QED BY <2>1 DEF ScanInv, ConfirmedIsFinal, Final
<1> QED BY ScannerInvariant, <1>1, PTL DEF ScannerSpec, ConfirmedStays
===============================================================================
