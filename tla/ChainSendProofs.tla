---------------------------- MODULE ChainSendProofs ----------------------------
(***************************************************************************)
(* That a send never pays twice, for any number of workers, providers,     *)
(* transactions and mishaps.  The records, the chain and what a worker has *)
(* read are kept together by one inductive invariant: what a stale worker  *)
(* holds is still true of the chain, because a solidified block stays.     *)
(***************************************************************************)
EXTENDS ChainSend, FiniteSetTheorems, TLAPS

\* Transactions of a send are signed in order, none left out.
InOrder == \A s \in Sends : Signed(s) = 1 .. Cardinality(Signed(s))

\* One transaction of a send at most is undecided or was paid.
OpenOrPaid(t) == attempt[t] \in Undecided \cup {"CONFIRMED"}
OneOpen == \A t, u \in Txs : t[1] = u[1] /\ OpenOrPaid(t) /\ OpenOrPaid(u) => t = u

\* The send's status says which of the two that one is.
SendSays ==
  /\ \A t \in Txs : /\ Live(t) => send[t[1]] = "SENDING"
                    /\ attempt[t] = "CONFIRMED" => send[t[1]] = "CONFIRMED"
  /\ \A s \in Sends : send[s] = "SENDING" => \E t \in Txs : t[1] = s /\ Live(t)

\* What the chain did to a transaction, against what the records say of it.
ChainSays ==
  \A t \in Txs :
    /\ attempt[t] = "NONE" => chain[t] = [known |-> FALSE, fate |-> "OPEN", solid |-> {}]
    /\ chain[t].solid # {} => chain[t].fate # "OPEN"
    /\ attempt[t] = "CONFIRMED" => chain[t].fate = "LANDED" /\ chain[t].solid # {}
    /\ attempt[t] = "FAILED" => chain[t].fate = "REVERTED" /\ chain[t].solid # {}
    /\ attempt[t] = "EXPIRED" => chain[t].fate = "LAPSED" /\ chain[t].solid # {}

\* What a worker read of its transaction stays true until it acts on it.
JobSound(j) ==
  /\ j.task \notin {"IDLE", "PREPARE"} => attempt[j.tx] # "NONE"
  /\ j.task = "SETTLE" => Final(j.tx)
  /\ j.clear \subseteq j.heads /\ j.heads \subseteq chain[j.tx].solid
  /\ j.clear # {} => chain[j.tx].fate = "LAPSED"
WorkSound == \A w \in Workers : JobSound(work[w])

\* The leg goes with its send, and is completed by a transfer only.
LegSays ==
  /\ leg = "PENDING" => send["PAYOUT"] = "NONE"
  /\ leg = "COMPLETED" => \E n \in Signed("PAYOUT") : attempt[<<"PAYOUT", n>>] = "CONFIRMED"

\* A send that goes on has attempts left.
MayGoOn == \A s \in Sends : send[s] \notin {"BLOCKED", "CANCELLED"} => failed[s] < MaxFailed

IInv ==
  /\ TypeOK /\ InOrder /\ OneOpen /\ SendSays
  /\ ChainSays /\ WorkSound /\ LegSays /\ MayGoOn

-----------------------------------------------------------------------------
LEMMA TxInTxs == ASSUME NEW s \in Sends, NEW n \in 1 .. MaxAttempts[s] PROVE <<s, n>> \in Txs
  BY BoundsAssumption DEF Txs, Seqs

LEMMA TxParts == ASSUME NEW t \in Txs
                 PROVE t[1] \in Sends /\ t[2] \in 1 .. MaxAttempts[t[1]] /\ t = <<t[1], t[2]>>
  BY BoundsAssumption DEF Txs, Seqs

LEMMA SignedCount == ASSUME NEW s \in Sends PROVE Cardinality(Signed(s)) \in Nat
<1>1. IsFiniteSet(1 .. MaxAttempts[s])
  BY FS_Interval, BoundsAssumption
<1>2. Signed(s) \in SUBSET (1 .. MaxAttempts[s])
  BY DEF Signed
<1>3. IsFiniteSet(Signed(s))
  BY <1>1, <1>2, FS_Subset
<1> QED BY <1>3, FS_CardinalityType

\* The next transaction of a send is a new one.
LEMMA NextIsNew ==
  ASSUME TypeOK, InOrder, NEW s \in Sends,
         Cardinality(Signed(s)) + 1 <= MaxAttempts[s]
  PROVE  /\ Cardinality(Signed(s)) + 1 \in 1 .. MaxAttempts[s]
         /\ attempt[<<s, Cardinality(Signed(s)) + 1>>] = "NONE"
<1>1. Cardinality(Signed(s)) \in Nat /\ MaxAttempts[s] \in Nat
  BY SignedCount, BoundsAssumption
<1>2. Cardinality(Signed(s)) + 1 \notin Signed(s)
  BY <1>1 DEF InOrder
<1> QED
  BY <1>1, <1>2 DEF Signed

\* Signing it leaves no gap.
LEMMA SignedNext ==
  ASSUME TypeOK, InOrder, NEW s \in Sends,
         Cardinality(Signed(s)) + 1 <= MaxAttempts[s],
         attempt' = [attempt EXCEPT ![<<s, Cardinality(Signed(s)) + 1>>] = "SIGNED"]
  PROVE  InOrder'
<1> DEFINE k == Cardinality(Signed(s))
<1>1. k + 1 \in 1 .. MaxAttempts[s] /\ <<s, k + 1>> \in Txs
  BY NextIsNew, TxInTxs
<1>2. k \in Nat
  BY SignedCount
<1>3. SUFFICES ASSUME NEW r \in Sends PROVE Signed(r)' = 1 .. Cardinality(Signed(r)')
  BY DEF InOrder
<1>4. CASE r = s
  <2>1. Signed(s)' = 1 .. k + 1
    <3>1. \A n \in 1 .. MaxAttempts[s] : attempt'[<<s, n>>] = IF n = k + 1 THEN "SIGNED" ELSE attempt[<<s, n>>]
      BY <1>1, TxInTxs DEF TypeOK
    <3>2. \A n \in 1 .. MaxAttempts[s] : n \in Signed(s)' <=> n \in Signed(s) \/ n = k + 1
      <4> HIDE DEF k
      <4> QED BY <3>1 DEF Signed
    <3>3. Signed(s)' \subseteq 1 .. MaxAttempts[s] /\ Signed(s) \subseteq 1 .. MaxAttempts[s]
      BY DEF Signed
    <3>4. Signed(s) = 1 .. k
      BY DEF InOrder
    <3> HIDE DEF k
    <3>5. \A n : n \in Signed(s)' <=> n \in 1 .. k + 1
      BY <1>1, <1>2, <3>2, <3>3, <3>4
    <3> QED BY <3>5
  <2>2. Cardinality(1 .. k + 1) = k + 1
    BY <1>2, FS_Interval
  <2> QED BY <1>4, <2>1, <2>2
<1>5. CASE r # s
  <2>1. \A n \in 1 .. MaxAttempts[r] : attempt'[<<r, n>>] = attempt[<<r, n>>]
    BY <1>1, <1>5, TxInTxs DEF TypeOK
  <2>2. Signed(r)' = Signed(r)
    BY <2>1 DEF Signed
  <2> QED BY <2>2 DEF InOrder
<1> QED BY <1>4, <1>5

\* No other change of a signed transaction's record makes one.
LEMMA SameSigned ==
  ASSUME TypeOK, InOrder, NEW t \in Txs, NEW status \in AttemptStatuses \ {"NONE"},
         attempt[t] # "NONE", attempt' = [attempt EXCEPT ![t] = status]
  PROVE  InOrder'
<1>1. \A u \in Txs : attempt'[u] = "NONE" <=> attempt[u] = "NONE"
  BY DEF TypeOK
<1>2. \A s \in Sends : Signed(s)' = Signed(s)
  BY <1>1, TxInTxs DEF Signed
<1> QED BY <1>2 DEF InOrder

LEMMA InitHolds == Init => IInv
<1> SUFFICES ASSUME Init PROVE IInv
  OBVIOUS
<1>1. <<"PAYOUT", 1>> \in Txs
  BY TxInTxs, BoundsAssumption DEF Sends
<1>2. TypeOK
  <2>1. Job("IDLE", <<"PAYOUT", 1>>) \in Work
    BY <1>1 DEF Job, Work, Tasks
  <2>2. [known |-> FALSE, fate |-> "OPEN", solid |-> {}] \in Fact
    BY DEF Fact, Fates
  <2>3. /\ 0 \in 0 .. MaxFailed /\ 0 \in 0 .. MaxMishaps
        /\ leg \in LegStatuses /\ "NONE" \in SendStatuses /\ "NONE" \in AttemptStatuses
    BY BoundsAssumption DEF Init, LegStatuses, SendStatuses, AttemptStatuses
  <2> QED BY <2>1, <2>2, <2>3 DEF Init, TypeOK
<1>3. InOrder
  <2>1. \A s \in Sends : Signed(s) = {}
    BY TxInTxs DEF Init, Signed
  <2> QED BY <2>1, FS_EmptySet DEF InOrder
<1>4. OneOpen /\ SendSays /\ ChainSays /\ LegSays
  BY DEF Init, OneOpen, OpenOrPaid, SendSays, Live, Undecided, ChainSays, LegSays, Sends
<1>5. WorkSound /\ MayGoOn
  BY BoundsAssumption DEF Init, WorkSound, JobSound, Job, MayGoOn
<1> QED BY <1>2, <1>3, <1>4, <1>5 DEF IInv

-----------------------------------------------------------------------------
(* Steps on the statuses of leg and sends alone: none begins or ends a       *)
(* transfer, so what is known of transactions and workers goes unchanged.    *)

Settled == {"SENDING", "CONFIRMED"}

LEMMA StatusesOnly ==
  ASSUME IInv, UNCHANGED <<attempt, chain>>,
         \A s \in Sends : send'[s] = send[s] \/ (send[s] \notin Settled /\ send'[s] \notin Settled)
  PROVE  InOrder' /\ OneOpen' /\ SendSays' /\ ChainSays'
<1>1. \A s \in Sends : Signed(s)' = Signed(s)
  BY DEF Signed
<1>2. InOrder' /\ OneOpen' /\ ChainSays'
  BY <1>1 DEF IInv, InOrder, OneOpen, OpenOrPaid, ChainSays
<1>3. SendSays'
  BY TxParts DEF IInv, SendSays, Live, Settled
<1> QED BY <1>2, <1>3

LEMMA PeopleKeep == IInv /\ People => IInv'
<1> SUFFICES ASSUME IInv, People PROVE IInv'
  OBVIOUS
<1> USE DEF Closed
<1>1. UNCHANGED <<attempt, work, chain>>
  BY DEF People, SendLeg, ApproveSend, UnblockSend, CancelPayoutSend, CancelTopup, FailLegLooks, FailLeg,
         OpenHold, CloseHold, RaiseFence, LiftFence, Mishap
<1>2. WorkSound'
  BY <1>1 DEF IInv, WorkSound, JobSound, Final
<1>3. ASSUME TypeOK', LegSays', MayGoOn',
             \A s \in Sends : send'[s] = send[s] \/ (send[s] \notin Settled /\ send'[s] \notin Settled)
      PROVE  IInv'
  BY <1>1, <1>2, <1>3, StatusesOnly DEF IInv
<1>4. ASSUME NEW status \in {"AWAITING_APPROVAL", "PLANNED"}, SendLeg(status) PROVE IInv'
  BY <1>3, <1>4 DEF SendLeg, IInv, TypeOK, LegSays, MayGoOn, Signed, Settled, Sends, LegStatuses, SendStatuses
<1>5. ASSUME NEW s \in Sends, ApproveSend(s) PROVE IInv'
  BY <1>3, <1>5 DEF ApproveSend, IInv, TypeOK, LegSays, MayGoOn, Signed, Settled, SendStatuses
<1>6. ASSUME NEW s \in Sends, UnblockSend(s) PROVE IInv'
  BY <1>3, <1>6, BoundsAssumption DEF UnblockSend, IInv, TypeOK, LegSays, MayGoOn, Signed, Settled, SendStatuses
<1>7. CASE CancelPayoutSend
  BY <1>3, <1>7 DEF CancelPayoutSend, IInv, TypeOK, LegSays, MayGoOn, Signed, Settled, Sends, LegStatuses, SendStatuses
<1>8. CASE CancelTopup
  BY <1>3, <1>8 DEF CancelTopup, IInv, TypeOK, LegSays, MayGoOn, Signed, Settled, Sends, SendStatuses
<1>9. CASE FailLegLooks \/ FailLeg \/ OpenHold \/ CloseHold \/ RaiseFence \/ LiftFence
  <2>1. leg' \in LegStatuses /\ hold' \in BOOLEAN /\ held' \in BOOLEAN /\ failing' \in BOOLEAN
    BY <1>9 DEF FailLegLooks, FailLeg, OpenHold, CloseHold, RaiseFence, LiftFence, IInv, TypeOK, LegStatuses
  <2>2. send' = send /\ failed' = failed /\ leg' \in {leg, "FAILED"}
    BY <1>9 DEF FailLegLooks, FailLeg, OpenHold, CloseHold, RaiseFence, LiftFence, Mishap
  <2>3. mishaps' \in 0 .. MaxMishaps
    BY <1>9, BoundsAssumption
    DEF FailLegLooks, FailLeg, OpenHold, CloseHold, RaiseFence, LiftFence, Mishap, IInv, TypeOK
  <2>4. LegSays' /\ MayGoOn' /\ TypeOK'
    BY <1>1, <2>1, <2>2, <2>3 DEF IInv, LegSays, MayGoOn, Signed, TypeOK
  <2> QED BY <1>3, <2>2, <2>4
<1> QED
  BY <1>4, <1>5, <1>6, <1>7, <1>8, <1>9 DEF People

LEMMA ReplanKeeps ==
  ASSUME IInv, ResumeFuelled \/ \E s \in Sends : RetryBlocked(s)
  PROVE  IInv'
<1>1. PICK s \in Sends : /\ send[s] \in {"AWAITING_RESOURCES", "BLOCKED"} /\ failed[s] < MaxFailed
                         /\ send' = [send EXCEPT ![s] = "PLANNED"]
  BY DEF ResumeFuelled, RetryBlocked, IInv, MayGoOn, Sends
<1>2. UNCHANGED <<leg, failed, attempt, hold, held, failing, work, chain, mishaps>>
  BY DEF ResumeFuelled, RetryBlocked
<1>3. TypeOK' /\ LegSays' /\ MayGoOn'
  BY <1>1, <1>2 DEF IInv, TypeOK, LegSays, MayGoOn, Signed, SendStatuses
<1>4. WorkSound'
  BY <1>2 DEF IInv, WorkSound, JobSound, Final
<1>5. InOrder' /\ OneOpen' /\ SendSays' /\ ChainSays'
  BY <1>1, <1>2, StatusesOnly DEF IInv, TypeOK, Settled
<1> QED BY <1>3, <1>4, <1>5 DEF IInv

-----------------------------------------------------------------------------
(* What workers hold.                                                        *)

\* Nothing a worker relies on is taken back: a signed transaction stays signed,
\* a solidified block stays and the fate it settles with it.
StillTrue ==
  \A t \in Txs :
    /\ attempt[t] # "NONE" => attempt'[t] # "NONE"
    /\ chain[t].solid \subseteq chain'[t].solid
    /\ chain[t].solid # {} => chain'[t].fate = chain[t].fate

LEMMA JobStaysSound ==
  ASSUME StillTrue, NEW j \in Work, JobSound(j)
  PROVE  JobSound(j)'
<1>1. j.tx \in Txs
  BY DEF Work
<1>2. (j.task = "SETTLE" => Final(j.tx))'
  BY <1>1 DEF StillTrue, JobSound, Final
<1> QED BY <1>1, <1>2 DEF StillTrue, JobSound

LEMMA WorkersKeep ==
  ASSUME TypeOK, WorkSound, StillTrue, work' = work
  PROVE  WorkSound'
  BY JobStaysSound DEF TypeOK, WorkSound

LEMMA WorkerTurns ==
  ASSUME TypeOK, WorkSound, StillTrue, NEW w \in Workers, NEW j \in Work,
         work' = [work EXCEPT ![w] = j], JobSound(j)'
  PROVE  work' \in [Workers -> Work] /\ WorkSound'
<1>1. \A v \in Workers : work'[v] = IF v = w THEN j ELSE work[v]
  BY DEF TypeOK
<1>2. \A v \in Workers : work[v] \in Work /\ JobSound(work[v])
  BY DEF TypeOK, WorkSound
<1>3. ASSUME NEW v \in Workers PROVE JobSound(work[v])'
  <2> PICK i \in Work : i = work'[v]
    BY <1>1, <1>2
  <2>1. JobSound(i)'
    BY <1>1, <1>2, JobStaysSound
  <2> QED BY <2>1 DEF JobSound
<1>4. work' \in [Workers -> Work]
  BY DEF TypeOK
<1> QED BY <1>3, <1>4 DEF WorkSound

LEMMA JobType == ASSUME NEW task \in Tasks, NEW t \in Txs PROVE Job(task, t) \in Work
  BY DEF Job, Work

\* A worker that is done holds nothing.
LEMMA WorkerDone ==
  ASSUME TypeOK, WorkSound, StillTrue, NEW w \in Workers, Done(w)
  PROVE  work' \in [Workers -> Work] /\ WorkSound'
<1> PICK j \in Work : j = Job("IDLE", work[w].tx)
  BY JobType DEF TypeOK, Work, Tasks
<1>1. JobSound(j)'
  BY DEF JobSound, Job
<1> QED BY <1>1, WorkerTurns DEF Done, Turn

\* A worker that takes up a signed transaction, other than to settle it, has
\* read nothing of it yet.
LEMMA WorkerTakes ==
  ASSUME TypeOK, WorkSound, StillTrue, NEW w \in Workers, NEW t \in Txs,
         NEW task \in {"PREPARE", "CHECK", "DELIVER", "NOTE", "SETTLE", "PROVE"}, Turn(w, task, t),
         task # "PREPARE" => attempt'[t] # "NONE",
         task = "SETTLE" => Final(t)'
  PROVE  work' \in [Workers -> Work] /\ WorkSound'
<1> PICK j \in Work : j = Job(task, t)
  BY JobType DEF Tasks
<1>1. JobSound(j)'
  BY DEF JobSound, Job, Final
<1> QED BY <1>1, WorkerTurns DEF Turn

\* Steps that change nothing but what a worker holds.
LEMMA HandsOnly ==
  ASSUME IInv, UNCHANGED <<leg, send, failed, attempt, chain>>,
         hold' \in BOOLEAN, held' \in BOOLEAN, failing' \in BOOLEAN, mishaps' \in 0 .. MaxMishaps,
         work' \in [Workers -> Work] /\ WorkSound'
  PROVE  IInv'
<1>1. InOrder' /\ OneOpen' /\ SendSays' /\ ChainSays'
  BY StatusesOnly
<1> QED BY <1>1 DEF IInv, TypeOK, LegSays, MayGoOn, Signed

LEMMA HandsSound ==
  ASSUME IInv, UNCHANGED <<attempt, chain>> PROVE StillTrue
  BY DEF StillTrue

LEMMA PrepareKeeps == ASSUME IInv, NEW w \in Workers, NEW s \in Sends, Prepare(w, s) PROVE IInv'
<1>1. PICK n \in 1 .. MaxAttempts[s] : Turn(w, "PREPARE", <<s, n>>)
  BY DEF Prepare
<1>2. UNCHANGED <<leg, send, failed, attempt, hold, held, failing, chain, mishaps>>
  BY DEF Prepare
<1>3. work' \in [Workers -> Work] /\ WorkSound'
  BY <1>1, <1>2, TxInTxs, WorkerTakes, HandsSound DEF IInv
<1> QED BY <1>2, <1>3, HandsOnly DEF IInv, TypeOK

LEMMA FollowKeeps == ASSUME IInv, NEW w \in Workers, NEW t \in Txs, Follow(w, t) PROVE IInv'
<1>1. PICK task \in {"SETTLE", "PROVE", "CHECK"} : Turn(w, task, t) /\ (task = "SETTLE" => Final(t))
  BY DEF Follow
<1>2. UNCHANGED <<leg, send, failed, attempt, hold, held, failing, chain, mishaps>> /\ attempt[t] # "NONE"
  BY DEF Follow, Followed, Live, Undecided
<1>3. Final(t) => Final(t)'
  BY <1>2 DEF Final
<1>4. work' \in [Workers -> Work] /\ WorkSound'
  BY <1>1, <1>2, <1>3, WorkerTakes, HandsSound DEF IInv
<1> QED BY <1>2, <1>4, HandsOnly DEF IInv, TypeOK

\* Steps by which a worker gives up what it was doing.
LEMMA GivesUp ==
  ASSUME IInv, NEW w \in Workers, SignRefused(w) \/ NotProved(w) \/ Crash(w)
  PROVE  IInv'
<1>1. Done(w) /\ UNCHANGED <<leg, send, failed, attempt, hold, held, failing, chain>>
  BY DEF SignRefused, NotProved, Crash
<1>2. mishaps' \in 0 .. MaxMishaps
  BY BoundsAssumption DEF SignRefused, NotProved, Crash, Mishap, IInv, TypeOK
<1>3. work' \in [Workers -> Work] /\ WorkSound'
  BY <1>1, WorkerDone, HandsSound DEF IInv
<1> QED BY <1>1, <1>2, <1>3, HandsOnly DEF IInv, TypeOK

LEMMA CheckKeeps == ASSUME IInv, NEW w \in Workers, CheckBroadcast(w) PROVE IInv'
<1>1. UNCHANGED <<leg, send, failed, attempt, hold, held, failing, chain, mishaps>>
  BY DEF CheckBroadcast
<1>2. work[w].tx \in Txs /\ attempt[work[w].tx] # "NONE"
  BY DEF CheckBroadcast, IInv, TypeOK, Work, WorkSound, JobSound
<1>3. work' \in [Workers -> Work] /\ WorkSound'
  <2>1. CASE Turn(w, "DELIVER", work[w].tx)
    <3> PICK t \in Txs : t = work[w].tx
      BY <1>2
    <3> QED BY <1>1, <1>2, <2>1, WorkerTakes, HandsSound DEF IInv
  <2>2. CASE Done(w)
    BY <1>1, <2>2, WorkerDone, HandsSound DEF IInv
  <2> QED BY <2>1, <2>2 DEF CheckBroadcast
<1> QED BY <1>1, <1>3, HandsOnly DEF IInv, TypeOK

\* The proof of expiry: what it has read so far holds on the chain.
LEMMA ReadHeadKeeps ==
  ASSUME IInv, NEW w \in Workers, NEW p \in Providers, ReadHead(w, p) PROVE IInv'
<1>1. UNCHANGED <<leg, send, failed, attempt, hold, held, failing, chain, mishaps>>
  BY DEF ReadHead
<1> PICK j : j = [work[w] EXCEPT !.heads = @ \cup {p}]
  OBVIOUS
<1>2. work[w] \in Work /\ JobSound(work[w])
  BY DEF IInv, TypeOK, WorkSound
<1>3. j \in Work /\ work' = [work EXCEPT ![w] = j]
  BY <1>2 DEF Work, ReadHead
<1>4. JobSound(j)'
  <2>1. /\ j.task = work[w].task /\ j.tx = work[w].tx /\ j.clear = work[w].clear
        /\ j.heads = work[w].heads \cup {p} /\ p \in chain[j.tx].solid
    BY <1>2 DEF Work, ReadHead
  <2>2. j.task = "PROVE"
    BY <2>1 DEF ReadHead
  <2> QED BY <1>1, <1>2, <2>1, <2>2 DEF JobSound
<1>5. work' \in [Workers -> Work] /\ WorkSound'
  BY <1>1, <1>3, <1>4, WorkerTurns, HandsSound DEF IInv
<1> QED BY <1>1, <1>5, HandsOnly DEF IInv, TypeOK

LEMMA ReadAnswerKeeps ==
  ASSUME IInv, NEW w \in Workers, NEW p \in Providers, ReadAnswer(w, p) PROVE IInv'
<1>1. UNCHANGED <<leg, send, failed, attempt, hold, held, failing, chain, mishaps>>
  BY DEF ReadAnswer
<1> PICK j : j = [work[w] EXCEPT !.clear = @ \cup {p}]
  OBVIOUS
<1>2. work[w] \in Work /\ JobSound(work[w])
  BY DEF IInv, TypeOK, WorkSound
<1>3. j \in Work /\ work' = [work EXCEPT ![w] = j]
  BY <1>2 DEF Work, ReadAnswer
<1>4. JobSound(j)'
  <2>1. /\ j.task = work[w].task /\ j.tx = work[w].tx /\ j.heads = work[w].heads
        /\ j.clear = work[w].clear \cup {p} /\ p \in work[w].heads
    BY <1>2 DEF Work, ReadAnswer, MayAsk
  <2>2. j.task = "PROVE" /\ j.tx \in Txs
    BY <2>1, <1>2 DEF ReadAnswer, Work
  <2>3. p \in chain[j.tx].solid
    BY <1>2, <2>1 DEF JobSound
  <2>4. chain[j.tx].fate \notin {"LANDED", "REVERTED", "OPEN"}
    BY <2>1, <2>2, <2>3 DEF ReadAnswer, NotFound, IInv, ChainSays
  <2>5. chain[j.tx].fate = "LAPSED"
    BY <2>2, <2>4 DEF IInv, TypeOK, Fact, Fates
  <2> QED BY <1>1, <1>2, <2>1, <2>2, <2>5 DEF JobSound
<1>5. work' \in [Workers -> Work] /\ WorkSound'
  BY <1>1, <1>3, <1>4, WorkerTurns, HandsSound DEF IInv
<1> QED BY <1>1, <1>5, HandsOnly DEF IInv, TypeOK

-----------------------------------------------------------------------------
(* Steps that sign a transaction or decide one.                              *)

\* A decision, or the word that a provider took it, about the one undecided
\* transaction of a send.
LEMMA DecidedOnce ==
  ASSUME TypeOK, OneOpen, SendSays, NEW t \in Txs, Live(t),
         NEW status \in {"BROADCAST", "CONFIRMED", "FAILED", "EXPIRED"}, NEW then,
         attempt' = [attempt EXCEPT ![t] = status],
         send' = [send EXCEPT ![t[1]] = then],
         status = "BROADCAST" => then = "SENDING",
         status = "CONFIRMED" => then = "CONFIRMED",
         status \in {"FAILED", "EXPIRED"} => then \notin Settled
  PROVE  OneOpen' /\ SendSays'
<1>1. \A u \in Txs : attempt'[u] = IF u = t THEN status ELSE attempt[u]
  BY DEF TypeOK
<1>2. \A s \in Sends : send'[s] = IF s = t[1] THEN then ELSE send[s]
  BY DEF TypeOK
<1>3. \A u \in Txs : u[1] = t[1] /\ OpenOrPaid(u) => u = t
  BY DEF OneOpen, OpenOrPaid, Live
<1>4. OneOpen'
  BY <1>1, <1>3 DEF OneOpen, OpenOrPaid, Live, Undecided
<1>5. \A u \in Txs : u[1] \in Sends
  BY TxParts
<1>6. (\A u \in Txs : /\ Live(u) => send[u[1]] = "SENDING"
                      /\ attempt[u] = "CONFIRMED" => send[u[1]] = "CONFIRMED")'
  BY <1>1, <1>2, <1>3, <1>5 DEF SendSays, Live, Undecided, OpenOrPaid
<1>7. ASSUME NEW s \in Sends, send'[s] = "SENDING" PROVE \E u \in Txs : u[1] = s /\ Live(u)'
  <2>1. CASE s = t[1]
    <3>1. attempt'[t] = "BROADCAST"
      BY <1>1, <1>2, <1>7, <2>1 DEF Settled
    <3> QED BY <3>1, <2>1 DEF Live, Undecided
  <2>2. CASE s # t[1]
    <3>1. PICK u \in Txs : u[1] = s /\ Live(u)
      BY <1>2, <1>7, <2>2 DEF SendSays
    <3>2. attempt'[u] = attempt[u]
      BY <1>1, <2>2, <3>1
    <3> QED BY <3>1, <3>2 DEF Live
  <2> QED BY <2>1, <2>2
<1> QED BY <1>4, <1>6, <1>7 DEF SendSays

\* What it says agrees with the chain, and the parts no decision disturbs.
LEMMA DecidedKeeps ==
  ASSUME IInv, NEW t \in Txs, Live(t),
         NEW status \in {"BROADCAST", "CONFIRMED", "FAILED", "EXPIRED"},
         attempt' = [attempt EXCEPT ![t] = status], chain' = chain,
         status # "BROADCAST" => chain[t].solid # {},
         status = "CONFIRMED" => chain[t].fate = "LANDED",
         status = "FAILED" => chain[t].fate = "REVERTED",
         status = "EXPIRED" => chain[t].fate = "LAPSED"
  PROVE  InOrder' /\ ChainSays' /\ StillTrue /\ attempt' \in [Txs -> AttemptStatuses]
<1>1. \A u \in Txs : attempt'[u] = IF u = t THEN status ELSE attempt[u]
  BY DEF IInv, TypeOK
<1>2. attempt[t] # "NONE" /\ status \in AttemptStatuses \ {"NONE"}
  BY DEF Live, Undecided, AttemptStatuses
<1>3. InOrder'
  BY <1>2, SameSigned DEF IInv
<1>4. ChainSays'
  BY <1>1 DEF IInv, ChainSays
<1>5. StillTrue
  BY <1>1 DEF StillTrue
<1>6. attempt' \in [Txs -> AttemptStatuses]
  BY <1>2 DEF IInv, TypeOK
<1> QED BY <1>3, <1>4, <1>5, <1>6

LEMMA SignKeeps == ASSUME IInv, NEW w \in Workers, Sign(w) PROVE IInv'
<1> PICK s \in Sends : s = work[w].tx[1]
  BY TxParts DEF IInv, TypeOK, Work
<1> PICK n : n = Cardinality(Signed(s)) + 1
  OBVIOUS
<1>1. /\ n <= MaxAttempts[s] /\ send[s] = "PLANNED"
      /\ s = "PAYOUT" => leg = "PROCESSING"
      /\ send' = [send EXCEPT ![s] = "SENDING"]
      /\ attempt' = [attempt EXCEPT ![<<s, n>>] = "SIGNED"]
      /\ Turn(w, "CHECK", <<s, n>>)
      /\ UNCHANGED <<leg, failed, hold, held, failing, chain, mishaps>>
  BY DEF Sign, MaySign
<1>2. n \in 1 .. MaxAttempts[s] /\ attempt[<<s, n>>] = "NONE"
  BY <1>1, NextIsNew DEF IInv
<1> PICK t \in Txs : t = <<s, n>>
  BY <1>2, TxInTxs
<1>3. \A u \in Txs : attempt'[u] = IF u = t THEN "SIGNED" ELSE attempt[u]
  BY <1>1 DEF IInv, TypeOK
<1>4. InOrder'
  BY <1>1, SignedNext DEF IInv
<1>5. \A u \in Txs : u[1] = s => ~OpenOrPaid(u)
  BY <1>1 DEF IInv, SendSays, OpenOrPaid, Live
<1>6. OneOpen'
  BY <1>3, <1>5 DEF IInv, OneOpen, OpenOrPaid
<1>7. SendSays'
  <2>1. \A r \in Sends : send'[r] = IF r = s THEN "SENDING" ELSE send[r]
    BY <1>1 DEF IInv, TypeOK
  <2>2. t[1] = s /\ Live(t)' /\ \A u \in Txs : u # t => attempt'[u] = attempt[u]
    BY <1>3 DEF Live, Undecided
  <2>3. (\A u \in Txs : /\ Live(u) => send[u[1]] = "SENDING"
                        /\ attempt[u] = "CONFIRMED" => send[u[1]] = "CONFIRMED")'
    BY <1>5, <2>1, <2>2, <1>3, TxParts DEF IInv, SendSays, Live, OpenOrPaid
  <2>4. ASSUME NEW r \in Sends, send'[r] = "SENDING", r # s
        PROVE  \E u \in Txs : u[1] = r /\ Live(u)'
    <3> PICK u \in Txs : u[1] = r /\ Live(u)
      BY <2>1, <2>4 DEF IInv, SendSays
    <3> QED BY <2>2, <2>4 DEF Live
  <2> QED BY <2>2, <2>3, <2>4 DEF SendSays
<1>8. ChainSays'
  BY <1>1, <1>2, <1>3 DEF IInv, ChainSays
<1>9. StillTrue
  BY <1>1, <1>2, <1>3 DEF StillTrue
<1>10. work' \in [Workers -> Work] /\ WorkSound'
  <2>1. attempt'[t] # "NONE"
    BY <1>3
  <2> QED BY <1>1, <1>9, <2>1, WorkerTakes DEF IInv
<1>11. TypeOK'
  <2>1. "SIGNED" \in AttemptStatuses /\ "SENDING" \in SendStatuses
    BY DEF AttemptStatuses, Undecided, SendStatuses
  <2> QED BY <1>1, <1>10, <2>1 DEF IInv, TypeOK
<1>12. LegSays'
  <2>1. leg = "PENDING" => send'["PAYOUT"] = "NONE"
    BY <1>1 DEF IInv, LegSays, TypeOK, Sends
  <2>2. ASSUME NEW m \in Signed("PAYOUT"), attempt[<<"PAYOUT", m>>] = "CONFIRMED"
        PROVE  m \in Signed("PAYOUT")' /\ attempt'[<<"PAYOUT", m>>] = "CONFIRMED"
    <3>1. <<"PAYOUT", m>> \in Txs
      BY TxInTxs DEF Signed, Sends
    <3> QED BY <1>2, <1>3, <2>2, <3>1 DEF Signed
  <2> QED BY <1>1, <2>1, <2>2 DEF IInv, LegSays
<1>13. MayGoOn'
  BY <1>1 DEF IInv, MayGoOn, TypeOK
<1> QED BY <1>4, <1>6, <1>7, <1>8, <1>10, <1>11, <1>12, <1>13 DEF IInv

\* A leg that a transfer completed stays completed by it.
LEMMA PaidStays ==
  ASSUME TypeOK, LegSays, NEW t \in Txs, Live(t), NEW status \in AttemptStatuses \ {"NONE"},
         attempt' = [attempt EXCEPT ![t] = status], leg = "COMPLETED"
  PROVE  \E n \in Signed("PAYOUT")' : attempt'[<<"PAYOUT", n>>] = "CONFIRMED"
<1> PICK n \in Signed("PAYOUT") : attempt[<<"PAYOUT", n>>] = "CONFIRMED"
  BY DEF LegSays
<1>1. <<"PAYOUT", n>> \in Txs /\ <<"PAYOUT", n>> # t
  BY TxInTxs DEF Signed, Sends, Live, Undecided
<1>2. attempt'[<<"PAYOUT", n>>] = "CONFIRMED"
  BY <1>1 DEF TypeOK
<1> QED BY <1>2 DEF Signed

LEMMA NoteKeeps == ASSUME IInv, NEW w \in Workers, NoteBroadcast(w) PROVE IInv'
<1> PICK t \in Txs : t = work[w].tx
  BY DEF IInv, TypeOK, Work
<1>1. Done(w) /\ UNCHANGED <<leg, send, failed, hold, held, failing, chain, mishaps>>
  BY DEF NoteBroadcast
<1>2. CASE ~Live(t)
  <2>1. attempt' = attempt
    BY <1>2 DEF NoteBroadcast, IInv, TypeOK
  <2>2. work' \in [Workers -> Work] /\ WorkSound'
    BY <1>1, <2>1, WorkerDone, HandsSound DEF IInv
  <2> QED BY <1>1, <2>1, <2>2, HandsOnly DEF IInv, TypeOK
<1>3. CASE Live(t)
  <2>1. attempt' = [attempt EXCEPT ![t] = "BROADCAST"]
    BY <1>3 DEF NoteBroadcast
  <2>2. InOrder' /\ ChainSays' /\ StillTrue /\ attempt' \in [Txs -> AttemptStatuses]
    BY <1>1, <1>3, <2>1, DecidedKeeps
  <2>3. OneOpen' /\ SendSays'
    <3>1. send[t[1]] = "SENDING" /\ send' = [send EXCEPT ![t[1]] = "SENDING"]
      BY <1>1, <1>3 DEF IInv, SendSays, TypeOK
    <3> QED BY <1>3, <2>1, <3>1, DecidedOnce DEF IInv
  <2>4. work' \in [Workers -> Work] /\ WorkSound'
    BY <1>1, <2>2, WorkerDone DEF IInv
  <2>5. LegSays'
    BY <1>1, <1>3, <2>1, PaidStays DEF IInv, LegSays, AttemptStatuses, Undecided
  <2> QED BY <1>1, <2>2, <2>3, <2>4, <2>5 DEF IInv, TypeOK, MayGoOn
<1> QED BY <1>2, <1>3

LEMMA SettleKeeps == ASSUME IInv, NEW w \in Workers, SettleFinal(w) PROVE IInv'
<1> PICK t \in Txs : t = work[w].tx
  BY DEF IInv, TypeOK, Work
<1>1. Done(w) /\ UNCHANGED <<hold, held, failing, chain, mishaps>> /\ Final(t)
  BY DEF SettleFinal, IInv, WorkSound, JobSound
<1>2. CASE UNCHANGED db
  <2>1. work' \in [Workers -> Work] /\ WorkSound'
    BY <1>1, <1>2, WorkerDone, HandsSound DEF IInv, db
  <2> QED BY <1>1, <1>2, <2>1, HandsOnly DEF IInv, TypeOK, db
<1>3. t[1] \in Sends /\ t = <<t[1], t[2]>> /\ t[2] \in 1 .. MaxAttempts[t[1]]
  BY TxParts
<1>4. CASE Live(t) /\ MaySettle(t) /\ chain[t].fate = "LANDED" /\ Confirmed(t)
  <2>1. /\ attempt' = [attempt EXCEPT ![t] = "CONFIRMED"]
        /\ send' = [send EXCEPT ![t[1]] = "CONFIRMED"]
        /\ leg' = (IF t[1] = "PAYOUT" THEN "COMPLETED" ELSE leg) /\ failed' = failed
    BY <1>4 DEF Confirmed
  <2>2. InOrder' /\ ChainSays' /\ StillTrue /\ attempt' \in [Txs -> AttemptStatuses]
    BY <1>1, <1>4, <2>1, DecidedKeeps DEF Final
  <2>3. OneOpen' /\ SendSays'
    BY <1>4, <2>1, DecidedOnce DEF IInv
  <2>4. work' \in [Workers -> Work] /\ WorkSound'
    BY <1>1, <2>2, WorkerDone DEF IInv
  <2>5. LegSays'
    <3>1. CASE t[1] = "PAYOUT"
      <4>1. leg' = "COMPLETED" /\ attempt'[t] = "CONFIRMED"
        BY <2>1, <3>1 DEF IInv, TypeOK
      <4>2. t[2] \in Signed("PAYOUT")' /\ attempt'[<<"PAYOUT", t[2]>>] = "CONFIRMED"
        BY <1>3, <3>1, <4>1 DEF Signed
      <4> QED BY <4>1, <4>2 DEF LegSays
    <3>2. CASE t[1] # "PAYOUT"
      <4>1. leg' = leg /\ send'["PAYOUT"] = send["PAYOUT"]
        BY <2>1, <3>2 DEF IInv, TypeOK, Sends
      <4>2. leg = "COMPLETED" => \E n \in Signed("PAYOUT")' : attempt'[<<"PAYOUT", n>>] = "CONFIRMED"
        BY <1>4, <2>1, PaidStays DEF IInv, AttemptStatuses
      <4> QED BY <4>1, <4>2 DEF IInv, LegSays
    <3> QED BY <3>1, <3>2
  <2>6. MayGoOn'
    <3>1. send[t[1]] = "SENDING" /\ \A s \in Sends : send'[s] = IF s = t[1] THEN "CONFIRMED" ELSE send[s]
      BY <1>4, <2>1 DEF IInv, SendSays, TypeOK
    <3> QED BY <1>3, <2>1, <3>1 DEF IInv, MayGoOn
  <2>7. TypeOK'
    <3>1. send' \in [Sends -> SendStatuses] /\ leg' \in LegStatuses
      BY <2>1 DEF IInv, TypeOK, SendStatuses, LegStatuses
    <3> QED BY <1>1, <2>1, <2>2, <2>4, <3>1 DEF IInv, TypeOK
  <2> QED BY <2>2, <2>3, <2>4, <2>5, <2>6, <2>7 DEF IInv
<1>5. CASE Live(t) /\ MaySettle(t) /\ chain[t].fate # "LANDED" /\ FailedOnChain(t)
  <2> PICK then : then = IF failed[t[1]] + 1 >= MaxFailed THEN "BLOCKED" ELSE "PLANNED"
    OBVIOUS
  <2>1. /\ attempt' = [attempt EXCEPT ![t] = "FAILED"]
        /\ send' = [send EXCEPT ![t[1]] = then]
        /\ failed' = [failed EXCEPT ![t[1]] = failed[t[1]] + 1] /\ leg' = leg
    BY <1>5 DEF FailedOnChain
  <2>2. chain[t].fate = "REVERTED"
    BY <1>1, <1>5 DEF Final
  <2>3. InOrder' /\ ChainSays' /\ StillTrue /\ attempt' \in [Txs -> AttemptStatuses]
    BY <1>1, <1>5, <2>1, <2>2, DecidedKeeps DEF Final
  <2>4. OneOpen' /\ SendSays'
    BY <1>5, <2>1, DecidedOnce DEF IInv, Settled
  <2>5. work' \in [Workers -> Work] /\ WorkSound'
    BY <1>1, <2>3, WorkerDone DEF IInv
  <2>6. send[t[1]] = "SENDING"
    BY <1>5 DEF IInv, SendSays
  <2>7. LegSays'
    <3>1. leg # "PENDING" \/ t[1] # "PAYOUT"
      BY <2>6 DEF IInv, LegSays
    <3>2. leg = "PENDING" => send'["PAYOUT"] = "NONE"
      BY <2>1, <3>1 DEF IInv, LegSays, TypeOK, Sends
    <3>3. leg = "COMPLETED" => \E n \in Signed("PAYOUT")' : attempt'[<<"PAYOUT", n>>] = "CONFIRMED"
      BY <1>5, <2>1, PaidStays DEF IInv, AttemptStatuses
    <3> QED BY <2>1, <3>2, <3>3 DEF LegSays
  <2>8. failed[t[1]] \in 0 .. MaxFailed /\ failed[t[1]] < MaxFailed
    BY <1>3, <2>6 DEF IInv, MayGoOn, TypeOK
  <2>9. failed' \in [Sends -> 0 .. MaxFailed]
    <3>1. failed[t[1]] + 1 \in 0 .. MaxFailed
      BY <2>8, BoundsAssumption
    <3> QED BY <2>1, <3>1 DEF IInv, TypeOK
  <2>10. MayGoOn'
    <3>1. \A s \in Sends : s # t[1] => send'[s] = send[s] /\ failed'[s] = failed[s]
      BY <2>1 DEF IInv, TypeOK
    <3>2. send'[t[1]] = then /\ failed'[t[1]] = failed[t[1]] + 1
      BY <1>3, <2>1 DEF IInv, TypeOK
    <3>3. then # "BLOCKED" => failed[t[1]] + 1 < MaxFailed
      BY <2>8, BoundsAssumption
    <3> QED BY <3>1, <3>2, <3>3 DEF IInv, MayGoOn
  <2>11. TypeOK'
    <3>1. send' \in [Sends -> SendStatuses]
      BY <2>1 DEF IInv, TypeOK, SendStatuses
    <3> QED BY <1>1, <2>1, <2>3, <2>5, <2>9, <3>1 DEF IInv, TypeOK
  <2> QED BY <2>3, <2>4, <2>5, <2>7, <2>10, <2>11 DEF IInv
<1> QED BY <1>2, <1>4, <1>5 DEF SettleFinal

LEMMA ExpireKeeps == ASSUME IInv, NEW w \in Workers, Expire(w) PROVE IInv'
<1> PICK t \in Txs : t = work[w].tx
  BY DEF IInv, TypeOK, Work
<1>1. Done(w) /\ UNCHANGED <<leg, failed, hold, held, failing, chain, mishaps>>
  BY DEF Expire
<1>2. CASE UNCHANGED <<attempt, send>>
  <2>1. work' \in [Workers -> Work] /\ WorkSound'
    BY <1>1, <1>2, WorkerDone, HandsSound DEF IInv
  <2> QED BY <1>1, <1>2, <2>1, HandsOnly DEF IInv, TypeOK
<1>3. CASE Live(t) /\ attempt' = [attempt EXCEPT ![t] = "EXPIRED"]
           /\ send' = [send EXCEPT ![t[1]] = IF @ = "SENDING" THEN "PLANNED" ELSE @]
  <2>1. send[t[1]] = "SENDING" /\ t[1] \in Sends
    BY <1>3, TxParts DEF IInv, SendSays
  <2>2. send' = [send EXCEPT ![t[1]] = "PLANNED"]
    BY <1>3, <2>1 DEF IInv, TypeOK
  \* Every provider answered, and none knew it once its solidified head was past it.
  <2>3. chain[t].fate = "LAPSED" /\ chain[t].solid # {}
    <3>1. work[w].clear = Providers /\ work[w].heads = Providers /\ JobSound(work[w])
      BY DEF Expire, Proved, IInv, WorkSound
    <3> QED BY <3>1, PartiesAssumption DEF JobSound
  <2>4. InOrder' /\ ChainSays' /\ StillTrue /\ attempt' \in [Txs -> AttemptStatuses]
    BY <1>1, <1>3, <2>3, DecidedKeeps
  <2>5. OneOpen' /\ SendSays'
    BY <1>3, <2>2, DecidedOnce DEF IInv, Settled
  <2>6. work' \in [Workers -> Work] /\ WorkSound'
    BY <1>1, <2>4, WorkerDone DEF IInv
  <2>7. LegSays'
    <3>1. leg # "PENDING" \/ t[1] # "PAYOUT"
      BY <2>1 DEF IInv, LegSays
    <3>2. leg = "PENDING" => send'["PAYOUT"] = "NONE"
      BY <2>2, <3>1 DEF IInv, LegSays, TypeOK, Sends
    <3>3. leg = "COMPLETED" => \E n \in Signed("PAYOUT")' : attempt'[<<"PAYOUT", n>>] = "CONFIRMED"
      BY <1>3, PaidStays DEF IInv, AttemptStatuses
    <3> QED BY <1>1, <3>2, <3>3 DEF LegSays
  <2>8. MayGoOn'
    BY <1>1, <2>1, <2>2 DEF IInv, MayGoOn, TypeOK
  <2>9. TypeOK'
    <3>1. send' \in [Sends -> SendStatuses]
      BY <2>2 DEF IInv, TypeOK, SendStatuses
    <3> QED BY <1>1, <2>4, <2>6, <3>1 DEF IInv, TypeOK
  <2> QED BY <2>4, <2>5, <2>6, <2>7, <2>8, <2>9 DEF IInv
<1> QED BY <1>2, <1>3 DEF Expire

\* A worker's answer to a planned send that changes statuses only.
LEMMA PutOffKeeps ==
  ASSUME IInv, NEW w \in Workers, PlanTopup(w) \/ BlockSend(w)
  PROVE  IInv'
<1>1. Done(w) /\ UNCHANGED <<leg, failed, attempt, hold, held, failing, chain, mishaps>>
  BY DEF PlanTopup, BlockSend
<1>2. work' \in [Workers -> Work] /\ WorkSound'
  BY <1>1, WorkerDone, HandsSound DEF IInv
<1>3. work[w].tx[1] \in Sends
  BY TxParts DEF IInv, TypeOK, Work
<1>4. /\ send' \in [Sends -> SendStatuses]
      /\ \A s \in Sends : send'[s] = send[s] \/ (send[s] \in {"PLANNED", "NONE"} /\ send'[s] \notin Settled)
  BY <1>3 DEF PlanTopup, BlockSend, IInv, TypeOK, SendStatuses, Settled, Sends
<1>5. InOrder' /\ OneOpen' /\ SendSays' /\ ChainSays'
  BY <1>1, <1>4, StatusesOnly DEF Settled
<1>6. LegSays'
  <2>1. send["PAYOUT"] = "NONE" => send'["PAYOUT"] = "NONE"
    BY <1>3 DEF PlanTopup, BlockSend, IInv, TypeOK, Sends
  <2> QED BY <1>1, <2>1 DEF IInv, LegSays, Signed
<1>7. MayGoOn'
  BY <1>1, <1>4 DEF IInv, MayGoOn
<1> QED BY <1>1, <1>2, <1>4, <1>5, <1>6, <1>7 DEF IInv, TypeOK

-----------------------------------------------------------------------------
(* The chain.                                                                *)

\* What happens to a transaction on the chain, told by what it does not undo.
LEMMA ChainMoves ==
  ASSUME IInv, NEW t \in Txs, NEW fact \in Fact, chain' = [chain EXCEPT ![t] = fact],
         UNCHANGED <<leg, send, failed, attempt>>,
         attempt[t] # "NONE",
         chain[t].solid \subseteq fact.solid, chain[t].solid # {} => fact.fate = chain[t].fate,
         fact.solid # {} => fact.fate # "OPEN"
  PROVE  /\ InOrder' /\ OneOpen' /\ SendSays' /\ ChainSays' /\ LegSays' /\ MayGoOn'
         /\ StillTrue /\ chain' \in [Txs -> Fact]
<1>1. \A u \in Txs : chain'[u] = IF u = t THEN fact ELSE chain[u]
  BY DEF IInv, TypeOK
<1>2. \A s \in Sends : Signed(s)' = Signed(s)
  BY DEF Signed
<1>3. InOrder' /\ LegSays' /\ MayGoOn'
  BY <1>2 DEF IInv, InOrder, LegSays, MayGoOn, Sends
<1>4. OneOpen' /\ SendSays'
  BY DEF IInv, OneOpen, OpenOrPaid, SendSays, Live
<1>5. ChainSays'
  BY <1>1 DEF IInv, ChainSays
<1>6. StillTrue
  BY <1>1 DEF StillTrue
<1>7. chain' \in [Txs -> Fact]
  BY DEF IInv, TypeOK
<1> QED BY <1>3, <1>4, <1>5, <1>6, <1>7

LEMMA DeliverKeeps == ASSUME IInv, NEW w \in Workers, Deliver(w) PROVE IInv'
<1> PICK t \in Txs : t = work[w].tx
  BY DEF IInv, TypeOK, Work
<1>1. attempt[t] # "NONE" /\ chain[t] \in Fact
  BY DEF Deliver, IInv, TypeOK, WorkSound, JobSound
<1>2. PICK reached \in BOOLEAN : chain' = [chain EXCEPT ![t].known = @ \/ reached]
  BY DEF Deliver
<1>3. Turn(w, "NOTE", t) \/ Done(w)
  BY DEF Deliver
<1> PICK fact : fact = [chain[t] EXCEPT !.known = @ \/ reached]
  OBVIOUS
<1>4. fact \in Fact /\ fact.solid = chain[t].solid /\ fact.fate = chain[t].fate
  BY <1>1, <1>2 DEF Fact
<1>5. chain' = [chain EXCEPT ![t] = fact]
  BY <1>2 DEF IInv, TypeOK
<1>6. UNCHANGED <<leg, send, failed, attempt, hold, held, failing, mishaps>>
  BY DEF Deliver
<1>7. /\ InOrder' /\ OneOpen' /\ SendSays' /\ ChainSays' /\ LegSays' /\ MayGoOn'
      /\ StillTrue /\ chain' \in [Txs -> Fact]
  <2>1. chain[t].solid # {} => chain[t].fate # "OPEN"
    BY DEF IInv, ChainSays
  <2> QED BY <1>1, <1>4, <1>5, <1>6, <2>1, ChainMoves
<1>8. work' \in [Workers -> Work] /\ WorkSound'
  <2>1. CASE Turn(w, "NOTE", t)
    BY <1>1, <1>6, <1>7, <2>1, WorkerTakes DEF IInv
  <2>2. CASE Done(w)
    BY <1>7, <2>2, WorkerDone DEF IInv
  <2> QED BY <1>3, <2>1, <2>2
<1> QED BY <1>6, <1>7, <1>8 DEF IInv, TypeOK

LEMMA ChainKeeps == ASSUME IInv, Chain \/ Reorganise PROVE IInv'
<1> PICK t \in Txs : Include(t) \/ Lapse(t) \/ (\E p \in Providers : Solidify(t, p)) \/ Reorg(t)
  BY DEF Chain, Reorganise
<1>1. UNCHANGED <<leg, send, failed, attempt, hold, held, failing, work>>
  BY DEF Include, Lapse, Solidify, Reorg
<1>2. mishaps' \in 0 .. MaxMishaps
  BY BoundsAssumption DEF Include, Lapse, Solidify, Reorg, Mishap, IInv, TypeOK
<1>3. /\ chain[t] \in Fact /\ (chain[t].solid # {} => chain[t].fate # "OPEN")
      /\ attempt[t] = "NONE" => ~chain[t].known /\ chain[t].fate = "OPEN"
  BY DEF IInv, TypeOK, ChainSays
<1>4. attempt[t] # "NONE"
  BY <1>3 DEF Include, Lapse, Solidify, Reorg
<1> DEFINE Becomes(fact) ==
             /\ chain' = [chain EXCEPT ![t] = fact]
             /\ chain[t].solid \subseteq fact.solid /\ (chain[t].solid # {} => fact.fate = chain[t].fate)
             /\ fact.solid # {} => fact.fate # "OPEN"
<1>5. \E fact \in Fact : Becomes(fact)
  <2>1. ASSUME NEW fate \in Fates, chain' = [chain EXCEPT ![t].fate = fate], chain[t].solid = {}
        PROVE  \E fact \in Fact : Becomes(fact)
    <3> PICK fact : fact = [chain[t] EXCEPT !.fate = fate]
      OBVIOUS
    <3>1. fact \in Fact /\ fact.solid = {}
      BY <1>3, <2>1 DEF Fact
    <3>2. chain' = [chain EXCEPT ![t] = fact]
      BY <2>1 DEF IInv, TypeOK
    <3>3. Becomes(fact)
      BY <2>1, <3>1, <3>2
    <3> QED BY <3>1, <3>3
  <2>2. CASE Include(t) \/ Lapse(t) \/ Reorg(t)
    <3>1. chain[t].solid = {}
      BY <1>3, <2>2 DEF Include, Lapse, Reorg
    <3>2. PICK fate \in Fates : chain' = [chain EXCEPT ![t].fate = fate]
      BY <2>2 DEF Include, Lapse, Reorg, Fates
    <3> QED BY <2>1, <3>1, <3>2
  <2>3. CASE \E p \in Providers : Solidify(t, p)
    <3> PICK p \in Providers : Solidify(t, p)
      BY <2>3
    <3> PICK fact : fact = [chain[t] EXCEPT !.solid = @ \cup {p}]
      OBVIOUS
    <3>1. fact \in Fact /\ fact.solid = chain[t].solid \cup {p} /\ fact.fate = chain[t].fate
      BY <1>3 DEF Fact
    <3>2. chain' = [chain EXCEPT ![t] = fact] /\ chain[t].fate # "OPEN"
      BY DEF Solidify, IInv, TypeOK
    <3>3. Becomes(fact)
      BY <3>1, <3>2
    <3> QED BY <3>1, <3>3
  <2> QED BY <2>2, <2>3
<1>6. /\ InOrder' /\ OneOpen' /\ SendSays' /\ ChainSays' /\ LegSays' /\ MayGoOn'
      /\ StillTrue /\ chain' \in [Txs -> Fact]
  BY <1>1, <1>4, <1>5, ChainMoves
<1>7. WorkSound'
  BY <1>1, <1>6, WorkersKeep DEF IInv
<1> QED BY <1>1, <1>2, <1>6, <1>7 DEF IInv, TypeOK

-----------------------------------------------------------------------------
LEMMA StutterKeeps == IInv /\ UNCHANGED vars => IInv'
<1> SUFFICES ASSUME IInv, UNCHANGED vars PROVE IInv'
  OBVIOUS
<1>1. WorkSound'
  BY WorkersKeep, HandsSound DEF IInv, vars
<1> QED BY <1>1, HandsOnly DEF IInv, TypeOK, vars

LEMMA NextKeeps == IInv /\ [Next]_vars => IInv'
<1> SUFFICES ASSUME IInv, Next PROVE IInv'
  BY StutterKeeps
<1>1. ASSUME NEW w \in Workers, Proceed(w) PROVE IInv'
  BY <1>1, PutOffKeeps, SignKeeps, GivesUp, CheckKeeps, DeliverKeeps, NoteKeeps, SettleKeeps,
     ReadHeadKeeps, ReadAnswerKeeps, ExpireKeeps DEF Proceed
<1>2. ASSUME NEW w \in Workers, Crash(w) PROVE IInv'
  BY <1>2, GivesUp
<1> QED
  BY <1>1, <1>2, PeopleKeep, ReplanKeeps, PrepareKeeps, FollowKeeps, ChainKeeps DEF Next

\* The records, the chain and the workers stay in step, whatever crashes, stale
\* reads, lost answers and reorganisations come between.
THEOREM ChainSendInvariant == Spec => []IInv
  BY InitHolds, NextKeeps, PTL DEF Spec

-----------------------------------------------------------------------------
(* What follows for the money.                                               *)

\* ADR 0017 2.4: a send never has two transactions that landed or may still land.
THEOREM OneTransfer == Spec => []OneTransferPerSend
<1>1. IInv => OneTransferPerSend
  <2> SUFFICES ASSUME IInv, NEW t \in Txs, NEW u \in Txs, t[1] = u[1],
                      attempt[t] # "NONE", chain[t].fate \in {"OPEN", "LANDED"},
                      attempt[u] # "NONE", chain[u].fate \in {"OPEN", "LANDED"}
               PROVE  t = u
    BY DEF OneTransferPerSend
  <2>1. attempt[t] \in AttemptStatuses /\ attempt[u] \in AttemptStatuses
    BY DEF IInv, TypeOK
  <2>2. OpenOrPaid(t) /\ OpenOrPaid(u)
    BY <2>1 DEF IInv, ChainSays, OpenOrPaid, AttemptStatuses
  <2> QED BY <2>2 DEF IInv, OneOpen
<1> QED BY <1>1, ChainSendInvariant, PTL

\* IX104, IX105: a send is SENDING exactly while one transaction of it is undecided.
THEOREM SendingMeansOne == Spec => []SendingIsUndecided
<1>1. IInv => SendingIsUndecided
  <2> SUFFICES ASSUME IInv, NEW s \in Sends
               PROVE  Cardinality({n \in Signed(s) : Live(<<s, n>>)}) = IF send[s] = "SENDING" THEN 1 ELSE 0
    BY DEF SendingIsUndecided
  <2>1. \A n \in Signed(s) : <<s, n>> \in Txs /\ <<s, n>>[1] = s
    BY TxInTxs DEF Signed
  <2>2. CASE send[s] = "SENDING"
    <3> PICK t \in Txs : t[1] = s /\ Live(t)
      BY <2>2 DEF IInv, SendSays
    <3>1. t[2] \in Signed(s) /\ t = <<s, t[2]>>
      BY TxParts DEF Signed, Live, Undecided
    <3>2. \A n \in Signed(s) : Live(<<s, n>>) => <<s, n>> = t
      BY <2>1 DEF IInv, OneOpen, OpenOrPaid, Live
    <3>3. {n \in Signed(s) : Live(<<s, n>>)} = {t[2]}
      BY <3>1, <3>2
    <3> QED BY <2>2, <3>3, FS_Singleton
  <2>3. CASE send[s] # "SENDING"
    <3>1. {n \in Signed(s) : Live(<<s, n>>)} = {}
      BY <2>1, <2>3 DEF IInv, SendSays
    <3> QED BY <2>3, <3>1, FS_EmptySet
  <2> QED BY <2>2, <2>3
<1> QED BY <1>1, ChainSendInvariant, PTL

\* What the records say of a transaction, the chain says too.
THEOREM RecordsAreTrue == Spec => []RecordedAsItWas
<1>1. IInv => RecordedAsItWas
  BY DEF IInv, ChainSays, LegSays, RecordedAsItWas
<1> QED BY <1>1, ChainSendInvariant, PTL

\* chain_send.cancel: no transaction of a cancelled send landed or still can.
THEOREM CancelledIsDead == Spec => []CancelledNeverLands
<1>1. IInv => CancelledNeverLands
  <2> SUFFICES ASSUME IInv, NEW t \in Txs, send[t[1]] = "CANCELLED", attempt[t] # "NONE"
               PROVE  chain[t].fate \in {"REVERTED", "LAPSED"}
    BY DEF CancelledNeverLands
  <2>1. attempt[t] \in {"FAILED", "EXPIRED"}
    BY DEF IInv, TypeOK, SendSays, Live, AttemptStatuses
  <2> QED BY <2>1 DEF IInv, ChainSays
<1> QED BY <1>1, ChainSendInvariant, PTL

-----------------------------------------------------------------------------
(* ChainSend implements Payment: whoever asked for a transfer sees one that  *)
(* happens once or not at all, and an answer that is true.                   *)

\* What a send's payment is, by its transactions.
LEMMA PaymentIs ==
  ASSUME IInv, NEW s \in Sends
  PROVE  /\ Told(s) = "PAID" <=> send[s] = "CONFIRMED"
         /\ Told(s) = "CANCELLED" <=> send[s] = "CANCELLED"
         /\ Told(s) \in {"OPEN", "PAID", "CANCELLED"}
         /\ \A n \in Moved(s) : <<s, n>> \in Txs /\ OpenOrPaid(<<s, n>>) /\ n \in Seqs
         /\ \A n, m \in Moved(s) : n = m
         /\ \A n \in Moved(s) : send[s] \in {"SENDING", "CONFIRMED"}
<1>1. \A n \in Moved(s) : n \in Seqs /\ <<s, n>> \in Txs /\ attempt[<<s, n>>] # "NONE" /\ chain[<<s, n>>].fate = "LANDED"
  BY TxInTxs DEF Moved, Signed, Seqs
<1>2. ASSUME NEW n \in Moved(s) PROVE OpenOrPaid(<<s, n>>)
  BY <1>1 DEF IInv, TypeOK, ChainSays, OpenOrPaid, AttemptStatuses
<1>3. \A n, m \in Moved(s) : n = m
  BY <1>1, <1>2 DEF IInv, OneOpen
<1>4. \A n \in Moved(s) : send[s] \in {"SENDING", "CONFIRMED"}
  BY <1>1, <1>2 DEF IInv, SendSays, OpenOrPaid, Live
<1> QED BY <1>1, <1>2, <1>3, <1>4 DEF Told

\* No send has two transfers, now or after a step.
MovedOnce == \A s \in Sends : \A n, m \in Moved(s) : n = m

LEMMA MovedOnceAt == IInv => MovedOnce
  BY PaymentIs DEF MovedOnce

LEMMA MovedOnceNext == IInv' => MovedOnce'
  BY MovedOnceAt, PTL

\* A send not planned yet is a payment not begun.
LEMMA PaymentInit == ASSUME NEW s \in Sends, Init PROVE Asked(s)!Init
<1>1. Moved(s) = {}
  BY TxInTxs DEF Init, Moved, Signed
<1>2. Told(s) = "OPEN"
  BY DEF Init, Told
<1> QED BY <1>1, <1>2 DEF Asked!Init

\* A step of the payment, from what becomes of the send and of its transfers.
LEMMA PaymentStep ==
  ASSUME IInv, IInv', NEW s \in Sends,
         \/ send'[s] = send[s]
         \/ send[s] \notin Closed /\ send'[s] \notin Closed
         \/ send'[s] = "CANCELLED" /\ send[s] # "CONFIRMED" /\ Moved(s)' = {}
         \/ send'[s] = "CONFIRMED" /\ send[s] # "CANCELLED" /\ Moved(s) # {},
         send'[s] # send[s] => Moved(s)' = Moved(s),
         send[s] \in Closed => Moved(s)' = Moved(s),
         Moved(s)' = Moved(s) \/ Moved(s)' = {} \/ Moved(s) = {}
  PROVE  [Asked(s)!Next]_(Asked(s)!vars)
<1>1. /\ Told(s) = IF send[s] = "CONFIRMED" THEN "PAID" ELSE IF send[s] = "CANCELLED" THEN "CANCELLED" ELSE "OPEN"
      /\ Told(s)' = IF send'[s] = "CONFIRMED" THEN "PAID" ELSE IF send'[s] = "CANCELLED" THEN "CANCELLED" ELSE "OPEN"
  BY DEF Told
<1>2. \A n \in Moved(s)' : n \in Seqs /\ \A m \in Moved(s)' : n = m
  <2>1. \A n \in Moved(s)' : n \in Seqs
    BY DEF Moved, Signed, Seqs
  <2> QED BY <2>1, MovedOnceNext DEF MovedOnce
<1>3. CASE UNCHANGED <<Told(s), Moved(s)>>
  BY <1>3 DEF Asked!vars
<1>4. CASE Told(s)' # Told(s)
  <2>1. Moved(s)' = Moved(s) /\ Told(s) = "OPEN"
    BY <1>1, <1>4 DEF Closed
  <2>2. \/ Told(s)' = "PAID" /\ Moved(s) # {}
        \/ Told(s)' = "CANCELLED" /\ Moved(s) = {}
    BY <1>1, <1>4, <2>1 DEF Closed
  <2> QED BY <2>1, <2>2 DEF Asked!Next, Asked!Confirm, Asked!Cancel
<1>5. CASE Told(s)' = Told(s) /\ Moved(s)' # Moved(s)
  <2>1. Told(s) = "OPEN"
    BY <1>1, <1>5 DEF Closed
  <2>2. CASE Moved(s)' = {}
    BY <1>5, <2>1, <2>2 DEF Asked!Next, Asked!Undo
  <2>3. CASE Moved(s) = {} /\ Moved(s)' # {}
    <3>1. PICK n \in Moved(s)' : Moved(s)' = {n} /\ n \in Seqs
      BY <1>2, <2>3
    <3> QED BY <1>5, <2>1, <2>3, <3>1 DEF Asked!Next, Asked!Move
  <2> QED BY <1>5, <2>2, <2>3
<1> QED BY <1>3, <1>4, <1>5

\* The commands cancel only what no transaction can pay any more.
LEMMA PaymentCommand ==
  ASSUME IInv, IInv', NEW s \in Sends, UNCHANGED <<attempt, chain>>,
         \/ send'[s] = send[s]
         \/ send[s] \notin Closed /\ send'[s] \notin Closed
         \/ send'[s] = "CANCELLED" /\ send[s] \notin {"SENDING", "CONFIRMED"}
  PROVE  [Asked(s)!Next]_(Asked(s)!vars)
<1>1. Moved(s)' = Moved(s)
  BY DEF Moved, Signed
<1>2. send[s] \notin {"SENDING", "CONFIRMED"} => Moved(s) = {}
  BY PaymentIs
<1> QED BY <1>1, <1>2, PaymentStep

\* The records of one transaction change, of its send too: confirmed by a transfer.
LEMMA PaymentRecords ==
  ASSUME IInv, IInv', NEW s \in Sends, NEW t \in Txs, NEW status \in AttemptStatuses \ {"NONE"},
         attempt' = [attempt EXCEPT ![t] = status], chain' = chain,
         attempt[t] # "NONE" \/ chain[t].fate = "OPEN",
         \/ send'[s] = send[s]
         \/ send[s] \notin Closed /\ send'[s] \notin Closed
         \/ send'[s] = "CONFIRMED" /\ send[s] # "CANCELLED" /\ t[1] = s /\ attempt[t] # "NONE" /\ chain[t].fate = "LANDED"
  PROVE  [Asked(s)!Next]_(Asked(s)!vars)
<1>1. \A n \in 1 .. MaxAttempts[s] : attempt'[<<s, n>>] = IF <<s, n>> = t THEN status ELSE attempt[<<s, n>>]
  BY TxInTxs DEF IInv, TypeOK
<1>2. Moved(s)' = Moved(s)
  BY <1>1 DEF Moved, Signed
<1>3. t[1] = s /\ attempt[t] # "NONE" /\ chain[t].fate = "LANDED" => Moved(s) # {}
  <2> SUFFICES ASSUME t[1] = s, attempt[t] # "NONE", chain[t].fate = "LANDED" PROVE t[2] \in Moved(s)
    OBVIOUS
  <2> QED BY TxParts DEF Moved, Signed
<1> QED BY <1>2, <1>3, PaymentStep

\* What the chain does: a block takes a transaction, or is undone before it is final.
LEMMA PaymentChain ==
  ASSUME IInv, IInv', NEW s \in Sends, NEW t \in Txs, NEW f \in Fact, UNCHANGED <<attempt, send>>,
         chain' = [chain EXCEPT ![t] = f],
         \/ f.fate = chain[t].fate
         \/ chain[t].fate = "OPEN"
         \/ f.fate = "OPEN" /\ chain[t].solid = {}
  PROVE  [Asked(s)!Next]_(Asked(s)!vars)
<1>1. \A n \in 1 .. MaxAttempts[s] : chain'[<<s, n>>] = IF <<s, n>> = t THEN f ELSE chain[<<s, n>>]
  BY TxInTxs DEF IInv, TypeOK
<1>2. CASE t[1] # s \/ attempt[t] = "NONE" \/ (f.fate = "LANDED" <=> chain[t].fate = "LANDED")
  <2>1. \A n \in 1 .. MaxAttempts[s] : attempt[<<s, n>>] # "NONE" => (chain'[<<s, n>>].fate = "LANDED" <=> chain[<<s, n>>].fate = "LANDED")
    BY <1>1, <1>2, TxParts
  <2>2. Moved(s)' = Moved(s)
    BY <2>1 DEF Moved, Signed
  <2> QED BY <2>2, PaymentStep
<1>3. CASE t[1] = s /\ attempt[t] # "NONE" /\ ~ (f.fate = "LANDED" <=> chain[t].fate = "LANDED")
  <2>1. t[2] \in 1 .. MaxAttempts[s] /\ t = <<s, t[2]>>
    BY <1>3, TxParts
  <2>2. send[s] \notin Closed
    <3>1. attempt[t] \notin {"CONFIRMED", "FAILED", "EXPIRED"}
      BY <1>3 DEF IInv, ChainSays
    <3>2. Live(t)
      BY <1>3, <3>1 DEF IInv, TypeOK, AttemptStatuses, Live
    <3> QED BY <1>3, <3>2 DEF IInv, SendSays, Closed
  <2>3. CASE chain[t].fate = "LANDED"
    <3>1. t[2] \in Moved(s) /\ \A n \in Moved(s) : n = t[2]
      BY <1>3, <2>1, <2>3, PaymentIs DEF Moved, Signed
    <3>2. \A n \in Moved(s)' : n \in Moved(s) /\ n # t[2]
      BY <1>1, <1>3, <2>1, <2>3 DEF Moved, Signed
    <3>3. Moved(s)' = {}
      BY <3>1, <3>2
    <3> QED BY <2>2, <3>3, PaymentStep
  <2>4. CASE f.fate = "LANDED"
    <3>1. t[2] \in Moved(s)' /\ t[2] \notin Moved(s)
      BY <1>1, <1>3, <2>1, <2>4 DEF Moved, Signed
    <3>2. \A n \in Moved(s) : n \in Moved(s)'
      BY <1>1, <1>3, <2>1, <2>4 DEF Moved, Signed
    <3>3. \A n, m \in Moved(s)' : n = m
      BY MovedOnceNext DEF MovedOnce
    <3>4. Moved(s) = {}
      BY <3>1, <3>2, <3>3
    <3> QED BY <2>2, <3>4, PaymentStep
  <2> QED BY <1>3, <2>3, <2>4
<1> QED BY <1>2, <1>3

\* Every step leaves a send's payment as it was or is a step of it.
LEMMA PaymentNext == ASSUME NEW s \in Sends, IInv, [Next]_vars PROVE [Asked(s)!Next]_(Asked(s)!vars)
<1> USE DEF Closed
<1>1. IInv'
  BY NextKeeps
<1>2. send \in [Sends -> SendStatuses] /\ "PAYOUT" \in Sends /\ "TOPUP" \in Sends
  BY DEF IInv, TypeOK, Sends
<1>3. ASSUME UNCHANGED <<send, attempt, chain>> PROVE [Asked(s)!Next]_(Asked(s)!vars)
  BY <1>1, <1>3, PaymentCommand
<1>4. CASE People
  <2>1. UNCHANGED <<attempt, chain>>
    BY <1>4 DEF People, SendLeg, ApproveSend, UnblockSend, CancelPayoutSend, CancelTopup, FailLegLooks, FailLeg,
           OpenHold, CloseHold, RaiseFence, LiftFence
  <2>2. \/ send'[s] = send[s]
        \/ send[s] \notin Closed /\ send'[s] \notin Closed
        \/ send'[s] = "CANCELLED" /\ send[s] \notin {"SENDING", "CONFIRMED"}
    <3>1. ASSUME NEW status \in {"AWAITING_APPROVAL", "PLANNED"}, SendLeg(status)
          PROVE  send'[s] = send[s] \/ (send[s] \notin Closed /\ send'[s] \notin Closed)
      BY <1>2, <3>1 DEF SendLeg, IInv, LegSays
    <3>2. ASSUME NEW r \in Sends, ApproveSend(r) \/ UnblockSend(r)
          PROVE  send'[s] = send[s] \/ (send[s] \notin Closed /\ send'[s] \notin Closed)
      BY <1>2, <3>2 DEF ApproveSend, UnblockSend
    <3>3. CASE CancelPayoutSend
      BY <1>2, <3>3 DEF CancelPayoutSend, Sends
    <3>4. CASE CancelTopup
      BY <1>2, <3>4 DEF CancelTopup, Sends
    <3>5. CASE UNCHANGED send
      BY <3>5
    <3>6. FailLegLooks \/ FailLeg \/ OpenHold \/ CloseHold \/ RaiseFence \/ LiftFence => UNCHANGED send
      BY DEF FailLegLooks, FailLeg, OpenHold, CloseHold, RaiseFence, LiftFence
    <3> QED BY <1>4, <3>1, <3>2, <3>3, <3>4, <3>5, <3>6 DEF People
  <2> QED BY <1>1, <2>1, <2>2, PaymentCommand
<1>5. CASE ResumeFuelled \/ \E r \in Sends : RetryBlocked(r)
  <2>1. UNCHANGED <<attempt, chain>> /\ (send'[s] = send[s] \/ (send[s] \notin Closed /\ send'[s] \notin Closed))
    BY <1>2, <1>5 DEF ResumeFuelled, RetryBlocked
  <2> QED BY <1>1, <2>1, PaymentCommand
<1>6. ASSUME NEW w \in Workers, PlanTopup(w) \/ BlockSend(w) PROVE [Asked(s)!Next]_(Asked(s)!vars)
  <2>1. UNCHANGED <<attempt, chain>>
    BY <1>6 DEF PlanTopup, BlockSend
  <2>2. send'[s] = send[s] \/ (send[s] \notin Closed /\ send'[s] \notin Closed)
    BY <1>2, <1>6 DEF PlanTopup, BlockSend
  <2> QED BY <1>1, <2>1, <2>2, PaymentCommand
<1>7. ASSUME NEW w \in Workers, Sign(w) PROVE [Asked(s)!Next]_(Asked(s)!vars)
  <2>1. PICK r \in Sends : r = work[w].tx[1]
    BY TxParts DEF IInv, TypeOK, Work
  <2>2. PICK n : n = Cardinality(Signed(r)) + 1
    OBVIOUS
  <2>3. /\ n <= MaxAttempts[r] /\ send[r] = "PLANNED" /\ send' = [send EXCEPT ![r] = "SENDING"]
        /\ attempt' = [attempt EXCEPT ![<<r, n>>] = "SIGNED"] /\ chain' = chain
    BY <1>7, <2>1, <2>2 DEF Sign, MaySign
  <2>4. n \in 1 .. MaxAttempts[r] /\ attempt[<<r, n>>] = "NONE"
    BY <2>2, <2>3, NextIsNew DEF IInv
  <2>5. PICK t \in Txs : t = <<r, n>>
    BY <2>4, TxInTxs
  <2>6. attempt[t] = "NONE" /\ chain[t].fate = "OPEN"
    BY <2>4, <2>5 DEF IInv, ChainSays
  <2>7. send'[s] = send[s] \/ (send[s] \notin Closed /\ send'[s] \notin Closed)
    BY <1>2, <2>3
  <2>8. attempt' = [attempt EXCEPT ![t] = "SIGNED"] /\ "SIGNED" \in AttemptStatuses \ {"NONE"}
    BY <2>3, <2>5 DEF AttemptStatuses, Undecided
  <2> HIDE DEF Closed
  <2> QED BY <1>1, <2>3, <2>6, <2>7, <2>8, PaymentRecords
<1>8. ASSUME NEW w \in Workers, NoteBroadcast(w) \/ SettleFinal(w) \/ Expire(w)
      PROVE  [Asked(s)!Next]_(Asked(s)!vars)
  <2>1. PICK t \in Txs : t = work[w].tx
    BY DEF IInv, TypeOK, Work
  <2>2. chain' = chain /\ t[1] \in Sends
    BY <1>8, TxParts DEF NoteBroadcast, SettleFinal, Expire
  <2>3. CASE ~ Live(t)
    <3>1. UNCHANGED <<attempt, send>>
      BY <1>8, <2>1, <2>3 DEF NoteBroadcast, SettleFinal, Expire, IInv, TypeOK, db
    <3> QED BY <1>3, <2>2, <3>1
  <2>4. CASE Live(t)
    <3>1. send[t[1]] = "SENDING" /\ attempt[t] # "NONE"
      BY <2>4 DEF IInv, SendSays, Live, Undecided
    <3>2. CASE NoteBroadcast(w)
      <4>1. attempt' = [attempt EXCEPT ![t] = "BROADCAST"] /\ send' = send /\ "BROADCAST" \in AttemptStatuses \ {"NONE"}
        BY <2>1, <2>4, <3>2 DEF NoteBroadcast, AttemptStatuses, Undecided
      <4> QED BY <1>1, <2>2, <3>1, <4>1, PaymentRecords
    <3>3. CASE Expire(w)
      <4>1. /\ attempt' = [attempt EXCEPT ![t] = "EXPIRED"] /\ "EXPIRED" \in AttemptStatuses \ {"NONE"}
            /\ send' = [send EXCEPT ![t[1]] = IF @ = "SENDING" THEN "PLANNED" ELSE @]
        BY <2>1, <2>4, <3>3 DEF Expire, AttemptStatuses
      <4>2. send'[s] = send[s] \/ (send[s] \notin Closed /\ send'[s] \notin Closed)
        BY <1>2, <2>2, <3>1, <4>1
      <4> HIDE DEF Closed
      <4> QED BY <1>1, <2>2, <3>1, <4>1, <4>2, PaymentRecords
    <3>4. CASE SettleFinal(w)
      <4>1. CASE UNCHANGED db
        BY <1>3, <2>2, <4>1 DEF db
      <4>2. CASE chain[t].fate = "LANDED" /\ Confirmed(t)
        <5>1. /\ attempt' = [attempt EXCEPT ![t] = "CONFIRMED"] /\ "CONFIRMED" \in AttemptStatuses \ {"NONE"}
              /\ send' = [send EXCEPT ![t[1]] = "CONFIRMED"]
          BY <4>2 DEF Confirmed, AttemptStatuses
        <5>2. send'[s] = send[s] \/ (send'[s] = "CONFIRMED" /\ send[s] # "CANCELLED" /\ t[1] = s)
          BY <1>2, <2>2, <3>1, <5>1
        <5> QED BY <1>1, <2>2, <3>1, <4>2, <5>1, <5>2, PaymentRecords
      <4>3. CASE FailedOnChain(t)
        <5>1. PICK after \in {"BLOCKED", "PLANNED"} :
                /\ attempt' = [attempt EXCEPT ![t] = "FAILED"]
                /\ send' = [send EXCEPT ![t[1]] = after]
          BY <4>3 DEF FailedOnChain
        <5>2. send'[s] = send[s] \/ (send[s] \notin Closed /\ send'[s] \notin Closed)
          BY <1>2, <2>2, <3>1, <5>1
        <5>3. "FAILED" \in AttemptStatuses \ {"NONE"}
          BY DEF AttemptStatuses
        <5> HIDE DEF Closed
        <5> QED BY <1>1, <2>2, <3>1, <5>1, <5>2, <5>3, PaymentRecords
      <4> QED BY <2>1, <3>4, <4>1, <4>2, <4>3 DEF SettleFinal
    <3> QED BY <1>8, <3>2, <3>3, <3>4
  <2> QED BY <2>3, <2>4
<1>9. ASSUME NEW w \in Workers, Deliver(w) PROVE [Asked(s)!Next]_(Asked(s)!vars)
  <2>1. PICK t \in Txs : t = work[w].tx
    BY DEF IInv, TypeOK, Work
  <2>2. UNCHANGED <<attempt, send>>
    BY <1>9 DEF Deliver
  <2>3. PICK reached \in BOOLEAN : chain' = [chain EXCEPT ![t].known = @ \/ reached]
    BY <1>9, <2>1 DEF Deliver
  <2>4. chain[t] \in Fact
    BY DEF IInv, TypeOK
  <2>5. PICK f : f = [chain[t] EXCEPT !.known = @ \/ reached]
    OBVIOUS
  <2>6. f \in Fact /\ f.fate = chain[t].fate
    BY <2>4, <2>5 DEF Fact
  <2>7. chain' = [chain EXCEPT ![t] = f]
    BY <2>3, <2>5 DEF IInv, TypeOK
  <2> QED BY <1>1, <2>2, <2>6, <2>7, PaymentChain
<1>10. CASE Chain \/ Reorganise
  <2>1. PICK t \in Txs : Include(t) \/ Lapse(t) \/ (\E p \in Providers : Solidify(t, p)) \/ Reorg(t)
    BY <1>10 DEF Chain, Reorganise
  <2>2. UNCHANGED <<attempt, send>>
    BY <2>1 DEF Include, Lapse, Solidify, Reorg
  <2>3. chain[t] \in Fact
    BY DEF IInv, TypeOK
  <2>4. CASE Include(t) \/ Lapse(t) \/ Reorg(t)
    <3>1. PICK fate \in Fates : chain' = [chain EXCEPT ![t].fate = fate] /\ (chain[t].fate = "OPEN" \/ (fate = "OPEN" /\ chain[t].solid = {}))
      BY <2>4 DEF Include, Lapse, Reorg, Fates
    <3>2. PICK f : f = [chain[t] EXCEPT !.fate = fate]
      OBVIOUS
    <3>3. f \in Fact /\ f.fate = fate
      BY <2>3, <3>2 DEF Fact
    <3>4. chain' = [chain EXCEPT ![t] = f]
      BY <3>1, <3>2 DEF IInv, TypeOK
    <3> QED BY <1>1, <2>2, <3>1, <3>3, <3>4, PaymentChain
  <2>5. CASE \E p \in Providers : Solidify(t, p)
    <3>1. PICK p \in Providers : chain' = [chain EXCEPT ![t].solid = @ \cup {p}]
      BY <2>5 DEF Solidify
    <3>2. PICK f : f = [chain[t] EXCEPT !.solid = @ \cup {p}]
      OBVIOUS
    <3>3. f \in Fact /\ f.fate = chain[t].fate
      BY <2>3, <3>2 DEF Fact
    <3>4. chain' = [chain EXCEPT ![t] = f]
      BY <3>1, <3>2 DEF IInv, TypeOK
    <3> QED BY <1>1, <2>2, <3>3, <3>4, PaymentChain
  <2> QED BY <2>1, <2>4, <2>5
<1>11. ASSUME NEW w \in Workers,
              \/ \E r \in Sends : Prepare(w, r)
              \/ \E t \in Txs : Follow(w, t)
              \/ SignRefused(w) \/ CheckBroadcast(w) \/ NotProved(w) \/ Crash(w)
              \/ \E p \in Providers : ReadHead(w, p) \/ ReadAnswer(w, p)
       PROVE  UNCHANGED <<send, attempt, chain>>
  BY <1>11 DEF Prepare, Follow, SignRefused, CheckBroadcast, NotProved, Crash, ReadHead, ReadAnswer
<1>12. CASE UNCHANGED vars
  BY <1>3, <1>12 DEF vars
<1> HIDE DEF Closed
<1> QED BY <1>3, <1>4, <1>5, <1>6, <1>7, <1>8, <1>9, <1>10, <1>11, <1>12 DEF Next, Proceed

\* The signer implements the payment it was asked for, the payout as the top-up: every
\* step of a worker, a provider, the chain or a person is a step of it or none
\* (onchain/src/sender.ts, monitor.ts).
THEOREM ImplementsPayment == ASSUME NEW s \in Sends PROVE Spec => Asked(s)!Spec
<1>1. Init => Asked(s)!Init
  BY PaymentInit
<1>2. IInv /\ [Next]_vars => [Asked(s)!Next]_(Asked(s)!vars)
  BY PaymentNext
<1> QED BY <1>1, <1>2, ChainSendInvariant, PTL DEF Spec, Asked!Spec

\* What a payment promises follows from its own steps.
LEMMA ToldTrueInit == ASSUME NEW s \in Sends PROVE Asked(s)!Init => Asked(s)!ToldTrue
  BY DEF Asked!Init, Asked!ToldTrue

LEMMA ToldTrueNext ==
  ASSUME NEW s \in Sends, Asked(s)!ToldTrue, [Asked(s)!Next]_(Asked(s)!vars)
  PROVE  Asked(s)!ToldTrue'
<1> USE DEF Asked!ToldTrue
<1>1. CASE Asked(s)!Move
  BY <1>1 DEF Asked!Move
<1>2. CASE Asked(s)!Undo \/ Asked(s)!Confirm \/ Asked(s)!Cancel
  BY <1>2 DEF Asked!Undo, Asked!Confirm, Asked!Cancel
<1>3. CASE UNCHANGED Asked(s)!vars
  BY <1>3 DEF Asked!vars
<1> QED BY <1>1, <1>2, <1>3 DEF Asked!Next

\* Whoever asked for a payment is told the truth, for good: told that it was paid, one
\* transfer was made; told that it was cancelled, none was and none can be; and no
\* second transfer in either case (ADR 0017 2.4).
THEOREM PaymentPromise == ASSUME NEW s \in Sends PROVE Spec => []Asked(s)!ToldTrue
<1>1. Asked(s)!Init => Asked(s)!ToldTrue
  BY ToldTrueInit
<1>2. Asked(s)!ToldTrue /\ [Asked(s)!Next]_(Asked(s)!vars) => Asked(s)!ToldTrue'
  BY ToldTrueNext
<1>3. Asked(s)!Spec => []Asked(s)!ToldTrue
  BY <1>1, <1>2, PTL DEF Asked!Spec
<1> QED BY <1>3, ImplementsPayment, PTL
=============================================================================
