------------------------------- MODULE ChainSend -------------------------------
(***************************************************************************)
(* The exchange's own signer: one USDT payout leg, the chain_send that     *)
(* pays it, the TRX top-up that send may need first, and the transactions  *)
(* signed for both.  Workers run packages/onchain (sender.ts, monitor.ts)  *)
(* one transaction at a time and may stop between any two; what they read  *)
(* before a transaction may be stale in it.  The chain and the providers   *)
(* that report it move on their own (external).                            *)
(*                                                                         *)
(* Outside the model: amounts and the TRX budget (whether a send is short  *)
(* of TRX is a choice), who approves, the signer's switch, a provider that *)
(* contradicts another (nothing is decided then), and the other purposes   *)
(* of a send, which run through the same code.                             *)
(***************************************************************************)
EXTENDS Integers, FiniteSets

CONSTANTS
  Workers,      \* worker processes, any of which may run the onchain cycle
  Providers,    \* the TRON gateways, all of which a proof of expiry asks
  MaxAttempts,  \* bound: transactions signed for each send, [Sends -> Nat]
  MaxFailed,    \* policy.maxFailedAttempts
  MaxMishaps    \* bound: crashes, reorganisations, holds, fences, fails by hand

Sends == {"PAYOUT", "TOPUP"}  \* the send of the leg, and its child

ASSUME BoundsAssumption ==
  /\ MaxAttempts \in [Sends -> Nat \ {0}]
  /\ MaxFailed \in Nat \ {0} /\ MaxMishaps \in Nat
ASSUME PartiesAssumption ==
  /\ IsFiniteSet(Workers) /\ IsFiniteSet(Providers) /\ Providers # {}

VARIABLES
  leg,      \* settlement_leg.status of the payout
  send,     \* chain_send.status of each send, NONE before it is planned
  failed,   \* chain_send.failed_attempts
  attempt,  \* chain_send_attempt.status of each transaction, by seq
  hold,     \* trade.hold: a blocking case is open
  held,     \* inrp2p_payouts_held(): the restore fence is raised
  failing,  \* payout_leg.fail found no send of the leg and goes on to fail it
  work,     \* what each worker is in the middle of, as it read it
  chain,    \* what became of each transaction on the chain
  mishaps   \* how many of the bounded disturbances happened

db    == <<leg, send, failed, attempt>>
vars  == <<leg, send, failed, attempt, hold, held, failing, work, chain, mishaps>>

-----------------------------------------------------------------------------
LegStatuses  == {"PENDING", "PROCESSING", "COMPLETED", "FAILED"}
SendStatuses == {"NONE", "AWAITING_APPROVAL", "PLANNED", "AWAITING_RESOURCES",
                 "BLOCKED", "SENDING", "CONFIRMED", "CANCELLED"}
Closed       == {"CONFIRMED", "CANCELLED"}
Undecided    == {"SIGNED", "BROADCAST"}
AttemptStatuses == Undecided \cup {"NONE", "CONFIRMED", "FAILED", "EXPIRED"}

Seqs == UNION {1 .. MaxAttempts[s] : s \in Sends}
Txs  == {t \in Sends \X Seqs : t[2] <= MaxAttempts[t[1]]}

\* On the chain: whether a node has the bytes, whether a block took them, and
\* which providers hold a solidified block that settles the question: the one
\* that includes the transaction, or one later than its expiration.
Fates == {"OPEN", "LANDED", "REVERTED", "LAPSED"}
Fact  == [known : BOOLEAN, fate : Fates, solid : SUBSET Providers]

Tasks == {"IDLE", "PREPARE", "CHECK", "DELIVER", "NOTE", "SETTLE", "PROVE"}
\* heads: providers whose solidified head was read past the expiration;
\* clear: those that then said they do not know the transaction.
Work  == [task : Tasks, tx : Txs, heads : SUBSET Providers, clear : SUBSET Providers]

Idle(w) == work[w].task = "IDLE"
Job(task, tx) == [task |-> task, tx |-> tx, heads |-> {}, clear |-> {}]
Turn(w, task, tx) == work' = [work EXCEPT ![w] = Job(task, tx)]
Done(w) == Turn(w, "IDLE", work[w].tx)

Signed(s) == {n \in 1 .. MaxAttempts[s] : attempt[<<s, n>>] # "NONE"}
Live(t)   == attempt[t] \in Undecided

\* outcome(): some provider reports the transaction in a solidified block.
Final(t) == chain[t].fate \in {"LANDED", "REVERTED"} /\ chain[t].solid # {}
\* What one provider answers for it: NOT_FOUND is possible.
NotFound(t, p) == ~(p \in chain[t].solid /\ chain[t].fate \in {"LANDED", "REVERTED"})

-----------------------------------------------------------------------------
Init ==
  /\ leg = "PENDING"
  /\ send = [s \in Sends |-> "NONE"]
  /\ failed = [s \in Sends |-> 0]
  /\ attempt = [t \in Txs |-> "NONE"]
  /\ hold = FALSE /\ held = FALSE /\ failing = FALSE
  /\ work = [w \in Workers |-> Job("IDLE", <<"PAYOUT", 1>>)]
  /\ chain = [t \in Txs |-> [known |-> FALSE, fate |-> "OPEN", solid |-> {}]]
  /\ mishaps = 0

Mishap == mishaps < MaxMishaps /\ mishaps' = mishaps + 1

(* --- People ------------------------------------------------------------- *)

\* sendPayoutLegInTx, by the desk or by autopay: the leg is sent and its send
\* planned, to be approved first above the threshold.
SendLeg(status) ==
  /\ ~hold /\ ~held
  /\ leg = "PENDING"
  /\ leg' = "PROCESSING"
  /\ send' = [send EXCEPT !["PAYOUT"] = status]
  /\ UNCHANGED <<failed, attempt, hold, held, failing, work, chain, mishaps>>

ApproveSend(s) ==
  /\ send[s] = "AWAITING_APPROVAL" /\ ~held
  /\ send' = [send EXCEPT ![s] = "PLANNED"]
  /\ UNCHANGED <<leg, failed, attempt, hold, held, failing, work, chain, mishaps>>

\* Defect: a send whose transaction may still land is cancelled like any other.
CancelPayoutSendAnyway ==
  /\ send["PAYOUT"] \notin Closed \cup {"NONE"}
  /\ send' = [send EXCEPT !["PAYOUT"] = "CANCELLED"]
  /\ leg' = IF leg = "PROCESSING" THEN "FAILED" ELSE leg
  /\ hold' = (hold \/ leg = "PROCESSING")
  /\ UNCHANGED <<failed, attempt, held, failing, work, chain, mishaps>>
\* chain_send.cancel of the payout's send: its top-up goes with it, and the leg
\* fails, which opens a blocking case.
CancelPayoutSend ==
  /\ send["PAYOUT"] \notin Closed \cup {"NONE", "SENDING"}
  /\ send["TOPUP"] # "SENDING"
  /\ send' = [s \in Sends |-> IF send[s] \in Closed \cup {"NONE"} THEN send[s] ELSE "CANCELLED"]
  /\ leg' = IF leg = "PROCESSING" THEN "FAILED" ELSE leg
  /\ hold' = (hold \/ leg = "PROCESSING")
  /\ UNCHANGED <<failed, attempt, held, failing, work, chain, mishaps>>

\* chain_send.cancel of the top-up: the send it fuels is decided again.
CancelTopup ==
  /\ send["TOPUP"] \notin Closed \cup {"NONE", "SENDING"}
  /\ send' = [send EXCEPT !["TOPUP"] = "CANCELLED",
                          !["PAYOUT"] = IF @ = "AWAITING_RESOURCES" THEN "PLANNED" ELSE @]
  /\ UNCHANGED <<leg, failed, attempt, hold, held, failing, work, chain, mishaps>>

UnblockSend(s) ==
  /\ send[s] = "BLOCKED"
  /\ send' = [send EXCEPT ![s] = "PLANNED"]
  /\ failed' = [failed EXCEPT ![s] = 0]
  /\ UNCHANGED <<leg, attempt, hold, held, failing, work, chain, mishaps>>

\* payout_leg.fail reads whether the signer pays the leg before it locks the
\* trade ...
FailLegLooks ==
  /\ Mishap
  /\ ~failing /\ send["PAYOUT"] \in {"NONE", "CANCELLED"}
  /\ failing' = TRUE
  /\ UNCHANGED <<leg, send, failed, attempt, hold, held, work, chain>>
\* ... and under the lock looks at the leg's status only.
FailLeg ==
  /\ failing
  /\ failing' = FALSE
  /\ leg' = IF leg = "PROCESSING" THEN "FAILED" ELSE leg
  /\ hold' = (hold \/ leg = "PROCESSING")
  /\ UNCHANGED <<send, failed, attempt, held, work, chain, mishaps>>

\* A blocking case is opened, or the last one closed; the fence is raised, or
\* lifted by two people.
OpenHold   == ~hold /\ Mishap /\ hold' = TRUE  /\ UNCHANGED <<leg, send, failed, attempt, held, failing, work, chain>>
CloseHold  == hold /\ hold' = FALSE /\ UNCHANGED <<leg, send, failed, attempt, held, failing, work, chain, mishaps>>
RaiseFence == ~held /\ Mishap /\ held' = TRUE  /\ UNCHANGED <<leg, send, failed, attempt, hold, failing, work, chain>>
LiftFence  == held /\ held' = FALSE /\ UNCHANGED <<leg, send, failed, attempt, hold, failing, work, chain, mishaps>>

(* --- The sender --------------------------------------------------------- *)

\* chain_send.resume: no top-up of the send is open any more.
ResumeFuelled ==
  /\ send["PAYOUT"] = "AWAITING_RESOURCES" /\ send["TOPUP"] \in Closed
  /\ send' = [send EXCEPT !["PAYOUT"] = "PLANNED"]
  /\ UNCHANGED <<leg, failed, attempt, hold, held, failing, work, chain, mishaps>>

RetryBlocked(s) ==
  /\ send[s] = "BLOCKED" /\ failed[s] < MaxFailed
  /\ send' = [send EXCEPT ![s] = "PLANNED"]
  /\ UNCHANGED <<leg, failed, attempt, hold, held, failing, work, chain, mishaps>>

\* runSender reads a planned send, asks the chain and builds and signs bytes.
Prepare(w, s) ==
  /\ Idle(w) /\ ~held
  /\ send[s] = "PLANNED"
  /\ \E n \in 1 .. MaxAttempts[s] : n = Cardinality(Signed(s)) + 1 /\ Turn(w, "PREPARE", <<s, n>>)
  /\ UNCHANGED <<leg, send, failed, attempt, hold, held, failing, chain, mishaps>>

\* chain_send.plan_topup.  Bound: the payout is topped up once.
PlanTopup(w) ==
  /\ work[w].task = "PREPARE" /\ work[w].tx[1] = "PAYOUT"
  /\ ~held
  /\ send["PAYOUT"] = "PLANNED" /\ send["TOPUP"] = "NONE"
  /\ send' = [send EXCEPT !["PAYOUT"] = "AWAITING_RESOURCES", !["TOPUP"] = "PLANNED"]
  /\ Done(w)
  /\ UNCHANGED <<leg, failed, attempt, hold, held, failing, chain, mishaps>>

\* Over its TRX cap, or the budget wallet is short.
BlockSend(w) ==
  LET s == work[w].tx[1]
  IN  /\ work[w].task = "PREPARE"
      /\ send[s] = "PLANNED"
      /\ send' = [send EXCEPT ![s] = "BLOCKED"]
      /\ Done(w)
      /\ UNCHANGED <<leg, failed, attempt, hold, held, failing, chain, mishaps>>

\* Defect: the status read before the transaction is not read again under the lock.
MaySignFromRead(s) ==
  /\ s = "PAYOUT" => ~hold /\ leg = "PROCESSING"
  /\ ~held
\* What sign() checks under the locks, after the signature exists.
MaySign(s) ==
  /\ s = "PAYOUT" => ~hold /\ leg = "PROCESSING"
  /\ ~held
  /\ send[s] = "PLANNED"

\* chain_send.sign: the signed bytes are kept and the send is SENDING.
Sign(w) ==
  LET s == work[w].tx[1]
      n == Cardinality(Signed(s)) + 1
  IN  /\ work[w].task = "PREPARE"
      /\ MaySign(s)
      /\ n <= MaxAttempts[s]
      /\ send' = [send EXCEPT ![s] = "SENDING"]
      /\ attempt' = [attempt EXCEPT ![<<s, n>>] = "SIGNED"]
      /\ Turn(w, "CHECK", <<s, n>>)
      /\ UNCHANGED <<leg, failed, hold, held, failing, chain, mishaps>>
SignRefused(w) ==
  /\ work[w].task = "PREPARE" /\ ~MaySign(work[w].tx[1])
  /\ Done(w)
  /\ UNCHANGED <<leg, send, failed, attempt, hold, held, failing, chain, mishaps>>

\* broadcastAttempt, in its three steps: look, send the bytes, note the answer.
CheckBroadcast(w) ==
  /\ work[w].task = "CHECK"
  /\ IF Live(work[w].tx) /\ ~held THEN Turn(w, "DELIVER", work[w].tx) ELSE Done(w)
  /\ UNCHANGED <<leg, send, failed, attempt, hold, held, failing, chain, mishaps>>
Deliver(w) ==
  /\ work[w].task = "DELIVER"
  /\ \E reached \in BOOLEAN : \E accepted \in {FALSE, reached} :
       /\ chain' = [chain EXCEPT ![work[w].tx].known = @ \/ reached]
       /\ IF accepted THEN Turn(w, "NOTE", work[w].tx) ELSE Done(w)
  /\ UNCHANGED <<leg, send, failed, attempt, hold, held, failing, mishaps>>
NoteBroadcast(w) ==
  /\ work[w].task = "NOTE"
  /\ attempt' = [attempt EXCEPT ![work[w].tx] = IF Live(work[w].tx) THEN "BROADCAST" ELSE @]
  /\ Done(w)
  /\ UNCHANGED <<leg, send, failed, hold, held, failing, chain, mishaps>>

(* --- The monitor -------------------------------------------------------- *)

\* Defect: only what a provider accepted is followed.
FollowedOnceAccepted(t) == attempt[t] = "BROADCAST"
\* runMonitor's query.
Followed(t) == Live(t)

\* FINAL, or nobody knows it: a proof of expiry, or the same bytes again.
Follow(w, t) ==
  /\ Idle(w) /\ Followed(t)
  /\ \/ Final(t)  /\ Turn(w, "SETTLE", t)
     \/ ~Final(t) /\ Turn(w, "PROVE", t)
     \/ ~Final(t) /\ Turn(w, "CHECK", t)
  /\ UNCHANGED <<leg, send, failed, attempt, hold, held, failing, chain, mishaps>>

\* settleFinal, the outcome being what the solidified block says.
MaySettle(t) ==
  chain[t].fate = "LANDED" /\ t[1] = "PAYOUT" => leg = "PROCESSING" /\ ~hold
Confirmed(t) ==
  /\ attempt' = [attempt EXCEPT ![t] = "CONFIRMED"]
  /\ send' = [send EXCEPT ![t[1]] = "CONFIRMED"]
  /\ leg' = IF t[1] = "PAYOUT" THEN "COMPLETED" ELSE leg
  /\ UNCHANGED failed
FailedOnChain(t) ==
  LET times == failed[t[1]] + 1
  IN  /\ attempt' = [attempt EXCEPT ![t] = "FAILED"]
      /\ failed' = [failed EXCEPT ![t[1]] = times]
      /\ send' = [send EXCEPT ![t[1]] = IF times >= MaxFailed THEN "BLOCKED" ELSE "PLANNED"]
      /\ UNCHANGED leg
SettleFinal(w) ==
  LET t == work[w].tx
  IN  /\ work[w].task = "SETTLE"
      /\ \/ /\ Live(t) /\ MaySettle(t)
            /\ IF chain[t].fate = "LANDED" THEN Confirmed(t) ELSE FailedOnChain(t)
         \/ /\ ~(Live(t) /\ MaySettle(t))
            /\ UNCHANGED db
      /\ Done(w)
      /\ UNCHANGED <<hold, held, failing, chain, mishaps>>

\* proveExpired asks every provider for its solidified head ...
ReadHead(w, p) ==
  /\ work[w].task = "PROVE" /\ p \notin work[w].heads
  /\ p \in chain[work[w].tx].solid
  /\ work' = [work EXCEPT ![w].heads = @ \cup {p}]
  /\ UNCHANGED <<leg, send, failed, attempt, hold, held, failing, chain, mishaps>>

\* Defect: the two questions are asked in either order.
MayAskAnytime(w, p) == p \notin work[w].clear
MayAsk(w, p) == p \in work[w].heads \ work[w].clear
\* ... and after that for the transaction.
ReadAnswer(w, p) ==
  /\ work[w].task = "PROVE" /\ MayAsk(w, p)
  /\ NotFound(work[w].tx, p)
  /\ work' = [work EXCEPT ![w].clear = @ \cup {p}]
  /\ UNCHANGED <<leg, send, failed, attempt, hold, held, failing, chain, mishaps>>

\* Defect: the wall clock is past the expiration, and that is proof enough.
ProvedByClock(w) == TRUE
Proved(w) == work[w].heads = Providers /\ work[w].clear = Providers

\* chain_send.expire: the attempt is closed and the send may be signed again.
Expire(w) ==
  LET t == work[w].tx
  IN  /\ work[w].task = "PROVE" /\ Proved(w)
      /\ \/ /\ Live(t)
            /\ attempt' = [attempt EXCEPT ![t] = "EXPIRED"]
            /\ send' = [send EXCEPT ![t[1]] = IF @ = "SENDING" THEN "PLANNED" ELSE @]
         \/ ~Live(t) /\ UNCHANGED <<attempt, send>>
      /\ Done(w)
      /\ UNCHANGED <<leg, failed, hold, held, failing, chain, mishaps>>
NotProved(w) ==
  /\ work[w].task = "PROVE"
  /\ \E p \in Providers :
       \/ p \notin work[w].heads /\ p \notin chain[work[w].tx].solid
       \/ p \in work[w].heads \ work[w].clear /\ ~NotFound(work[w].tx, p)
  /\ Done(w)
  /\ UNCHANGED <<leg, send, failed, attempt, hold, held, failing, chain, mishaps>>

Crash(w) ==
  /\ ~Idle(w) /\ Mishap
  /\ Done(w)
  /\ UNCHANGED <<leg, send, failed, attempt, hold, held, failing, chain>>

(* --- The chain ---------------------------------------------------------- *)

Include(t) ==
  /\ chain[t].known /\ chain[t].fate = "OPEN"
  /\ \E fate \in {"LANDED", "REVERTED"} : chain' = [chain EXCEPT ![t].fate = fate]
  /\ UNCHANGED <<leg, send, failed, attempt, hold, held, failing, work, mishaps>>
Lapse(t) ==
  /\ attempt[t] # "NONE" /\ chain[t].fate = "OPEN"
  /\ chain' = [chain EXCEPT ![t].fate = "LAPSED"]
  /\ UNCHANGED <<leg, send, failed, attempt, hold, held, failing, work, mishaps>>
Solidify(t, p) ==
  /\ chain[t].fate # "OPEN" /\ p \notin chain[t].solid
  /\ chain' = [chain EXCEPT ![t].solid = @ \cup {p}]
  /\ UNCHANGED <<leg, send, failed, attempt, hold, held, failing, work, mishaps>>

\* A block no provider has solidified yet is reorganised away.
Reorg(t) ==
  /\ chain[t].fate # "OPEN" /\ chain[t].solid = {}
  /\ Mishap
  /\ chain' = [chain EXCEPT ![t].fate = "OPEN"]
  /\ UNCHANGED <<leg, send, failed, attempt, hold, held, failing, work>>

-----------------------------------------------------------------------------
People ==
  \/ \E status \in {"AWAITING_APPROVAL", "PLANNED"} : SendLeg(status)
  \/ \E s \in Sends : ApproveSend(s) \/ UnblockSend(s)
  \/ CancelPayoutSend \/ CancelTopup
  \/ FailLegLooks \/ FailLeg
  \/ OpenHold \/ CloseHold \/ RaiseFence \/ LiftFence

\* The steps that bring what a worker is in the middle of to its end.
Proceed(w) ==
  \/ PlanTopup(w) \/ BlockSend(w) \/ Sign(w) \/ SignRefused(w)
  \/ CheckBroadcast(w) \/ Deliver(w) \/ NoteBroadcast(w)
  \/ SettleFinal(w)
  \/ \E p \in Providers : ReadHead(w, p) \/ ReadAnswer(w, p)
  \/ Expire(w) \/ NotProved(w)

Chain == \E t \in Txs : Include(t) \/ Lapse(t) \/ \E p \in Providers : Solidify(t, p)
Reorganise == \E t \in Txs : Reorg(t)

Next ==
  \/ People
  \/ ResumeFuelled \/ \E s \in Sends : RetryBlocked(s)
  \/ \E w \in Workers :
       \/ \E s \in Sends : Prepare(w, s)
       \/ \E t \in Txs : Follow(w, t)
       \/ Proceed(w) \/ Crash(w)
  \/ Chain \/ Reorganise

\* The chain goes on and providers catch up; the cycle runs every minute and
\* examines every live attempt; holds are closed and the fence is lifted.
Fairness ==
  /\ WF_vars(Chain)
  /\ \A w \in Workers : WF_vars(Proceed(w))
  /\ \A t \in Txs :
       /\ SF_vars(\E w \in Workers : Final(t) /\ Follow(w, t))
       /\ SF_vars(\E w \in Workers : Follow(w, t) /\ work'[w].task = "PROVE")
  /\ WF_vars(CloseHold) /\ WF_vars(LiftFence)

Spec == Init /\ [][Next]_vars /\ Fairness

-----------------------------------------------------------------------------
(* The payment each send is: see Payment. *)
Told(s) == CASE send[s] = "CONFIRMED" -> "PAID" [] send[s] = "CANCELLED" -> "CANCELLED" [] OTHER -> "OPEN"
Moved(s) == {n \in Signed(s) : chain[<<s, n>>].fate = "LANDED"}
Asked(s) == INSTANCE Payment WITH Transfers <- Seqs, told <- Told(s), moved <- Moved(s)

TypeOK ==
  /\ leg \in LegStatuses
  /\ send \in [Sends -> SendStatuses]
  /\ failed \in [Sends -> 0 .. MaxFailed]
  /\ attempt \in [Txs -> AttemptStatuses]
  /\ hold \in BOOLEAN /\ held \in BOOLEAN /\ failing \in BOOLEAN
  /\ work \in [Workers -> Work]
  /\ chain \in [Txs -> Fact]
  /\ mishaps \in 0 .. MaxMishaps

\* ADR 0017 2.4: whatever crashes, stale reads and lost answers come between, a
\* send never has two transactions that landed or may still land.
OneTransferPerSend ==
  \A t, u \in Txs :
    t[1] = u[1] /\ t # u =>
      ~ /\ attempt[t] # "NONE" /\ chain[t].fate \in {"OPEN", "LANDED"}
        /\ attempt[u] # "NONE" /\ chain[u].fate \in {"OPEN", "LANDED"}

\* IX104, IX105: a send is SENDING exactly while one transaction of it is
\* undecided, and there is never a second one.
SendingIsUndecided ==
  \A s \in Sends :
    Cardinality({n \in Signed(s) : Live(<<s, n>>)}) = (IF send[s] = "SENDING" THEN 1 ELSE 0)

\* What the records say of a transaction the chain says too: a leg is paid and a
\* send confirmed only by a transfer that landed, an attempt is called expired
\* only when it never can.
RecordedAsItWas ==
  /\ TypeOK
  /\ \A t \in Txs :
       /\ attempt[t] = "CONFIRMED" => chain[t].fate = "LANDED"
       /\ attempt[t] = "FAILED"    => chain[t].fate = "REVERTED"
       /\ attempt[t] = "EXPIRED"   => chain[t].fate = "LAPSED"
  /\ leg = "COMPLETED" => \E n \in Signed("PAYOUT") : attempt[<<"PAYOUT", n>>] = "CONFIRMED"

\* chain_send.cancel: no transaction of a cancelled send landed or still can, so
\* a replacement leg pays nothing twice.
CancelledNeverLands ==
  \A t \in Txs :
    send[t[1]] = "CANCELLED" /\ attempt[t] # "NONE" => chain[t].fate \in {"REVERTED", "LAPSED"}

\* monitor.ts: every signed transaction is followed until the chain decides it,
\* a crash right after the signature included, unless its leg was failed by hand.
EveryAttemptDecided ==
  \A t \in Txs : Live(t) ~> (~Live(t) \/ leg = "FAILED")
=============================================================================
