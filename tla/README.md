# INRP2P Exchange: a verification model

TLA+ models of the exchange's core behaviour, the TLC runs that check them and the TLAPS
proofs about them. Paths are relative to the repository (`packages/…`, `apps/…`, `docs/…`).
`PROJECT.json` names, for every definition that models code, the lines it models.

## 1. The system

INRP2P settles USDT against INR for clients. A client accepts a quote; a trade opens; the client
pays (INR for a BUY of USDT, USDT for a SELL); the exchange pays the client; a counterparty (the
route, a trader) is settled beside it. Every operation is a *command*: one READ COMMITTED
Postgres transaction (`packages/commands/src/pipeline.ts`: claim the idempotency key, authorise,
handle, store the result, commit). Commands lock their aggregates `FOR UPDATE` in one global order
(trade, route obligation, leg, capacity day, wallet, deposit address, movement) and deferred
database triggers re-check the financial invariants at commit. Events leave through a
transactional outbox; a worker (`apps/worker/src/tasks.ts`) runs crons: outbox every minute, the
signer every minute, the capacity rollover every five minutes, scanners and deadlines.

| Component | State | Operations | Interacts with | Hard behaviour |
|---|---|---|---|---|
| Settlement (`packages/settlement`, `packages/trades`) | `trade.lifecycle_state`, `hold`, `settlement_leg`, `exception_case`, adjustments | record, confirm, revert client legs; plan, send, confirm, fail, cancel payouts; refunds; cancel; adjust; cases | capacity, custody, funding, signer, ledger, outbox | late and repeated transfers, failures, refunds against payouts, a read before the lock |
| INR capacity (`packages/inr-accounts`) | `inr_account_day`, `capacity_reservation` | reserve, consume, release, refund, set limits, day rollover | every INR payment | stale list read without a lock, midnight, lowered limits |
| Outbox (`packages/outbox`) | `outbox_event`, `outbox_delivery` | enqueue, claim, dispatch, give up | every command, notifications | crashes, savepoints, several workers |
| Signer (`packages/onchain`, `settlement/src/signed.ts`, `network/src/sends.ts`, `adapters/src/tron-send.ts`) | `chain_send`, `chain_send_attempt`, the restore fence | plan, approve, sign, broadcast, follow, settle, expire, cancel, unblock | payout legs, TRON providers | two workers, stale reads, lost answers, lagging providers, crash after signing |
| Command pipeline (`packages/commands`) | `idempotency_key` | claim, replay | all | two requests with one key |
| Quotes (`packages/quotes`, `packages/pricing`) | request, quote, link, challenge, sealed code | create, send, replace, cancel, link, revoke, ask for a code, decide in the app or by link, expire, deliver codes | opens the trade; outbox delivers codes | expiry against acceptance, steps between link, verification and command |
| Scanner and custody (`packages/scanner`, `packages/treasury`) | scan cursor, transfers, deposit addresses | scan, verify, orphan, assign, cool down | settlement | partial windows, orphaned transfers, address reuse |
| Route obligations and funding (`settlement/src/obligations.ts`, `routesettlements.ts`, `funding.ts`) | obligation, route settlement, earmarks | record, confirm, fail, earmark | settlement, signer | reads without a lock, one source for several uses |
| P2P escrow (`settlement/src/p2p.ts`, `disputes.ts`, `claim.ts`) | escrow stage, dispute | pay, confirm receipt, deadlines | settlement, traders | a deadline racing a receipt |
| Traders (`packages/traders`) | orders, reserve, rewards | offer, accept, hold, reconcile, apply reserve | routes, capacity | a hold ending during reconciliation |
| Audit (`packages/audit`) | events, seals, archive | append, seal, export, recover | all commands | commits out of sequence, recovery to an earlier state |
| Ledger, kernel, network budget | journals, pure arithmetic, TRX holds | post, convert, hold | all | rounding, caps |
| Identity, desks, portal, notifications, web | users, views, messages | | | no state the properties are about |

What makes each correct: *Settlement*: the client is paid once, in full and never beyond the obligation, given
back at most what it brought, never both paid and unwound (FI-20, FI-21, FI-25). *Capacity*: FI-30, FI-31, a
day's rows equal the payments behind them. *Outbox*: a dispatched event was delivered, nothing recorded is
repeated, every event ends. *Signer*: one transfer per send (ADR 0017 §2.4), records that match the chain.
*Pipeline*: one effect per key. *Audit*: seals and archives agree with the trail. *Quotes*: one trade per
request, none from an expired quote. *Scanner*: no block passed unseen. *Custody*: an address belongs to one
trade until it has cooled down. *Obligations and funding*: no earmark beyond its source, delivery before
payment. *P2P*: exactly one outcome of an escrow.

## 2. The modules

| Module | What it is |
|---|---|
| `Settlement` | one client trade: state, legs, blocking cases, effective obligations |
| `ClientAccount` | the promise to the client, in confirmed money only; `Settlement` implements it |
| `MCSettlement` | `Settlement` for TLC (symmetry of the legs) |
| `SettlementProofs` | the theorems of a trade, the refinement of `ClientAccount` among them, and the lemmas on sums over legs |
| `Sums`, `SumsProofs` | what the rows of a table add up to (`Capacity`, `Funding`, `P2P`, `TraderCore`), and lemmas on it |
| `Capacity` | the daily capacity of one INR account and the payments that move it |
| `ReservationProofs` | the theorems about what is set aside: a day's row of `Capacity`, the earmarks of `Funding` |
| `Outbox`, `MCOutbox` | the dispatcher, its savepoints and its workers |
| `Delivery` | what the outbox promises of one event to its publisher and its consumers |
| `WorkerProofs` | the theorems about what the worker's jobs rest on: outbox, scanner, pipeline and trail |
| `Quotes`, `MCQuotes` | one request, its quotes, the link of a quote with its codes, the client's decision |
| `QuotesProofs` | the theorems about deals, decisions, codes and links |
| `ChainSend`, `MCChainSend` | the signer: a payout send, its top-up, their transactions, the chain |
| `Payment` | what the signer promises whoever asks for a payment: once or not at all, and a true answer |
| `ChainSendProofs` | the theorems about a send and its transactions |
| `Custody` | the assignment of deposit addresses, their cooldown and their reuse |
| `Scanner`, `MCScanner` | the scanner over that custody: windows, budgets, cursors, reorganisations |
| `Funding`, `MCFunding` | a counterparty-funded trade: obligation, route settlements, earmarks on movements |
| `P2P`, `MCP2P` | one P2P deal: payments, disputes, deadlines, the escrow's two ways out |
| `P2PProofs` | the theorems about a P2P deal |
| `Commands` | the command pipeline: idempotency keys over transactions that commit or roll back |
| `AtMostOnce` | what the pipeline promises: a request is one step, done once for its key |
| `AuditTrail`, `MCAuditTrail` | the audit rows those commands write, seals, the archive, recovery to an earlier state |
| `TraderCore` | one trader's standing, block, orders and reserve figures: what its commands read and share |
| `TraderReserve` | the Security Reserve and the deliveries it stands in for |
| `TraderOrders`, `MCTrader` | offers, holds, quotes and reconciliation over them, and the whole specification |
| `TraderProofs` | the theorems about a trader's quotes, its applied reserve and what its block holds |

**Settlement.** An action is a whole command, because a command locks the trade first and commits
once. `recordClientDeposit` is the exception: it reads the deposit assignment before it locks the
trade, so it is `AttributeDeposit` and then `RecordClientDeposit`. A leg's side is CLIENT
(`CLIENT_TO_EXCHANGE`), PAYOUT (`EXCHANGE_TO_CLIENT`), UNWIND or EXCESS (`REFUND_TO_CLIENT` of that
kind). `hold` is "a blocking case is open" (`syncTradeHold`). `Advanced` is `advanceTrade`, and every
command that calls it in the code applies it in its action. The SQL sums are cardinalities of sets
of minor units, which is the same number and needs no recursion. Database triggers: IX093 (excess
within the overpayment) is a guard because it refuses commands that otherwise go through; IX020,
IX021 and IX025 are not guards, because the runs and the proofs show that no command reaches them.
Cases opened by evidence checks are represented by `OpenException`. P2P trades, who acts, payment
evidence and finality are left out (any command may be tried at any time).

**ClientAccount.** Seven steps on the confirmed totals. `Account` in `Settlement` maps `received`,
`paid`, `unwound` and `returned` to the sums of confirmed legs and `status` to the trade's end.

**Capacity.** Ids stand for a reservation with the payment it was made for: a payout or refund leg, a
recorded route settlement or reward payout, or a manual reservation. The payment commands carry
only what concerns capacity. The rollover is two actions, since `releasePastDayReservations` reads
its list before it takes any lock.

**Outbox.** A dispatch is one transaction in small steps, with the stack of savepoints Postgres
keeps: an `outbox_handler` savepoint survives a rollback to it, and the catch block of a later event
finds it. Handlers' effects are outside the transaction, so they survive a crash.

**Delivery.** One event alone, with its consumers, its attempts and its status. `Promised(e)` in `Outbox` maps an
event's row and its deliveries to it. An attempt may go uncounted: a neighbour without a handler can roll back past it.

**Quotes.** A command locks the request and then the quote, so it is one action. Three things are
not under those locks and are steps: `requestLinkOtp` resolves the link first (`OpenToAsk`, `AskCode`);
`decideViaLink` resolves the link, verifies the code in a transaction that only locks the challenge, and
then runs a command that reads the challenge without locking it and consumes it (`OpenToDecide`,
`VerifyRight`, `BeginDecision`, `CommitDecision`); and `deliverAcceptanceCode` holds the delivery row
while the provider is asked (`OpenCode` to `FinishDelivery`), so whoever closes the challenge waits
(`Undisturbed`). `lock` is the session inside its command. `revokeQuoteLink` takes neither lock and fits
between any two of these steps. IX040 (a closed challenge is final) is the guard `StillPending`, because
the code relies on it; the unique indexes on live and accepted quotes, IX044 and the deferred check of the
consumed challenge are not guards: the run shows no command meets them. Left out: what a quote must
satisfy to be priced and sent, rate limits, idempotency keys, and what acceptance opens beyond the trade.

**ChainSend.** Each worker carries the step it is in with what it read (`work`), so everything read
before a transaction may be stale in it. `chain` (external) holds, for each transaction, whether a
node has its bytes, what became of it and which providers have solidified the deciding block.
`proveExpired` asks every provider for its head and then for the transaction, one provider at a time.
Cancelling (`CancelPayoutSend`) also cancels the top-up and fails the leg, as `cancelInTx` does. IX104,
IX105 and the one-live index are not guards: `SendingIsUndecided` shows the code never meets them.
Whether a send is short of TRX is a choice. `Asked` maps a send to `Payment`: what its record says, and which of its
transactions the chain carries. Other purposes of a send, caps, the signer switch and a
provider contradicting another are left out.

**Custody and Scanner.** `Custody` keeps which subject holds each deposit address, and since when it
cools down; `Scanner` extends it with the chain and the scanner. Beginning a scan reads the heads (one
provider may lag), the cursor and the list of watched addresses at once. Reading an address is a step that leaves the
run with the transfers it is to record (`todo`); each is recorded by a command of its own, and the run goes on
when they have rows. A recording command, of a run or of the desk (`submitTxForVerification`), is two steps because it
reads who holds the address before it takes any lock: `LookUp`, then `RecordDeposit`, with anything in between. A
trade that was read so is given the leg whatever became of it (`firstleg.ts:167`); a route obligation is asked under
its lock whether it is open (`PaysFor`). Subjects are trades or route obligations (`Trades`), and only a client leg is
let go when its trade is cancelled (`Detached`) or its transfer fails or is orphaned (`LetGo`): a recorded delivery of
an obligation stays as it is until the desk fails it (`Unclaim`). Transfers go only to addresses somebody was
given, or to wallets. A first run starts at the lookback and not at the first block (`scan.ts`), so what was mined
before it is marked `unwatched`, as what went to an address nobody watched is: both are for the backfill to find.
Left out: the earmark refusal IX088, trader reserve addresses (`trader_id`), what the desk records by
`recordRouteSettlement` on a wallet's address, the check for the exchange's own fee sweeps, a transfer handed over
that has its row already (it is only found), backfill, the quorum of finality.

**Funding.** `confirmRouteSettlement` and `failRouteSettlement` read the settlement without a lock and update it
later; the model lets either fire for whatever was ever RECORDED, and only the transition trigger (`Transition`)
refuses the second. Oldest-first allocation is abstracted to any split; IX084 (places), fee sweeps and escrow
returns are left out, and the lifecycle guard of planning a payout is "some client money is confirmed".

**P2P.** Every window may be over at any moment, so that no order of clock and people is missed; the deadline job
selects deals before it locks them, and `picked` keeps what it selected. The escrow is delivered and returned
whole. Left out or folded: the desk's refunds of rupees on a BUY, hand-made USDT payouts, network budget holds,
the detail of the sender check.

**Commands and AuditTrail.** A command claims its key, is authorised, does its work and writes its audit row in
the step `Run`; `Commit` and `RollBack` are separate, so two transactions overlap. The isolation is READ
COMMITTED: a PENDING row is never visible to another transaction (the second request waits on the unique index),
so `IN_PROGRESS` is never answered. A refused replay changes nothing. `AuditTrail` extends `Commands` with the
clock, the sealing job, one exporter and recovery. A tick ends with its beat: what commits after a beat is
strictly later. Hashes are injective. A range in the bucket carries the set of its seals; `Walk` is the
verifier's walk, one range or gap a step, long enough to end, and `Findings` what it reports. `BackUp` chooses
the recovery point at any time; after it the sequences go back (a dump) or stay ahead (a log), and a recovery
takes an instant. Verification is asked after a heartbeat has seen the new timeline and when nothing is left to
adopt, as the daily job does (`tasks.ts:143`). `Requests` in `Commands` maps events to work done and answers to
what was heard. Callers answered with lost effects ask again. The assumption `TxLimit <= Settle` is the one
`seal.ts:13` makes: nothing in the code bounds a whole transaction (the 30 s limit is per statement). A fence
raised by hand, unreadable objects and the grace period of NOT_ARCHIVED are left out, as are two details: the
verifier lists at most 1000 objects (`export.ts:202`), here all of them; and inside one instant a heartbeat comes after
the commits, so that a commit just after a beat is not told from one at the next instant.

**TraderCore, TraderReserve, TraderOrders.** A command that locks the request, the trader and the order is one
action. Four things are steps because the code holds less: routing locks only the request, reads the trader and
writes the offer (`BeginAssign`, `EndAssign`); a withdrawal request holds the trader and reads the balance and then
the rest of the figures (`BeginWithdraw`, `EndWithdraw`); deliveries are recorded, confirmed and failed under the
obligation's lock alone; and the scanner sends an approved application without the trader. `over` says that an
offer's or a hold's time is up, so the sweep (`ExpireOffer`, `EndHold`) and a late answer meet in every order.
`deal` is what the rest of the settlement says of a started order: funded, delivered, on its way, paid, dropped, and
what adjustments added to or took from its side. What is owed is `Side`, the frozen terms and those adjustments, and it
moves while deliveries are on their way: `ApproveAdjustment` looks at what is confirmed only, and `RecordByDesk` (the
desk's `recordRouteSettlement`) records up to that as well, so what is open (`DeliveryOpen`) may be negative.
IX075 is a guard, `requireOrderForQuote` being its check; IX073 and IX095 are not, because the run and the proofs
show that no command meets them. Left out: several traders, SELL blocks, P2P and desk orders, applications of the
kind HOLD, order limits, rewards, the operator's ceilings, refunding a funded trade before it is dropped, the check
that the route is ACTIVE, the rupee side of a deal (one step, `PayTrader`) and of its adjustments, and what the client's
own side may refuse of an adjustment. One quote is made per order; a delivery of the trader's own or recorded by the
desk is one unit.

## 3. The runs

| Run | Shows | Bounds | Why they are enough |
|---|---|---|---|
| `settlement` | FI-20, FI-21, FI-25, T4 (with the stale deposit attribution), T9/T10, completion, and `Settlement => ClientAccount` | BUY with 1 extra case and SELL with none, 3 legs, client amounts 1..2, terms 1..2 | two transfers of the client and one leg that leaves; a failed payout with its replacement; a cancel between attribution and record; amounts below, at and above the receivable |
| `capacity` | IX031, FI-30, FI-31, used = sent and nothing held for an ended payment (`DayIsExact`), and past days close | 2 payments, 2 days, capacities 1 and 3, rollover limit 1 | a payment that fits one capacity and not the other; both days; a batch smaller than the stale list |
| `outbox` | deliveries, no repeats, every event ends | 3 events (two handlers, one, none), 2 workers, 2 attempts, 1 crash, batch 3 | an event without a handler behind one that failed, and every way of sharing the batch |
| `quotes` | FI-05, FI-06, FI-07, the life of a code, and revocation | 2 quotes, 2 codes, 2 recipients, 2 visitors, 3 instants, 2 attempts, 2 codes per window | a quote replaced by another; two open codes of one quote; two decisions at once; a code that runs out before its quote, a quote that runs out, a request nobody touched |
| `chain_send` | one transfer per send, records as the chain has them, cancelled sends never land | 2 workers, 2 providers, 2 payout transactions, 1 top-up transaction, 1 mishap | a second transaction after a dead one, with a stale worker and a provider behind |
| `chain_send_progress` | every signed transaction is decided | 1 worker, 2 providers, one transaction each, 2 mishaps | a crash right after the signature and another in the recovery |
| `scanner` | money goes to who held the address, whoever is cancelled while it is recorded, and who let go of it gains nothing more; the cursor passes nothing; a final transfer stays | 1 pool address, 1 wallet, 2 trades and 1 obligation, 2 transfers, 2 runs, 2 recording commands, overlap, lag and budget 1, lookback 0, window 2, 3 blocks, 1 reorganisation; three instances in one | an address given again after its cooldown with an earlier transfer on its way; a cancel between the read and the write of one command with another command beside it; a budget spent inside a window; an answer that stops short at one address and a whole one at the other; two runs that began at different heads and end in either order |
| `funding` | earmarks within what arrived and was allocated, the counterparty paid only out of what it brought | 3 legs, 3 settlements, 1 send, amounts 1..2, 1 adjustment | two recorded settlements with one outgoing use over both, a failure racing its confirmation, an adjustment in between |
| `p2p` | one outcome per deal, decisions stand, no deadline takes a payment that was made | 3 rupees due, 3 payments, BUY and SELL | a partial payment, one disputed and one late |
| `unwind_stuck` | a disagreement, below | 2 rupees due, 2 payments | a shortest counterexample exists |
| `audit_trail` | one effect per key, seals never change, an honest archive verifies | 2 requests of one key and one without, 5 instants, 3 sequence numbers, limit and slack 0, 1 restore | a row committed out of order, a recovery behind a seal, a range of a run that died; also explored once with 2 restores (10.6 million states) |
| `trader_orders` | capacity held exactly once, no live quote without its order, what is confirmed stays within what is owed | requests of 1 and 2 units, 2 orders, 2 rates, capacities 2 and 3, required reserve 1 or 2, 2 units of reserve, 2 changes of settings, a side raised by 1 at most, 2 recorded by the desk; two instances in one | two requests that fit together in one capacity and not in the other; an order offered again after a release; a part of an order delivered by the trader and a part by its reserve; more recorded than is open and only a part of it confirmed; a side lowered under what is on its way |

Two runs hold several instances in one, since their largest cases need not meet: a state constraint of the MC module
keeps every state within one of them, and so the states that lead to it. In `MCScanner` these are `Desk` (two subjects
in turn at one address, trades or the obligation, two commands of the desk, and all that follows a record:
confirmation, reversal, the sweep; no run), `OneScan` (one run over the wallet and the address of one trade, which
comes and goes) and `TwoScans` (two runs over the wallet); the runs record what they find, and nothing is confirmed
beside them, since `NothingPassed` only asks whether a transfer has a row. In `MCTrader` they are `Trading` (two
orders, all settings, deliveries of the trader itself as far as they are open) and `Owing` (one order, whose side is
adjusted and which the trader, its reserve and the desk's recordings deliver).

Amounts are minor units, scaled down: the code only adds and compares them here. `CHECK_DEADLOCK
FALSE` stands where the system may really stop: a trade that ended, a queue that is empty, the last
day of the bound, a send that is closed. Every `Defect` operator is a plausible bug that is not part of
the specification; it shows that the property beside it in `PROJECT.json` can fail.

`Settlement => ClientAccount` is a property of the run `settlement`. The refinements of `Payment`, `Delivery` and
`AtMostOnce` are proved; they were tried with TLC first, one send, event or instance at a time, on instances of the
size of the runs above, and are in no run of their own (TLC takes no instance with a parameter as a property).

**Fairness.** `Capacity`: the rollover job (`tasks.ts`, every five minutes) is weakly fair in its two
steps. `Outbox`: each worker's dispatch is weakly fair (a job per event and a cron every minute; a
handler returns or throws). `ChainSend`: the chain goes on and providers catch up; a worker's step
comes to its end; strong fairness, per transaction, of examining it when it is final and of trying to
prove it expired, since `onchain_cycle` runs every minute and examines every live attempt whatever
else it does; holds are closed and the fence is lifted by people, without which nothing that is held
can settle. The other modules
assume no fairness: people drive them, and their properties are safety.

**Finding** (the violation run `unwind_stuck`; the quote is in `PROJECT.json`). A SELL whose trader paid a part that
was confirmed, and whose rest is decided not paid, unwinds; its refund is refused beside a confirmed payment and a
further payment is refused beside the unwind, so the escrow can go neither way.

**Seen while modelling**, without a run of their own.

Settlement: cancelling a planned excess refund after an adjustment can settle the client's side, and `cancelPayoutLeg`
does not call `advanceTrade` (`legs.ts:424`), so the trade waits in FIRST_LEG_DETECTED for nothing.
`recordClientDeposit` reads the assignment before the trade lock (`firstleg.ts:127`, `:167`): a cancel in between
leaves a detected leg on a cancelled trade, against `firstleg.ts:461` ("a detected client leg belongs to a live
trade"); its confirmation is refused and no case says that the funds came after the trade was closed, until the desk
reverts it. `ClaimsAreOwn` excepts just the transfers recorded that way (`late`), and nothing else. `failPayoutLeg`
looks for a send before it locks the trade (`legs.ts:447`): when the leg gets its send in between, it is failed beside
a live send, although failing means that "the money provably never left" (`legs.ts:455`); the signed transaction
lands, cannot be settled on a failed leg, and the case of the failure asks for a replacement that would pay again.
`ChainSend` has that race (`FailLegLooks`, `FailLeg`); the properties of `chain_send` are of one send and hold all the
same. An adjustment after an excess was planned can leave it above the overpayment (FI-25's last clause; only commands
that touch the refund are refused by IX093). `failPayoutLegInTx` does not look at the side, so a detected client leg
failed that way leaves the trade FIRST_LEG_DETECTED with nothing arriving. A refund leg marked sent through
`payout_leg.send` moves FIRST_LEG_CONFIRMED to SETTLING with no payout (T5), and an INR one can then never be
confirmed, its capacity being consumed already. A late deposit confirmed on a COMPLETED trade leaves it above its
receivable.

Capacity: the rollover releases the reservation of a route settlement or reward payout that is RECORDED and not yet
confirmed (`capacity.ts:276`), and confirming it then fails for good. A leg sent after midnight and before the
rollover uses yesterday's capacity.

Outbox: an `outbox_handler` savepoint survives a rollback to it (`dispatcher.ts:70`); an event without a handler
later in the batch rolls back to it and undoes the deliveries between.

Quotes: a link decision retried after a lost answer is refused by the verification step, the quote being decided,
before its idempotency key is looked at (FI-50 promises the recorded answer). `requestLinkOtp` can make and mail a
code for a link revoked a moment before, which `RevokedLinkDecidesNothing` shows to be of no use. A link decision
and `revokeQuoteLink` lock challenges in different orders and can deadlock, which Postgres resolves by refusing one.
`revokeDeskDealLink` lists requests before it locks them, and only the transition trigger keeps an accepted one from
being withdrawn.

Scanner and custody: an ORPHANED transfer that is mined again is skipped as already recorded (`scan.ts:212`) and is
never attributed again. A recorded delivery whose transfer failed or was orphaned stays RECORDED, with its allocation,
until the desk fails it. A confirmation that is refused (a late claim, a delivery for a cancelled obligation or beyond
what is open) throws out of the loop over all detected transfers (`confirm.ts:60`): every minute the run stops at it,
and younger transfers wait until the desk removes it. A worker offline for longer than the cooldown can lose an
address from the watch.

Funding: `releaseCommitments` ignores RECORDED settlements of an OPEN obligation (`cancel.ts:91`); two recorded
settlements may together exceed a side; failing a USDT route settlement does not fail its transfer; confirming and
failing lock the fiat row and the settlement row in opposite orders; a route payment that landed is refused after an
adjustment (`adjustments.ts:86`).

P2P: a BUY payment decided not paid after an earlier part was confirmed cannot be undone
(FUNDS_ALREADY_RECEIVED). Reverting or failing a disputed payment by hand leaves its dispute open without a waiting
payment, and the hold stays (`exceptions.ts:166`). An overdue case opened on a payment already disputed is never
closed by the clock. `ExpireUnpaid` cancels a deal whose escrow was funded between its selection and its lock.

Audit: two recoveries, each after a run that died between writing a range and recording it, can leave in the
bucket a range of a timeline that is lost beside one that continues it. Verified right after the heartbeat,
before the exporter has adopted what continues this database, the walk takes the first name and reports a gap
that is none. The daily job exports until nothing is left before it verifies (`tasks.ts:143`); the recovery
drill verifies directly after the heartbeat (`scripts/pitr-drill.ts:246`). After a recovery, sealing the same
events again under the same number gives the same object name with another `sealedAt`; adopting it refuses,
`putOnce` reports a conflict, and the export with that day's verification waits for another seal
(`export.ts:22`, against 0034's "never take each other's name"). TLC reaches it in ten steps of `AuditTrail`.

Traders: `reserveFigures` reads the balance (`reserve-figures.ts:33`) and then, in another statement, what is being
withdrawn and applied; `confirmRouteSettlement` of an applied reserve takes no trader lock and may commit between the
two, so a trader may ask to withdraw what was just delivered for it, against TR-09. `TraderReserve` has that race
(`BeginWithdraw`, `EndWithdraw`). Routing reads the block under the request's lock alone, so an offer can be committed
at the old rate after `updateBlock` withdrew the offers (`blocks.ts:63` promises that an offer is always at the
current rate), or to a trader that has just gone offline; `acceptOrder` checks both again. Two offers that together
exceed a block keep each other from being accepted until one ends (`orders.ts:67`). `recordAppliedReserveDelivery`
does not look at the obligation's status, so approved reserve can be sent for a cancelled one; its confirmation then
fails for good. The desk's `recordRouteSettlement` and `approveAdjustment` do not count RECORDED deliveries
(`routesettlements.ts:81`, `adjustments.ts:86`), so together more can be on its way than is owed, and what is
confirmed last is refused.

## 4. The proofs

All by `tlapm`, with no unproved step. They hold for every value of the constants that satisfies the named
assumptions of the modules: finitely many rows, amounts above zero, bounds that are numbers, and in `AuditTrail`
`TxLimit <= Settle`. Every invariant below that a proof rests on was first checked by TLC on the instance of the run.
A safety property of the runs that is missing here is named at the end, with the reason.

1. **A trade** (`SettlementProofs`). A sum is a cardinality, so the library's theorems on finite sets give what an
   inserted or moved leg changes (`LegInserted`, `LegMoved`, `LegsReleased`), when a sum is zero, and how sums over
   statuses relate. `TypeCorrect`; then `Separation`, the inductive invariant behind `NeverBothWays` and
   `PayoutAfterFirstLeg`: a planned payout of a trade that is being unwound is legal and only its sending is refused,
   so the invariant follows which legs may be alive in which state. Then the sums: `Bounds` compares two of them with
   the obligation and with what was received and relates each planned sum to the confirmed one; `StepKinds` reduces
   the commands to the few ways a step can change them. A cancel is only reached by an even trade and nothing but a
   client's late transfer moves on it afterwards (`CancelledOwesNothingHolds`); only a settled trade completes
   (`CompletionIsExactHolds`), a settled one is never left behind (`SettledTradeCompletesHolds`: one step per
   command, since any can settle a trade), and a completed one stays paid
   (`CompletedStaysPaid`). Last the refinement: initial states map to initial states and each command to one
   step of `ClientAccount` or a stutter (`ImplementsAccount`); the promise follows from the abstract steps alone
   (`PromiseHolds`).

2. **A payment of the signer** (`ChainSendProofs`): `OneTransfer`, `SendingMeansOne`, `RecordsAreTrue`,
   `CancelledIsDead`, for any workers, providers, number of transactions and of mishaps. None of the four is
   inductive: a worker acts on what it read before, so the invariant (`ChainSendInvariant`) has to say what of
   that is still true. `WorkSound` says it for each worker: a provider that was read as solidified still is
   (`heads`), a transaction found missing at a solidified provider has lapsed (`clear`), and what is about to be
   settled is final. `ChainSays` ties each record to what the chain did, `OneOpen` leaves a send one transaction
   that is undecided or paid, `SendSays` lets the status say which, and `InOrder` and `MayGoOn` make the next
   transaction a new one of a send that may go on. Over this invariant every payout and every top-up is a
   `Payment` (`ImplementsPayment`): the chain's steps are `Move` and `Undo`, the one step that settles or
   cancels is `Confirm` or `Cancel`, everything else stutters; and what is promised follows from the abstract
   steps (`PaymentPromise`).

3. **A request** (`QuotesProofs`): `AtMostOneDeal`, `VerifiedDecisions`, `CodesDie`, `RevokedDecidesNothing`, for any
   quotes, codes, users and callers. A decision by link is three steps with other people's commands in between, and
   the invariant (`QuotesInvariant`) says what survives them. While a caller is on the page its challenge is of its
   quote, and if that challenge is open the link is live (`SessionsSound`): so a revoked link leaves callers whose
   challenge is closed, and these can no longer consume it. Inside the command the lock keeps the quote live
   (`LockSound`). An open challenge is of a live quote and a sealed code of an open challenge (`CodesFollow`), and
   a quote names how it was decided exactly when it was (`QuoteRows`).

4. **A P2P deal** (`P2PProofs`): `NeverBoth`, `DecidedForGood`, `ClockIsHarmless`, for any sum of rupees and any
   number of payments. The three are one invariant (`P2PInvariant`), because which way the escrow went depends
   on what was paid and what may still be paid on which way it went. It adds that payments are filed in order
   (`Numbered`) and never beyond what is due (`WithinDue`, so a deal received in full has nothing waiting), why
   a cancelled trade ended (`Ended`), and how the same states read for a client that buys (`Bought`).

5. **Earmarks and obligations** (`ReservationProofs`): `EarmarksExactHolds`, `PaysOnlyReceivedHolds`,
   `AllocationExactHolds`, for any rows, amounts, terms and adjustments, in both directions and both modes.
   `EarmarksExact` is about live uses only and is not inductive: that nothing is paid twice needs what is spent
   as well. `MarkSound` says it of one use: a row never written has no earmark, money that left has a consumed
   one, every earmark is over the whole amount and on the right side's money. `Within` says that no source gives
   more than it brought, consumed earmarks included: the mutant of `PaysOnlyReceived` forgets just that. A
   payment of the signer is earmarked under its send and settled by a route settlement with no earmark of its
   own, so `HandedOver` makes those settlements add up to those sends; and `Undone` keeps a cancelled obligation
   clear of sends. `PaidFromFunds` then turns earmarks into totals: a table adds up the same by rows (the uses)
   and by columns (the sources), which is `SumExchange`.

6. **A day's capacity** (`ReservationProofs`): `DayIsExactHolds` and `GrowsWithinCapacityHolds`, for any reservations,
   amounts, capacities, number of days and limit of the rollover. `DayIsExact` is not inductive: that a payment which
   left was consumed (`Linked`) is what makes a second consumption, or a release after the money left, impossible,
   and a day that was never opened has to be empty for `lockAccountDay` to create its row. `RowMoves` says how a row
   follows the reservations that open and close and the payments that leave and fail; each of the five ways a
   command moves capacity is then one lemma (`ReserveBooks` to `QuietBooks`), shared by the commands that use it.
   `OnlyReserveGrows` and `ReserveFits` give the action property.

7. **A trader** (`TraderProofs`), for every set of requests, sizes, rates and requirements and any number of orders.
   `QuoteIsBackedHolds`, from the fact that an order that began is the one its request was accepted on (a request
   leaves ACCEPTED no more, so it begins no second order). `SpentOnlyOnOwedHolds`, over the first: `Owed` adds that an
   order that was never begun has nothing delivered, on its way, applied or adjusted (`Fresh`), and of every order
   (`RowFits`) that what is delivered is at most its side, that a dropped one has nothing delivered, a completed one
   exactly its side and is paid, and that an undecided application is of an order in progress. Nothing bounds what is
   on its way by what is owed, so the proof does not use it: a confirmation is checked against the side as it then
   stands, an adjustment against what is confirmed. An order in progress leaves that status only in a reconciliation,
   which ends its undecided application in the same step. `HoldsAreExactHolds`, over both: `HeldBecomes` says which
   orders a command stops and which it starts to hold, `HeldSum` what that does to the sum, and `ExactMoves` that the
   block's row moves by as much; an accepted order fits because `Fits` was checked on the same row. The type of the
   other rows, `Figures`, needs `Owed`, for what is applied.

8. **The outbox** (`WorkerProofs`): `DispatchedDelivered`, `RunsOnceBarCrashes` and the action property
   `DeliveriesStand`, for any events, handlers, workers and crashes (`OutboxInvariant`). What a dispatcher sees
   is not only the database but what it would go back to, so `DataSound` is asked of its current view and of
   every savepoint on its stack; `StepSound` places it at an event with the deliveries before that place made.
   `WorkersSound` keeps the claims of the workers apart, and `EffectsCounted` separates the three reasons a
   handler may have run: its delivery is on record, it is in an open dispatch, or a dispatcher died. Then every
   event is a `Delivery` (`ImplementsDelivery`), the only steps that are not stutters being those of a command
   that publishes and of a commit. That a commit leaves an event completed or short of a consumer, and never
   with everything taken and its row behind, takes an invariant about what each dispatcher would commit and
   would go back to (`Tells`: of the events it has still to do it says nothing, of the others one of the
   outcomes, the event it is at excepted). `DeliveryPromise` is the consequence.

9. **The scanner and its addresses** (`WorkerProofs`): `ClaimsOwned`, `NoneIsPassed` and the action properties
   `NothingAfterRelease` and `ConfirmedForGood`, for any addresses, trades, obligations, transfers, runs, recording
   commands under way, windows, budgets, overlap and lag (`ScannerInvariant`). `NothingPassed` speaks of the cursor;
   the invariant says of every run what it has proved so far (`RunsSound`: of the addresses it is done with, all that
   is final up to its place is recorded or waits in `todo`), that the overlap covers what can still be reorganised
   (`Behind`), and that what is unrecorded and the scanner's to find goes to a watched address (`Watching`).
   `CustodyInv` is who holds an address, `ClaimsBacked` what a transfer pays for, `Asked` what a command under way may
   still know: what is being recorded went to an address that is watched or was, and who was read was given it.
   `ConfirmedIsFinal` makes a confirmation irrevocable. The proof first failed for a good reason: a run without a
   cursor starts at the lookback, so what was mined earlier is passed at once. TLC had not met it, since the lookback
   of its instance reached the first block; `unwatched` now says so, and the instance starts at the head.

10. **The pipeline and the trail** (`WorkerProofs`): `RunsOnceAlone` for `Commands` by itself;
    `PipelineRunsOnce` and `SealedForGood` for `AuditTrail`, across any number of recoveries. The first needs to
    know what an open transaction will commit and that it holds its key alone (`Claims`), and what a completed
    key stores (`Stored`). The second needs where the numbers of open transactions lie: after every seal and
    after every event older than the settle window (`Ahead`, from `TxLimit <= Settle`), which is why a sealer
    that waits for the window never seals below one of them. A recovery restores an earlier database, so all of
    it is asked of the moment a recovery goes back to as well (`PointSound`). `ImplementsAtMostOnce`: a commit
    does the work and answers in one step, a replay hears it, a recovery takes back what is lost with its
    answers, and claims, waits and rollbacks are stutters; this is why the other modules may take a command as
    one action.

11. **The archive** (`WorkerProofs`): `ArchiveVerifies` (`HonestArchiveVerifies`) and `NoExportRefused`, for any
    commands, recoveries and runs that died, from `ArchiveInvariant`. The seals of this database are a line, each
    chained to the one before (`Line`), and the recorded exports are ranges of the bucket, end to end (`RecordedIn`).
    Every range in the bucket, of whatever timeline, begins at the first event or continues another (`Branches`,
    `Precedes`): where this database has the start of it, it has all of what comes before, and where it lost the end
    of what comes before, it has nothing of it, and sealed again only later. A seal in the bucket that is not here
    is explained by a fence, or was taken after the last heartbeat and the next one will fence it (`Fenced`); what a
    recovery would lose is the same at its point (`Earlier`). The verifier's walk is a recursive function over its
    steps; its values are shown to exist one step at a time (`StepsExist`), and the walk keeps that it has taken
    ranges that agree with the seals here, end to end, and stands where a recorded one starts or beyond them
    all (`WalkSound`). So it finds no gap, what it took is here, and what it left is explained. The attempt
    corrected the model twice: a recovery takes time, and verification follows the exporter (the gap above).

The lemmas they share are in `SumsProofs`: what a sum is when a row enters, leaves or changes, over disjoint
parts, and by rows and by columns. `Sums` defines a sum as the cardinality of a set of units, since the
recursive definition would need induction over data.

Model-checked only, of all that the runs check: the three liveness properties. `PastDaysClose` of `Capacity`,
`EveryEventEnds` of `Outbox` and `EveryAttemptDecided` of `ChainSend` are liveness under fairness, which with
`ENABLED` is out of the prover's reach. That the sweep of the traders ends every due offer and hold is neither: the
instance of `trader_orders` is too large for a liveness check.

## 5. Plan

Done: every module of section 2, and for each its theorems. Left, in order of importance:

1. Desk deals and deal links (`desk-deals.ts`, `desk-links.ts`) as another way into `Quotes`.
   HOLD applications of the reserve, and P2P orders of traders, which would join `TraderOrders` and `P2P`.
2. Abstract specifications of a trader's reserve and of a P2P deal, for the other modules to build on, as
   `ClientAccount`, `Payment`, `Delivery` and `AtMostOnce` are for the settlement, the signer, the outbox and the
   pipeline.
3. Backfill of the scanner; approved destination changes in `Settlement`.
4. `Economics`: conversion and rounding against a reference definition.

**Not modelled**, and why. Desks, portal, reporting, web and worker: views, screens and schedules, with no state
the properties are about (the schedules give the fairness). Identity and authorisation only remove behaviours;
every model lets any command be tried by anybody. Notifications are handlers of the outbox. The ledger: each
journal is posted and balanced inside one command, under a deferred trigger. The TRX budget, pricing: arithmetic
on one row under a lock. The database's triggers are modelled where the code relies on them and left out where a
property shows that no command meets them. Generated and vendored files.
