------------------------------- MODULE Capacity -------------------------------
(***************************************************************************)
(* The daily outgoing capacity of one INR account: a row per IST day with  *)
(* what is used and reserved, and one reservation per planned payment.     *)
(* Every operation locks the day row and then the reservation, inside the  *)
(* transaction of the payment command that calls it, so a command is one   *)
(* action.  The day rollover job is two: it reads the stale reservations   *)
(* without a lock, then releases them.                                     *)
(*                                                                         *)
(* An id stands for a reservation and the payment it was made for:         *)
(*   PAYOUT    an INR payout leg of the SELL trade                         *)
(*   REFUND    an INR refund leg of the BUY trade                          *)
(*   RECORDED  a route settlement or a trader's reward payout              *)
(*   MANUAL    capacity.reserve: a reservation no payment ever uses        *)
(* Outside the model: holds, evidence and everything else a payment        *)
(* command checks that is not about capacity (see Settlement), and partial *)
(* consumption, which no caller asks for.                                  *)
(***************************************************************************)
EXTENDS Sums

CONSTANTS
  Ids,         \* reservation ids, with the payment each is made for
  Amounts,     \* payment amounts in minor units
  Capacities,  \* the capacities the desk may set
  MaxDay,      \* bound: the last IST day a run looks at
  Limit        \* how many stale reservations one rollover takes (200)

ASSUME CapacityAssumption ==
  /\ IsFiniteSet(Ids)
  /\ Amounts \subseteq Nat \ {0} /\ Capacities \subseteq Nat
  /\ MaxDay \in Nat \ {0} /\ Limit \in Nat \ {0}

VARIABLES
  today,        \* the current IST day
  account,      \* inr_settlement_account.status
  default,      \* default_daily_capacity_minor
  days,         \* inr_account_day rows
  payments,     \* the payment each reservation was made for
  reservations, \* capacity_reservation rows
  trades,       \* whether each trade is still open
  sweep         \* the reservations a running rollover read as stale

vars == <<today, account, default, days, payments, reservations, trades, sweep>>

-----------------------------------------------------------------------------
Days    == 1 .. MaxDay
Trades  == {"SELL", "BUY"}
Kinds   == {"PAYOUT", "REFUND", "RECORDED", "MANUAL"}
Leaving == {"PROCESSING", "COMPLETED"}   \* the money left or is leaving

NoDay     == [open |-> FALSE, capacity |-> 0, used |-> 0, reserved |-> 0]
NoPayment == [kind |-> "MANUAL", trade |-> "NONE", status |-> "NONE"]
NoReservation == [day |-> 1, amount |-> 0, status |-> "NONE"]

\* lockAccountDay: the row, created from the account's default the first time.
Opened(d) ==
  IF days[d].open THEN days[d] ELSE [NoDay EXCEPT !.open = TRUE, !.capacity = default]

\* Defect: what already left the account is not counted.
RemainingUnreserved(row) == row.capacity - row.reserved
Remaining(row) == row.capacity - row.used - row.reserved

\* reserveCapacity
Reserve(r, d, a) ==
  /\ account = "ACTIVE"
  /\ a <= Remaining(Opened(d))
  /\ days' = [days EXCEPT ![d] = [Opened(d) EXCEPT !.reserved = @ + a]]
  /\ reservations' = [reservations EXCEPT ![r] = [day |-> d, amount |-> a, status |-> "ACTIVE"]]

\* consumeReservation, for the whole amount
Consume(r) ==
  /\ reservations[r].status = "ACTIVE"
  /\ days' = [days EXCEPT ![reservations[r].day].reserved = @ - reservations[r].amount,
                          ![reservations[r].day].used = @ + reservations[r].amount]
  /\ reservations' = [reservations EXCEPT ![r].status = "CONSUMED"]

\* What the reservations R of a day add up to, and those of them still open.
SumOn(d, R) ==
  Sum([r \in Ids |-> reservations[r].amount], {r \in R : reservations[r].day = d})
Held(d, R) == SumOn(d, {r \in R : reservations[r].status = "ACTIVE"})

\* releaseReservation of each of R, in one transaction: a released one is left
\* as it is, a consumed one refuses the whole transaction.
Release(R) ==
  /\ \A r \in R : reservations[r].status # "CONSUMED"
  /\ days' = [d \in Days |-> [days[d] EXCEPT !.reserved = @ - Held(d, R)]]
  /\ reservations' = [r \in Ids |-> IF r \in R THEN [reservations[r] EXCEPT !.status = "RELEASED"]
                                               ELSE reservations[r]]

\* refundConsumedCapacity: the reservation stays CONSUMED.
RefundConsumed(r) ==
  /\ reservations[r].status = "CONSUMED"
  /\ days[reservations[r].day].used >= reservations[r].amount
  /\ days' = [days EXCEPT ![reservations[r].day].used = @ - reservations[r].amount]
  /\ UNCHANGED reservations

PaymentMoves(r, status) == payments' = [payments EXCEPT ![r].status = status]

\* The ACTIVE reservations made for a trade.
ActiveOf(t) ==
  {r \in Ids : payments[r].trade = t /\ reservations[r].status = "ACTIVE"}

-----------------------------------------------------------------------------
Init ==
  /\ today = 1
  /\ account = "ACTIVE"
  /\ default \in Capacities
  /\ days = [d \in Days |-> NoDay]
  /\ payments = [r \in Ids |-> NoPayment]
  /\ reservations = [r \in Ids |-> NoReservation]
  /\ trades = [t \in Trades |-> "OPEN"]
  /\ sweep = {}

\* A payment is planned or recorded, and its capacity reserved for today.
Plan(r, kind, trade, a) ==
  /\ reservations[r] = NoReservation
  /\ trade \in Trades => trades[trade] = "OPEN"
  /\ Reserve(r, today, a)
  /\ payments' = [payments EXCEPT ![r] = [kind |-> kind, trade |-> trade, status |-> "PENDING"]]
  /\ UNCHANGED <<today, account, default, trades, sweep>>

PlanPayout(r, a)   == Plan(r, "PAYOUT", "SELL", a)
PlanRefund(r, a)   == Plan(r, "REFUND", "BUY", a)
RecordPayment(r, a) == Plan(r, "RECORDED", "NONE", a)

\* capacity.reserve: for any day from today on, whatever the trade's state.
ReserveByHand(r, t, d, a) ==
  /\ reservations[r] = NoReservation
  /\ d >= today
  /\ Reserve(r, d, a)
  /\ payments' = [payments EXCEPT ![r] = [kind |-> "MANUAL", trade |-> t, status |-> "NONE"]]
  /\ UNCHANGED <<today, account, default, trades, sweep>>

\* sendPayoutLegInTx, for a leg paid from this account.
SendLeg(r) ==
  /\ payments[r].kind \in {"PAYOUT", "REFUND"} /\ payments[r].status = "PENDING"
  /\ account = "ACTIVE"
  /\ Consume(r)
  /\ PaymentMoves(r, "PROCESSING")
  /\ UNCHANGED <<today, account, default, trades, sweep>>

\* confirmPayoutLegInTx: the capacity was used when the leg was sent.
ConfirmPayout(r) ==
  /\ payments[r].kind = "PAYOUT" /\ payments[r].status = "PROCESSING"
  /\ PaymentMoves(r, "COMPLETED")
  /\ UNCHANGED <<today, account, default, days, reservations, trades, sweep>>

\* confirmRefundLeg: consumes at confirmation, so a refund that was marked sent
\* (and consumed then) is refused.
ConfirmRefund(r) ==
  /\ payments[r].kind = "REFUND" /\ payments[r].status \in {"PENDING", "PROCESSING"}
  /\ Consume(r)
  /\ PaymentMoves(r, "COMPLETED")
  /\ UNCHANGED <<today, account, default, trades, sweep>>

\* cancelPayoutLeg, and the planned payouts an approved destination change drops.
CancelLeg(r) ==
  /\ payments[r].kind \in {"PAYOUT", "REFUND"} /\ payments[r].status = "PENDING"
  /\ Release({r})
  /\ PaymentMoves(r, "CANCELLED")
  /\ UNCHANGED <<today, account, default, trades, sweep>>

\* Defect: the capacity of a payment that never left is not given back.
FailLegKeeping(r) ==
  /\ payments[r].kind \in {"PAYOUT", "REFUND"} /\ payments[r].status = "PROCESSING"
  /\ PaymentMoves(r, "FAILED")
  /\ UNCHANGED <<today, account, default, days, reservations, trades, sweep>>
\* failPayoutLegInTx
FailLeg(r) ==
  /\ payments[r].kind \in {"PAYOUT", "REFUND"} /\ payments[r].status = "PROCESSING"
  /\ RefundConsumed(r)
  /\ PaymentMoves(r, "FAILED")
  /\ UNCHANGED <<today, account, default, trades, sweep>>

\* confirmRouteSettlementInTx, confirmRewardPayout
ConfirmRecorded(r) ==
  /\ payments[r].kind = "RECORDED" /\ payments[r].status = "PENDING"
  /\ Consume(r)
  /\ PaymentMoves(r, "COMPLETED")
  /\ UNCHANGED <<today, account, default, trades, sweep>>

\* failRouteSettlement, failRewardPayout
FailRecorded(r) ==
  /\ payments[r].kind = "RECORDED" /\ payments[r].status = "PENDING"
  /\ Release({r})
  /\ PaymentMoves(r, "FAILED")
  /\ UNCHANGED <<today, account, default, trades, sweep>>

\* completeTrade: no payout leg is planned or in flight any more (an excess
\* refund may be); every reservation left for the trade is released.
CompleteTrade(t) ==
  /\ trades[t] = "OPEN"
  /\ \A r \in Ids : payments[r].trade = t /\ payments[r].kind = "PAYOUT" =>
       payments[r].status \notin {"PENDING", "PROCESSING"}
  /\ trades' = [trades EXCEPT ![t] = "COMPLETED"]
  /\ Release(ActiveOf(t))
  /\ UNCHANGED <<today, account, default, payments, sweep>>

\* releaseCommitments: planned legs are cancelled and every reservation left
\* for the trade is released; nothing of it is in flight and no payout is done.
CancelTrade(t) ==
  /\ trades[t] = "OPEN"
  /\ \A r \in Ids : payments[r].trade = t =>
       /\ payments[r].status # "PROCESSING"
       /\ payments[r].kind = "PAYOUT" => payments[r].status # "COMPLETED"
  /\ trades' = [trades EXCEPT ![t] = "CANCELLED"]
  /\ payments' = [r \in Ids |->
       IF payments[r].trade = t /\ payments[r].status = "PENDING"
       THEN [payments[r] EXCEPT !.status = "CANCELLED"] ELSE payments[r]]
  /\ Release(ActiveOf(t))
  /\ UNCHANGED <<today, account, default, sweep>>

\* setDayCapacity: also below what is committed, which only blocks growth.
SetDay(d, c) ==
  /\ d >= today
  /\ days' = [days EXCEPT ![d] = [Opened(d) EXCEPT !.capacity = c]]
  /\ UNCHANGED <<today, account, default, payments, reservations, trades, sweep>>

\* setDefaultDailyCapacity: applies to days not opened yet.
SetDefault(c) ==
  /\ default' = c
  /\ UNCHANGED <<today, account, days, payments, reservations, trades, sweep>>

\* inr_account.set_status (PAUSED and UNAVAILABLE are alike here)
SetStatus(s) ==
  /\ account' = s
  /\ UNCHANGED <<today, default, days, payments, reservations, trades, sweep>>

\* Midnight in India.
NextDay ==
  /\ today < MaxDay
  /\ today' = today + 1
  /\ UNCHANGED <<account, default, days, payments, reservations, trades, sweep>>

\* The reservations of past days that are still open.
Stale == {r \in Ids : reservations[r].status = "ACTIVE" /\ reservations[r].day < today}

\* Defect: only the reservations of payments are looked for.
ReadStaleOfPayments ==
  /\ sweep = {}
  /\ \E r \in Stale : payments[r].kind # "MANUAL" /\ sweep' = {r}
  /\ UNCHANGED <<today, account, default, days, payments, reservations, trades>>
\* releasePastDayReservations, first half: the oldest Limit of them, by day.
ReadStale ==
  /\ sweep = {} /\ Stale # {}
  /\ sweep' \in {S \in SUBSET Stale :
       /\ Cardinality(S) = IF Cardinality(Stale) < Limit THEN Cardinality(Stale) ELSE Limit
       /\ \A r \in S, q \in Stale \ S : reservations[r].day <= reservations[q].day}
  /\ UNCHANGED <<today, account, default, days, payments, reservations, trades>>

\* Second half: each is locked and released; if one was consumed meanwhile the
\* transaction rolls back and the next run of the job reads again.
ReleaseStale ==
  /\ sweep # {} /\ sweep' = {}
  /\ IF \E r \in sweep : reservations[r].status = "CONSUMED"
     THEN UNCHANGED <<days, reservations>>
     ELSE Release(sweep)
  /\ UNCHANGED <<today, account, default, payments, trades>>

-----------------------------------------------------------------------------
PaymentCommand(r) ==
  \/ \E a \in Amounts : PlanPayout(r, a) \/ PlanRefund(r, a) \/ RecordPayment(r, a)
  \/ \E a \in Amounts, d \in Days, t \in Trades \cup {"NONE"} : ReserveByHand(r, t, d, a)
  \/ SendLeg(r) \/ ConfirmPayout(r) \/ ConfirmRefund(r) \/ CancelLeg(r) \/ FailLeg(r)
  \/ ConfirmRecorded(r) \/ FailRecorded(r)

Next ==
  \/ \E r \in Ids : PaymentCommand(r)
  \/ \E t \in Trades : CompleteTrade(t) \/ CancelTrade(t)
  \/ \E d \in Days, c \in Capacities : SetDay(d, c)
  \/ \E c \in Capacities : SetDefault(c)
  \/ \E s \in {"ACTIVE", "PAUSED"} : SetStatus(s)
  \/ NextDay
  \/ ReadStale \/ ReleaseStale

\* The cron runs the rollover every five minutes.
Spec == Init /\ [][Next]_vars /\ WF_vars(ReadStale) /\ WF_vars(ReleaseStale)

-----------------------------------------------------------------------------
TypeOK ==
  /\ today \in Days
  /\ account \in {"ACTIVE", "PAUSED"}
  /\ default \in Capacities
  /\ days \in [Days -> [open : BOOLEAN, capacity : Capacities \cup {0}, used : Nat, reserved : Nat]]
  /\ payments \in [Ids -> [kind : Kinds, trade : Trades \cup {"NONE"},
       status : {"NONE", "PENDING", "PROCESSING", "COMPLETED", "FAILED", "CANCELLED"}]]
  /\ reservations \in [Ids -> [day : Days, amount : Amounts \cup {0},
       status : {"NONE", "ACTIVE", "CONSUMED", "RELEASED"}]]
  /\ trades \in [Trades -> {"OPEN", "COMPLETED", "CANCELLED"}]
  /\ sweep \subseteq Ids

\* FI-31: a payment that was cancelled, or that failed, holds no capacity, and
\* neither do the payments of a trade that ended.
EndedHoldsNothing ==
  \A r \in Ids :
    payments[r].status \in {"FAILED", "CANCELLED"}
      \/ (payments[r].kind \in {"PAYOUT", "REFUND"} /\ trades[payments[r].trade] # "OPEN")
    => reservations[r].status # "ACTIVE"

\* IX031: what a day has reserved is exactly what its open reservations hold, so
\* no release is lost and none is made twice (FI-31); and what it has used is
\* exactly what its payments took out of the account: sent, or confirmed without
\* being marked sent, and not failed.  What ended holds nothing of it.
DayIsExact ==
  /\ TypeOK /\ EndedHoldsNothing
  /\ \A d \in Days :
       /\ days[d].reserved = Held(d, Ids)
       /\ days[d].used = SumOn(d, {r \in Ids : payments[r].status \in Leaving})

\* FI-30: what is used and reserved on a day grows only within its capacity,
\* whatever was sent, failed, released or lowered before.
GrowsWithinCapacity ==
  [][\A d \in Days :
       days'[d].used + days'[d].reserved > days[d].used + days[d].reserved =>
         days'[d].used + days'[d].reserved <= days'[d].capacity]_vars

\* The day rollover: an open reservation of a past day does not stay open, so
\* yesterday's capacity is never kept aside for good.
PastDaysClose == \A r \in Ids : r \in Stale ~> r \notin Stale
=============================================================================
