-------------------------------- MODULE Funding --------------------------------
(***************************************************************************)
(* The counterparty's side of one trade and the money that pays for it     *)
(* (D-16): the route obligation, the settlements recorded against its two  *)
(* sides, and the earmarks of everything that goes out on the confirmed    *)
(* money that came in.  The client's own sums are Settlement's; a leg is   *)
(* here only what it brings or takes.                                      *)
(***************************************************************************)
EXTENDS FiniteSetsExt, Sums

CONSTANTS
  Legs,        \* legs of the trade
  Settlements, \* route settlements an operator or the scanner records
  Sends,       \* payments of the counterparty by the exchange's signer
  Modes,       \* execution modes: TO_EXCHANGE, DIRECT_TO_CLIENT
  Directions,  \* SELL, BUY
  Terms,       \* the frozen economics: base, client and route amount
  Movements,   \* bound: what one movement carries
  Deltas,      \* bound: what an adjustment changes of the terms
  MaxAdjusts   \* bound: posted adjustments

ASSUME FundingAssumption ==
  /\ IsFiniteSet(Legs \cup Settlements \cup Sends)
  /\ Legs \cap Settlements = {} /\ Legs \cap Sends = {} /\ Settlements \cap Sends = {}
  /\ Modes \subseteq {"TO_EXCHANGE", "DIRECT_TO_CLIENT"} /\ Directions \subseteq {"SELL", "BUY"}
  /\ Terms \in [base : Nat \ {0}, client : Nat \ {0}, route : Nat \ {0}]
  /\ Deltas \subseteq [base : Int, client : Int, route : Int]
  /\ Movements \subseteq Nat \ {0} /\ MaxAdjusts \in Nat

VARIABLES
  mode, dir,  \* frozen at acceptance
  terms,      \* the economics with the posted adjustments
  adjusts,    \* how many were posted
  trade,      \* LIVE, COMPLETED or CANCELLED
  obligation, \* route_obligation.status
  leg,        \* settlement_leg: state, kind and amount
  sett,       \* route_settlement: state, flow and amount
  allocated,  \* route_settlement_allocation: the settlements that have their row
  send,       \* chain_send of purpose ROUTE_PAYMENT
  mark        \* funding_allocation: per use its state and what it takes of each source

fundingVars == <<mode, dir, terms, adjusts, trade, obligation, leg, sett, allocated, send, mark>>

-----------------------------------------------------------------------------
Sources == Legs \cup Settlements
Uses    == Legs \cup Settlements \cup Sends
LegKinds   == {"CLIENT", "PAYOUT", "DIRECT", "UNWIND", "EXCESS"}
Total(rows, S) == Sum([r \in S |-> rows[r].amount], S)

NoLeg  == [state |-> "NONE", kind |-> "CLIENT", amount |-> 0]
NoSett == [state |-> "NONE", flow |-> "FROM_ROUTE", amount |-> 0]
NoSend == [state |-> "NONE", amount |-> 0]
NoMark == [state |-> "NONE", of |-> [s \in Sources |-> 0]]

\* The legs of some kinds in some states, and what they come to.
LegsOf(kinds, states) == {l \in Legs : leg[l].kind \in kinds /\ leg[l].state \in states}
Come(kinds, states)    == Total(leg, LegsOf(kinds, states))

\* effectiveObligations: what the client is paid and what it pays.
Payout     == IF dir = "SELL" THEN terms.client ELSE terms.base
Receivable == IF dir = "SELL" THEN terms.base ELSE terms.client
\* inrp2p_route_obligation_side: what the counterparty and the exchange deliver.
RouteSide    == IF dir = "SELL" THEN terms.route ELSE terms.base
ExchangeSide == IF dir = "SELL" THEN terms.base ELSE terms.route

\* obligationRemaining: each side less what is allocated to it.  A direct payout is
\* allocated by its own confirmation.
AllocatedTo(flow) == Total(sett, {s \in allocated : sett[s].flow = flow})
RouteLeft    == RouteSide - AllocatedTo("FROM_ROUTE") - Come({"DIRECT"}, {"DONE"})
ExchangeLeft == ExchangeSide - AllocatedTo("TO_ROUTE")
Left(flow)   == IF flow = "FROM_ROUTE" THEN RouteLeft ELSE ExchangeLeft

\* inrp2p_counterparty_delivered (FI-77).
Delivered == IF mode = "TO_EXCHANGE" THEN RouteLeft <= 0 ELSE Payout <= Come({"PAYOUT", "DIRECT"}, {"DONE"})

\* funding_source: the trade's confirmed incoming money, by whose it is.
ClientFunds       == LegsOf({"CLIENT"}, {"DONE"})
CounterpartyFunds == {s \in Settlements : sett[s].state = "CONFIRMED" /\ sett[s].flow = "FROM_ROUTE"}
Amount(s) == IF s \in Legs THEN leg[s].amount ELSE sett[s].amount

\* What the earmarks in some states take of a source.
TakenBy(s, states) == Sum([u \in Uses |-> mark[u].of[s]], {u \in Uses : mark[u].state \in states})
\* Defect: money already spent counts as free.
TakenActive(s) == TakenBy(s, {"ACTIVE"})
\* fundingSources: what is earmarked of a source.
Taken(s) == TakenBy(s, {"ACTIVE", "CONSUMED"})

\* allocateFunding: an amount taken from what is free, here of any source first.
Splits(S, n) == {f \in [S -> 0 .. n] : /\ \A s \in S : f[s] <= Amount(s) - Taken(s)
                                       /\ Sum(f, S) = n}
Earmark(u, S, n) ==
  \E f \in Splits(S, n) :
    mark' = [mark EXCEPT ![u] = [state |-> "ACTIVE", of |-> [s \in Sources |-> IF s \in S THEN f[s] ELSE 0]]]
\* settleFunding: closes the live earmarks of a use.
Settled(u, outcome) == [mark EXCEPT ![u].state = IF @ = "ACTIVE" THEN outcome ELSE @]

FundingTypeOK ==
  /\ mode \in Modes /\ dir \in Directions /\ terms \in [base : Nat, client : Nat, route : Nat]
  /\ adjusts \in 0 .. MaxAdjusts /\ trade \in {"LIVE", "COMPLETED", "CANCELLED"}
  /\ obligation \in {"OPEN", "PARTIALLY_SETTLED", "SETTLED", "CANCELLED"}
  /\ leg \in [Legs -> [state : {"NONE", "LIVE", "DONE", "DEAD"}, kind : LegKinds, amount : Nat]]
  /\ sett \in [Settlements -> [state : {"NONE", "RECORDED", "CONFIRMED", "FAILED"},
                               flow : {"FROM_ROUTE", "TO_ROUTE"}, amount : Nat]]
  /\ allocated \subseteq Settlements
  /\ send \in [Sends -> [state : {"NONE", "PLANNED", "LANDED", "CONFIRMED", "CANCELLED"}, amount : Nat]]
  /\ mark \in [Uses -> [state : {"NONE", "ACTIVE", "CONSUMED", "RELEASED"}, of : [Sources -> Nat]]]

-----------------------------------------------------------------------------
FundingInit ==
  /\ mode \in Modes /\ dir \in Directions /\ terms = Terms /\ adjusts = 0
  /\ trade = "LIVE" /\ obligation = "OPEN"
  /\ leg = [l \in Legs |-> NoLeg] /\ sett = [s \in Settlements |-> NoSett]
  /\ allocated = {}
  /\ send = [x \in Sends |-> NoSend] /\ mark = [u \in Uses |-> NoMark]

frozen == <<mode, dir>>

\* Paid in full and received in full: the trade completes with the step that makes it so.
Square == /\ Come({"PAYOUT", "DIRECT"}, {"DONE"}) = Payout
          /\ Come({"CLIENT"}, {"DONE"}) - Come({"EXCESS"}, {"DONE"}) = Receivable
Advance == trade' = IF trade = "LIVE" /\ Square' THEN "COMPLETED" ELSE trade

\* The status an obligation gets with an allocation (allocateToObligation).
AfterAllocation == IF RouteLeft' = 0 /\ ExchangeLeft' = 0 THEN "SETTLED" ELSE "PARTIALLY_SETTLED"

(* The client's legs. *)

AddLeg(l, k, n) == leg[l] = NoLeg /\ leg' = [leg EXCEPT ![l] = [state |-> "LIVE", kind |-> k, amount |-> n]]

\* confirmClientLegInTx: a transfer of the client, detected before, is confirmed.
ClientPays(l, n) ==
  /\ trade = "LIVE" /\ leg[l] = NoLeg
  /\ leg' = [leg EXCEPT ![l] = [state |-> "DONE", kind |-> "CLIENT", amount |-> n]]
  /\ UNCHANGED <<frozen, terms, adjusts, obligation, sett, allocated, send, mark>>
  /\ Advance

\* createPayoutLeg: an exchange-paid leg is earmarked in full, a route-paid one is not.
CreatePayoutLeg(l, k, n) ==
  /\ trade = "LIVE" /\ Come({"CLIENT"}, {"DONE"}) > 0
  /\ LegsOf({"UNWIND"}, {"LIVE", "DONE"}) = {}
  /\ n <= Payout - Come({"PAYOUT", "DIRECT"}, {"LIVE", "DONE"})
  /\ AddLeg(l, k, n)
  /\ IF k = "PAYOUT" THEN Earmark(l, CounterpartyFunds, n)
                     ELSE mode = "DIRECT_TO_CLIENT" /\ UNCHANGED mark
  /\ UNCHANGED <<frozen, terms, adjusts, trade, obligation, sett, allocated, send>>

\* createRefundLeg gives back all of it, refundExcess what is beyond the receivable.
CreateRefundLeg(l, k, n) ==
  LET received == Come({"CLIENT"}, {"DONE"})
      promised == Come({"UNWIND", "EXCESS"}, {"LIVE", "DONE"})
  IN  /\ trade = "LIVE" /\ n > 0
      /\ IF k = "UNWIND" THEN /\ LegsOf({"PAYOUT", "DIRECT"}, {"LIVE", "DONE"}) = {}
                              /\ n = received - promised
                         ELSE /\ LegsOf({"UNWIND"}, {"LIVE", "DONE"}) = {}
                              /\ n <= received - Receivable - promised
      /\ AddLeg(l, k, n) /\ Earmark(l, ClientFunds, n)
      /\ UNCHANGED <<frozen, terms, adjusts, trade, obligation, sett, allocated, send>>

\* The confirmation of a leg.  A direct payout settles the route's side in the same step.
ConfirmLeg(l) ==
  /\ leg[l].state = "LIVE" /\ trade # "CANCELLED"
  /\ leg[l].kind \in {"PAYOUT", "DIRECT"} => LegsOf({"UNWIND"}, {"LIVE", "DONE"}) = {}
  /\ leg' = [leg EXCEPT ![l].state = "DONE"]
  /\ mark' = Settled(l, "CONSUMED")
  /\ UNCHANGED <<frozen, terms, adjusts, sett, allocated, send>>
  /\ IF leg[l].kind = "DIRECT"
     THEN leg[l].amount <= RouteLeft /\ obligation # "CANCELLED" /\ obligation' = AfterAllocation
     ELSE UNCHANGED obligation
  /\ Advance

\* payout_leg.cancel, payout_leg.fail.
DropLeg(l) ==
  /\ leg[l].state = "LIVE"
  /\ leg' = [leg EXCEPT ![l].state = "DEAD"]
  /\ mark' = Settled(l, "RELEASED")
  /\ UNCHANGED <<frozen, terms, adjusts, trade, obligation, sett, allocated, send>>

\* cancelTrade, refundAndCancel with releaseCommitments: the client has nothing here, its
\* planned legs end, and the obligation must be as it was opened.
CancelTradeInTx ==
  /\ trade = "LIVE" /\ obligation = "OPEN"
  /\ Come({"CLIENT"}, {"DONE"}) = Come({"UNWIND", "EXCESS"}, {"DONE"})
  /\ LegsOf({"PAYOUT", "DIRECT"}, {"DONE"}) = {}
  /\ trade' = "CANCELLED" /\ obligation' = "CANCELLED"
  /\ leg' = [l \in Legs |-> IF leg[l].state = "LIVE" THEN [leg[l] EXCEPT !.state = "DEAD"] ELSE leg[l]]
  /\ mark' = [u \in Uses |-> IF u \in LegsOf(LegKinds, {"LIVE"}) THEN Settled(u, "RELEASED")[u] ELSE mark[u]]
  /\ UNCHANGED <<frozen, terms, adjusts, sett, allocated, send>>

(* The route's settlements. *)

\* assertCounterpartyDelivered, and the obligation is not closed.
MayPayRoute == obligation \notin {"CANCELLED", "SETTLED"} /\ Delivered

\* recordRouteSettlement: what is recorded and unconfirmed is not counted.
Record(s, flow, n) ==
  /\ sett[s] = NoSett /\ obligation \notin {"CANCELLED", "SETTLED"}
  /\ n <= Left(flow)
  /\ sett' = [sett EXCEPT ![s] = [state |-> "RECORDED", flow |-> flow, amount |-> n]]
  /\ IF flow = "TO_ROUTE" THEN MayPayRoute /\ Earmark(s, ClientFunds, n) ELSE UNCHANGED mark
  /\ UNCHANGED <<frozen, terms, adjusts, trade, obligation, leg, allocated, send>>

\* confirmRouteSettlement and failRouteSettlement read the status before they lock
\* anything (the failure never does), so a session may have seen RECORDED of whatever
\* was recorded once, and only the trigger on the row stands between it and its update.
\* Defect: no trigger looks at the transition.
TransitionUnguarded(s) == sett[s].state # "NONE"
\* route_settlement_status: only RECORDED moves.
Transition(s) == sett[s].state = "RECORDED"

\* confirmRouteSettlementInTx, after its read.
Confirm(s) ==
  /\ Transition(s)
  /\ obligation # "CANCELLED" /\ sett[s].amount <= Left(sett[s].flow)
  /\ sett' = [sett EXCEPT ![s].state = "CONFIRMED"]
  /\ mark' = IF sett[s].flow = "TO_ROUTE" THEN Settled(s, "CONSUMED") ELSE mark
  /\ allocated' = allocated \cup {s}
  /\ UNCHANGED <<frozen, terms, adjusts, trade, leg, send>>
  /\ obligation' = AfterAllocation

\* Defect: a failed payment keeps its earmark.
FailMarksKept(s) == mark
FailMarks(s) == IF sett[s].flow = "TO_ROUTE" THEN Settled(s, "RELEASED") ELSE mark
\* failRouteSettlement, after its read.
Fail(s) ==
  /\ Transition(s)
  /\ sett' = [sett EXCEPT ![s].state = "FAILED"]
  /\ mark' = FailMarks(s)
  /\ UNCHANGED <<frozen, terms, adjusts, trade, obligation, leg, allocated, send>>

(* The signer pays the counterparty, with the client's USDT. *)

\* planRoutePaymentInTx: one at a time, no refund under way, earmarked before it is signed.
PlanSend(x, n) ==
  /\ send[x] = NoSend /\ dir = "SELL" /\ MayPayRoute
  /\ \A y \in Sends : send[y].state \in {"NONE", "CONFIRMED", "CANCELLED"}
  /\ LegsOf({"UNWIND", "EXCESS"}, {"LIVE"}) = {}
  /\ n > 0 /\ n <= ExchangeLeft
  /\ \E s \in ClientFunds : n = Min({ExchangeLeft, Amount(s) - Taken(s)})
  /\ send' = [send EXCEPT ![x] = [state |-> "PLANNED", amount |-> n]]
  /\ Earmark(x, ClientFunds, n)
  /\ UNCHANGED <<frozen, terms, adjusts, trade, obligation, leg, sett, allocated>>

\* Its transaction is on the chain (ChainSend).
Land(x) ==
  /\ send[x].state = "PLANNED"
  /\ send' = [send EXCEPT ![x].state = "LANDED"]
  /\ UNCHANGED <<frozen, terms, adjusts, trade, obligation, leg, sett, allocated, mark>>

CancelSend(x) ==
  /\ send[x].state = "PLANNED"
  /\ send' = [send EXCEPT ![x].state = "CANCELLED"]
  /\ mark' = Settled(x, "RELEASED")
  /\ UNCHANGED <<frozen, terms, adjusts, trade, obligation, leg, sett, allocated>>

\* settleSignedSendInTx can: it records and confirms like anybody else.
Settleable(x) == MayPayRoute /\ send[x].amount <= ExchangeLeft
\* The settlement of what landed, recorded and confirmed in one transaction.
SettleSend(x, s) ==
  /\ send[x].state = "LANDED" /\ Settleable(x) /\ sett[s] = NoSett
  /\ send' = [send EXCEPT ![x].state = "CONFIRMED"]
  /\ sett' = [sett EXCEPT ![s] = [state |-> "CONFIRMED", flow |-> "TO_ROUTE", amount |-> send[x].amount]]
  /\ allocated' = allocated \cup {s}
  /\ mark' = Settled(x, "CONSUMED")
  /\ UNCHANGED <<frozen, terms, adjusts, trade, leg>>
  /\ obligation' = AfterAllocation

(* Adjustments. *)

\* refreshObligationStatus, after the terms moved.
Refreshed == IF obligation \in {"OPEN", "PARTIALLY_SETTLED"} /\ RouteLeft' = 0 /\ ExchangeLeft' = 0
             THEN "SETTLED" ELSE obligation

\* approveAdjustment, with assertAdjustmentFits: never below what is committed, received or
\* allocated, and a settled obligation is not opened again.
Adjust(d) ==
  /\ adjusts < MaxAdjusts /\ trade # "CANCELLED"
  /\ trade = "COMPLETED" => d.base = 0 /\ d.client = 0
  /\ terms' = [f \in DOMAIN terms |-> terms[f] + d[f]]
  /\ UNCHANGED <<frozen, leg, sett, allocated, send, mark>>
  /\ Payout' > 0 /\ Payout' >= Come({"PAYOUT", "DIRECT"}, {"LIVE", "DONE"})
  /\ Receivable' > 0 /\ Receivable' >= Come({"CLIENT"}, {"DONE"})
  /\ obligation = "SETTLED" => RouteSide' <= RouteSide /\ ExchangeSide' <= ExchangeSide
  /\ RouteLeft' >= 0 /\ ExchangeLeft' >= 0
  /\ obligation' = Refreshed
  /\ Advance
  /\ adjusts' = adjusts + 1

-----------------------------------------------------------------------------
LegStep ==
  \/ CancelTradeInTx
  \/ \E l \in Legs :
       \/ ConfirmLeg(l) \/ DropLeg(l)
       \/ \E n \in Movements : \/ ClientPays(l, n)
                               \/ \E k \in {"PAYOUT", "DIRECT"} : CreatePayoutLeg(l, k, n)
                               \/ \E k \in {"UNWIND", "EXCESS"} : CreateRefundLeg(l, k, n)
RouteStep ==
  \E s \in Settlements :
    \/ \E flow \in {"FROM_ROUTE", "TO_ROUTE"}, n \in Movements : Record(s, flow, n)
    \/ Confirm(s) \/ Fail(s)
SendStep ==
  \E x \in Sends : \/ \E n \in Movements : PlanSend(x, n)
                   \/ Land(x) \/ CancelSend(x)
                   \/ \E s \in Settlements : SettleSend(x, s)
AdjustStep == \E d \in Deltas : Adjust(d)

FundingNext == LegStep \/ RouteStep \/ SendStep \/ AdjustStep
FundingSpec == FundingInit /\ [][FundingNext]_fundingVars

-----------------------------------------------------------------------------
Live(u) == \/ u \in Legs /\ leg[u].state = "LIVE" /\ leg[u].kind \in {"PAYOUT", "UNWIND", "EXCESS"}
           \/ u \in Settlements /\ sett[u].state = "RECORDED" /\ sett[u].flow = "TO_ROUTE"
           \/ u \in Sends /\ send[u].state \in {"PLANNED", "LANDED"}

\* FI-72 to FI-75 from the commands alone, without the checks at commit (IX085, IX086): no
\* source is earmarked beyond what arrived, and a use holds an earmark exactly while it
\* may still take its money, over its whole amount, from money of the right side.
EarmarksExact ==
  /\ FundingTypeOK
  /\ \A s \in Sources : Taken(s) <= IF s \in ClientFunds \cup CounterpartyFunds THEN Amount(s) ELSE 0
  /\ \A u \in Uses :
       /\ Live(u) <=> mark[u].state = "ACTIVE"
       /\ mark[u].state = "ACTIVE" =>
            Sum(mark[u].of, Sources) = IF u \in Sends THEN send[u].amount ELSE Amount(u)
       /\ \A s \in Sources : mark[u].of[s] > 0 =>
            s \in (IF u \in Legs /\ leg[u].kind = "PAYOUT" THEN CounterpartyFunds ELSE ClientFunds)

\* D-16: the trade pays out only money it has received.  The client got at most what the
\* counterparty brought, the counterparty and the refunds at most what the client did,
\* and nothing went to the counterparty of a trade whose deal is cancelled.
PaysOnlyReceived ==
  LET toRoute == Total(sett, {s \in Settlements : sett[s].state = "CONFIRMED" /\ sett[s].flow = "TO_ROUTE"})
                 + Total(send, {x \in Sends : send[x].state = "LANDED"})
  IN  /\ Come({"PAYOUT"}, {"DONE"}) <= Total(sett, CounterpartyFunds)
      /\ toRoute + Come({"UNWIND", "EXCESS"}, {"DONE"}) <= Come({"CLIENT"}, {"DONE"})
      /\ obligation = "CANCELLED" => toRoute = 0

\* FI-61: exactly the confirmed settlements are allocated, however a confirmation and a
\* failure meet; no side is beyond what it is now; and the obligation is settled exactly
\* when both sides are delivered, whether a movement or an adjustment did it.
AllocationExact ==
  /\ allocated = {s \in Settlements : sett[s].state = "CONFIRMED"}
  /\ RouteLeft >= 0 /\ ExchangeLeft >= 0
  /\ obligation = "SETTLED" <=> obligation # "CANCELLED" /\ RouteLeft = 0 /\ ExchangeLeft = 0
  /\ obligation \in {"OPEN", "CANCELLED"} => allocated = {} /\ Come({"DIRECT"}, {"DONE"}) = 0
=============================================================================
