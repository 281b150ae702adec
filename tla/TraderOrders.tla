------------------------------- MODULE TraderOrders -------------------------------
(***************************************************************************)
(* Trader orders (packages/traders orders, routing, blocks, jobs): a       *)
(* request is offered to the trader, which accepts it and holds capacity   *)
(* for it; the desk quotes on the hold; the client's acceptance starts the *)
(* order; the sweep ends offers and holds that ran out and brings started  *)
(* orders up to their obligations.  A command that locks the request, the  *)
(* trader and the order is one action; routing reads the trader and writes *)
(* the offer in two steps, because it locks the request alone.             *)
(***************************************************************************)
EXTENDS TraderReserve

Init ==
  /\ trader \in [status : {"APPROVED"}, available : {FALSE}, enabled : {TRUE}, required : Requirements]
  /\ block \in [active : {TRUE}, rate : Rates, capacity : Capacities, reserved : {0}]
  /\ balance = 0 /\ withdrawal = NoWithdrawal /\ session = NoSession
  /\ request = [r \in Requests |-> "OPEN"] /\ assign = [r \in Requests |-> NoRate]
  /\ order = [o \in Orders |-> [state |-> "NONE", req |-> CHOOSE r \in Requests : TRUE, rate |-> NoRate, over |-> FALSE]]
  /\ quote = [o \in Orders |-> "NONE"] /\ deal = [o \in Orders |-> NewDeal]
  /\ applied = [o \in Orders |-> NoApplication] /\ changes = 0

work == <<request, assign, quote, deal, reserve>>

-----------------------------------------------------------------------------
(* Settings of the trader and of the desk, under the trader lock. *)

SetAvailability ==
  /\ TraderFree /\ MayChange
  /\ IF trader.available THEN WithdrawOffers ELSE MaySwitchOn /\ order' = order
  /\ trader' = [trader EXCEPT !.available = ~@]
  /\ UNCHANGED <<block, work>>

PauseTrader ==
  /\ TraderFree /\ MayChange /\ trader.status = "APPROVED" /\ WithdrawOffers
  /\ trader' = [trader EXCEPT !.status = "PAUSED", !.available = FALSE]
  /\ UNCHANGED <<block, work>>

ResumeTrader ==
  /\ TraderFree /\ MayChange /\ trader.status = "PAUSED"
  /\ trader' = [trader EXCEPT !.status = "APPROVED"]
  /\ UNCHANGED <<block, order, work>>

SetAssignments ==
  /\ TraderFree /\ MayChange
  /\ IF trader.enabled THEN WithdrawOffers ELSE order' = order
  /\ trader' = [trader EXCEPT !.enabled = ~@]
  /\ UNCHANGED <<block, work>>

SetRequired ==
  /\ TraderFree /\ MayChange
  /\ \E n \in Requirements \ {trader.required} : trader' = [trader EXCEPT !.required = n]
  /\ UNCHANGED <<block, order, work>>

\* A new rate takes the offers at the old one with it.
UpdateBlock ==
  /\ TraderFree /\ MayChange
  /\ \E rate \in Rates, capacity \in Capacities, active \in BOOLEAN :
       /\ capacity >= block.reserved
       /\ IF rate # block.rate THEN WithdrawOffers ELSE order' = order
       /\ block' = [block EXCEPT !.rate = rate, !.capacity = capacity, !.active = active]
       /\ block' # block
  /\ UNCHANGED <<trader, work>>

-----------------------------------------------------------------------------
(* Routing: the request is locked, the trader is read without a lock. *)

\* orderFit, of a request of the trader's size.
Fits(r) == block.active /\ Size[r] <= FreeCapacity(Offered)

BeginAssign(r) ==
  /\ RequestFree(r) /\ request[r] \in {"OPEN", "QUOTED"}
  /\ \A o \in OrdersOf(r) : order[o].state \notin Live \cup {"DECLINED", "EXPIRED"}
  /\ InStanding /\ Fits(r)
  /\ Cardinality(In({"NONE"})) > Cardinality({x \in Requests : assign[x] # NoRate})
  /\ assign' = [assign EXCEPT ![r] = block.rate]
  /\ UNCHANGED <<trader, block, request, order, quote, deal, reserve, changes>>

EndAssign(r) ==
  /\ assign[r] # NoRate /\ assign' = [assign EXCEPT ![r] = NoRate]
  /\ \E o \in In({"NONE"}) :
       /\ \A p \in In({"NONE"}) : o <= p
       /\ order' = [order EXCEPT ![o] =
                      [state |-> "OFFERED", req |-> r, rate |-> assign[r], over |-> FALSE]]
  /\ UNCHANGED <<trader, block, request, quote, deal, reserve, changes>>

-----------------------------------------------------------------------------
(* The trader's answer, and the ends of what never starts. *)

Untouched == UNCHANGED <<settings, work>>

\* acceptOrder: the order's capacity is held at once.
AcceptOrder(o) ==
  /\ order[o].state = "OFFERED" /\ ~order[o].over
  /\ TraderFree /\ RequestFree(order[o].req) /\ request[order[o].req] \in {"OPEN", "QUOTED"}
  /\ InStanding /\ block.active /\ block.rate = order[o].rate
  /\ SizeOf(o) <= FreeCapacity(Offered \ {o})
  /\ block' = [block EXCEPT !.reserved = @ + SizeOf(o)]
  /\ order' = [order EXCEPT ![o].state = "ACCEPTED", ![o].over = FALSE]
  /\ Untouched

DeclineOrder(o) ==
  /\ order[o].state = "OFFERED" /\ TraderFree
  /\ CloseUnstarted({o}, "DECLINED") /\ Untouched

ExpireOffer(o) ==
  /\ order[o].state = "OFFERED" /\ order[o].over /\ TraderFree
  /\ CloseUnstarted({o}, "EXPIRED") /\ Untouched

\* liveQuoteOnOrder: a quote of the request that the client may still accept.
LiveQuote(r) == \E o \in OrdersOf(r) : quote[o] = "SENT"
Releasable(o) ==
  /\ order[o].state = "ACCEPTED" /\ TraderFree /\ RequestFree(order[o].req)
  /\ ~LiveQuote(order[o].req)

ReleaseOrder(o) ==
  /\ Releasable(o) /\ CloseUnstarted({o}, "RELEASED") /\ Untouched
WithdrawOffer(o) ==
  /\ order[o].state = "OFFERED" /\ TraderFree /\ RequestFree(order[o].req)
  /\ CloseUnstarted({o}, "WITHDRAWN") /\ Untouched
EndHold(o) ==
  /\ Releasable(o) /\ order[o].over
  /\ CloseUnstarted({o}, "RELEASED") /\ Untouched

\* The offer's, or the hold's, time is up.
RunOut(o) ==
  /\ order[o].state \in Live /\ ~order[o].over
  /\ order' = [order EXCEPT ![o].over = TRUE]
  /\ UNCHANGED block /\ Untouched

-----------------------------------------------------------------------------
(* Quotes on an accepted order, and the trade that starts it. *)

AsIs == UNCHANGED <<trader, assign, deal, reserve, changes>>

\* requireOrderForQuote, and IX075: at that order's snapshot.
HeldFor(r) == {o \in OrdersOf(r) : order[o].state = "ACCEPTED" /\ ~order[o].over}
PricesAnyHeld(o) == HeldFor(order[o].req) # {}
PricesHeld(o) == o \in HeldFor(order[o].req)

MayQuote(o) == RequestFree(order[o].req) /\ request[order[o].req] \in {"OPEN", "QUOTED"}
CreateQuote(o) ==
  /\ quote[o] = "NONE" /\ MayQuote(o) /\ PricesHeld(o)
  /\ quote' = [quote EXCEPT ![o] = "DRAFT"]
  /\ UNCHANGED <<block, order, request>> /\ AsIs

\* cancelSentQuoteOfRequest, then the status of the request.
Sent == {"SENT", "LAPSED"}
CloseSent(r, keep) ==
  quote' = [o \in Orders |-> IF o \in keep THEN "SENT"
                             ELSE IF o \in OrdersOf(r) /\ quote[o] \in Sent THEN "GONE" ELSE quote[o]]
SendQuote(o) ==
  /\ quote[o] = "DRAFT" /\ MayQuote(o) /\ PricesHeld(o)
  /\ CloseSent(order[o].req, {o})
  /\ request' = [request EXCEPT ![order[o].req] = "QUOTED"]
  /\ UNCHANGED <<block, order>> /\ AsIs

Lapse(o) ==
  /\ quote[o] = "SENT" /\ quote' = [quote EXCEPT ![o] = "LAPSED"]
  /\ UNCHANGED <<block, order, request>> /\ AsIs

\* cancelled, rejected by the client or expired by the job; the request is open again.
EndQuote(o) ==
  /\ quote[o] \in {"DRAFT"} \cup Sent /\ RequestFree(order[o].req)
  /\ quote' = [quote EXCEPT ![o] = "GONE"]
  /\ request' = IF quote[o] \in Sent /\ request[order[o].req] = "QUOTED"
                THEN [request EXCEPT ![order[o].req] = "OPEN"] ELSE request
  /\ UNCHANGED <<block, order>> /\ AsIs

\* acceptCore with startOrderForTrade and IX073.
AcceptQuote(o) ==
  /\ quote[o] = "SENT" /\ RequestFree(order[o].req) /\ request[order[o].req] = "QUOTED"
  /\ order[o].state = "ACCEPTED"
  /\ quote' = [quote EXCEPT ![o] = "ACCEPTED"]
  /\ request' = [request EXCEPT ![order[o].req] = "ACCEPTED"]
  /\ order' = [order EXCEPT ![o].state = "IN_PROGRESS", ![o].over = FALSE]
  /\ UNCHANGED block /\ AsIs

\* declined, withdrawn or expired: closeOrdersForRequest.
CloseRequest(r) ==
  /\ RequestFree(r) /\ request[r] \in {"OPEN", "QUOTED"}
  /\ LET live == OrdersOf(r) \cap In(Live) IN
     /\ live # {} => TraderFree
     /\ order' = [o \in Orders |-> IF o \notin live THEN order[o] ELSE
                    [order[o] EXCEPT !.state = IF @ = "OFFERED" THEN "WITHDRAWN" ELSE "RELEASED"]]
     /\ block' = [block EXCEPT !.reserved = @ - UsdtOf(live \cap In({"ACCEPTED"}))]
  /\ CloseSent(r, {})
  /\ request' = [request EXCEPT ![r] = "CLOSED"]
  /\ AsIs

-----------------------------------------------------------------------------
(* reconcileOrderInTx: by the sweep, or right after a settlement or a cancellation. *)

\* Its applications end with it; one whose USDT has moved is the chain's to decide.
EndWith(o) ==
  applied' = IF applied[o].state \in {"REQUESTED", "APPROVED"}
             THEN [applied EXCEPT ![o] = NoApplication] ELSE applied

Reconcilable(o) == order[o].state = "IN_PROGRESS" /\ TraderFree
TellDelivered(o) ==
  /\ Reconcilable(o) /\ ObligationOpen(o) /\ deal[o].delivered = Side(o) /\ ~deal[o].told
  /\ deal' = [deal EXCEPT ![o].told = TRUE]
  /\ UNCHANGED <<orders, reserve>>
CompleteOrder(o) ==
  /\ Reconcilable(o) /\ Settled(o)
  /\ order' = [order EXCEPT ![o].state = "COMPLETED"]
  /\ block' = [block EXCEPT !.reserved = @ - SizeOf(o), !.capacity = @ - SizeOf(o)]
  /\ deal' = [deal EXCEPT ![o].told = TRUE] /\ EndWith(o)
  /\ UNCHANGED <<settings, request, assign, quote, balance, withdrawal, session>>
CancelOrder(o) ==
  /\ Reconcilable(o) /\ deal[o].dropped
  /\ order' = [order EXCEPT ![o].state = "CANCELLED"]
  /\ block' = [block EXCEPT !.reserved = @ - SizeOf(o)] /\ EndWith(o)
  /\ UNCHANGED <<settings, request, assign, quote, deal, balance, withdrawal, session>>
Reconcile(o) == TellDelivered(o) \/ CompleteOrder(o) \/ CancelOrder(o)

-----------------------------------------------------------------------------
Settings ==
  \/ SetAvailability \/ PauseTrader \/ ResumeTrader \/ SetAssignments \/ SetRequired \/ UpdateBlock

OrderStep(o) ==
  \/ AcceptOrder(o) \/ DeclineOrder(o) \/ ExpireOffer(o) \/ ReleaseOrder(o) \/ WithdrawOffer(o)
  \/ EndHold(o) \/ RunOut(o) \/ Reconcile(o)
  \/ CreateQuote(o) \/ SendQuote(o) \/ Lapse(o) \/ EndQuote(o) \/ AcceptQuote(o)

Next ==
  \/ Settings \/ ReserveStep
  \/ \E r \in Requests : BeginAssign(r) \/ EndAssign(r) \/ CloseRequest(r)
  \/ \E o \in Orders : OrderStep(o)

Spec == Init /\ [][Next]_vars

-----------------------------------------------------------------------------
TypeOK ==
  /\ trader \in [status : {"APPROVED", "PAUSED"}, available : BOOLEAN, enabled : BOOLEAN,
                 required : Requirements]
  /\ block \in [active : BOOLEAN, rate : Rates, capacity : Nat, reserved : Nat]
  /\ balance \in Int /\ changes \in 0 .. MaxChanges
  /\ withdrawal \in [state : {"NONE", "REQUESTED", "SENT"}, amount : Nat]
  /\ session \in [open : BOOLEAN, balance : Int]
  /\ request \in [Requests -> {"OPEN", "QUOTED", "ACCEPTED", "CLOSED"}]
  /\ assign \in [Requests -> Rates \cup {NoRate}]
  /\ order \in [Orders -> [state : {"NONE"} \cup Live \cup Held \cup Ended, req : Requests,
                            rate : Rates \cup {NoRate}, over : BOOLEAN]]
  /\ quote \in [Orders -> {"NONE", "DRAFT", "ACCEPTED", "GONE"} \cup Sent]
  /\ deal \in [Orders -> [funded : BOOLEAN, adjusted : Int, delivered : Nat, coming : Nat, paid : BOOLEAN,
                           dropped : BOOLEAN, told : BOOLEAN]]
  /\ applied \in [Orders -> [state : {"NONE", "REQUESTED", "APPROVED", "SENT"}, amount : Nat]]

(* What the block says it holds is what its accepted and started orders    *)
(* promise, never more than the trader's capacity, whatever the trader     *)
(* sets and whichever way an order ends: capacity is not promised twice    *)
(* and never lost (docs/TRADERS.md TR-02; trader-core hooks and offers,    *)
(* traders orders, blocks).                                                *)
HoldsAreExact ==
  /\ TypeOK
  /\ block.reserved = UsdtOf(In(Held)) /\ block.reserved <= block.capacity

(* A quote the client can accept prices an order that still holds its      *)
(* capacity: no release, hold end, re-offer or resent draft leaves the     *)
(* client with a price nobody stands behind, and a request starts at most  *)
(* one order (TR-04; trader-core requireOrderForQuote, IX073, IX075).      *)
QuoteIsBacked ==
  /\ \A o \in Orders : quote[o] = "SENT" => order[o].state = "ACCEPTED"
  /\ \A o, p \in In({"IN_PROGRESS", "COMPLETED", "CANCELLED"}) : order[o].req = order[p].req => o = p

(* A trader's USDT, its reserve included, is spent on what its order owes  *)
(* and on nothing else: the desk may record more than is open and an       *)
(* adjustment may lower the side under what is on its way, yet what is     *)
(* confirmed stays within the side as it stands, nothing is confirmed for  *)
(* an obligation that was dropped, an order that completed stays exactly   *)
(* settled, and no undecided application outlives its order (TR-12;        *)
(* allocateToObligation, assertAdjustmentFits, reconcileOrderInTx).        *)
SpentOnlyOnOwed ==
  \A o \in Orders :
    /\ deal[o].delivered <= Side(o)
    /\ deal[o].dropped => deal[o].delivered = 0
    /\ order[o].state = "COMPLETED" => Settled(o)
    /\ applied[o].state \in {"REQUESTED", "APPROVED"} => order[o].state = "IN_PROGRESS"
=============================================================================
