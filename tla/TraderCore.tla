-------------------------------- MODULE TraderCore --------------------------------
(***************************************************************************)
(* One external trader and the clients' BUY requests it may fill           *)
(* (packages/trader-core): its standing, its SELL_USDT block, the orders   *)
(* offered to it, the quotes that price them, what each started order owes *)
(* and the USDT of its Security Reserve.  What every command reads and the *)
(* steps commands share are here; TraderReserve and TraderOrders add the   *)
(* commands.                                                               *)
(***************************************************************************)
EXTENDS FiniteSetsExt, Sums

CONSTANTS
  Requests,   \* trade requests of clients who buy USDT
  Size,       \* USDT of each request
  MaxOrders,  \* bound: orders ever offered, numbered as they are offered
  Rates, Capacities, Requirements,  \* what the trader and the desk may set
  NoRate,     \* no assignment is under way
  MaxReserve, \* bound: nothing is deposited beyond it
  MaxChanges, \* bound: settings changed by the trader or the desk
  MaxExtra,   \* bound: what adjustments add to an order beyond its size
  MaxComing   \* bound: the desk records nothing with this much on its way

ASSUME TraderAssumption ==
  /\ Requests # {}
  /\ Size \in [Requests -> Nat \ {0}] /\ {MaxOrders, MaxReserve, MaxChanges, MaxExtra, MaxComing} \subseteq Nat
  /\ NoRate \notin Rates /\ Capacities \subseteq Nat /\ Requirements \subseteq Nat \ {0}

VARIABLES
  trader,     \* trader_profile: status, available, enabled, required
  block,      \* trader_block: active, rate, capacity, reserved
  balance,    \* LIAB:TRADER_RESERVE, what the exchange owes the trader
  withdrawal, \* the open trader_reserve_withdrawal
  session,    \* a withdrawal being asked for: the trader is locked, the balance is read
  request,    \* trade_request.status
  assign,     \* requests being assigned: the rate read under the request lock
  order,      \* trader_order: state, req, rate; over: its offer or its hold has run out
  quote,      \* the quote made on each order; LAPSED: SENT and past its expiry
  deal,       \* what a started order's trade and obligation stand at
  applied,    \* the reserve application of each order
  changes

vars == <<trader, block, balance, withdrawal, session, request, assign, order, quote, deal,
          applied, changes>>
reserve == <<balance, withdrawal, session, applied>>
settings == <<trader, changes>>

Orders == 1 .. MaxOrders
SizeOf(o) == Size[order[o].req]
In(states) == {o \in Orders : order[o].state \in states}
UsdtOf(os) == Sum([o \in Orders |-> SizeOf(o)], os)
OrdersOf(r) == {o \in Orders : order[o].state # "NONE" /\ order[o].req = r}

Live == {"OFFERED", "ACCEPTED"}
Held == {"ACCEPTED", "IN_PROGRESS"}
Ended == {"DECLINED", "EXPIRED", "WITHDRAWN", "RELEASED", "COMPLETED", "CANCELLED"}

\* Who holds the trader's row, and who holds a request's.
TraderFree == ~session.open
RequestFree(r) == assign[r] = NoRate

-----------------------------------------------------------------------------
(* reserveFigures, for a balance that was read. *)

Withdrawing == withdrawal.amount
Applying == Sum([o \in Orders |-> applied[o].amount],
                {o \in Orders : applied[o].state \in {"APPROVED", "SENT"}})
Free(held) == held - Withdrawing - Applying
Engaged == trader.available \/ In(Held) # {}
Locked(held) ==
  IF Engaged THEN Max({0, Min({Free(held), trader.required})}) ELSE 0
Available(held) == Max({0, Free(held) - Locked(held)})
ReserveFunded == Free(balance) >= trader.required

\* switchOnIssues and standingIssues find nothing.
MaySwitchOn == trader.status = "APPROVED" /\ ReserveFunded
InStanding == MaySwitchOn /\ trader.enabled /\ trader.available

\* freeCapacity, of a block whose open offers are these.
Offered == {o \in In({"OFFERED"}) : ~order[o].over}
FreeCapacityNoHolds(offers) == Max({0, block.capacity - UsdtOf(offers)})
FreeCapacity(offers) == Max({0, block.capacity - block.reserved - UsdtOf(offers)})

-----------------------------------------------------------------------------
(* What a started order still owes. *)

\* inrp2p_route_obligation_side: the frozen terms and the adjustments posted to them.
Side(o) == SizeOf(o) + deal[o].adjusted

\* inrp2p_route_delivery_open: not delivered and not on its way; below zero when the side
\* was adjusted under what is on its way, or the desk recorded more than was open.
InFlight(o) == deal[o].coming + (IF applied[o].state = "SENT" THEN applied[o].amount ELSE 0)
DeliveryOpen(o) == Side(o) - deal[o].delivered - InFlight(o)
Settled(o) == deal[o].delivered = Side(o) /\ deal[o].paid
ObligationOpen(o) == ~deal[o].dropped /\ ~Settled(o)
NewDeal == [funded |-> FALSE, adjusted |-> 0, delivered |-> 0, coming |-> 0, paid |-> FALSE,
            dropped |-> FALSE, told |-> FALSE]

-----------------------------------------------------------------------------
(* Steps the commands share. *)

MayChange == changes < MaxChanges /\ changes' = changes + 1

\* closeUnstartedOrder with releaseHeld, for each of these orders.
CloseUnstarted(os, state) ==
  /\ order' = [o \in Orders |-> IF o \in os THEN [order[o] EXCEPT !.state = state] ELSE order[o]]
  /\ block' = [block EXCEPT !.reserved = @ - UsdtOf(os \cap In({"ACCEPTED"}))]

\* withdrawOffers: every offer the trader has not answered.
WithdrawOffers ==
  order' = [o \in Orders |-> IF order[o].state = "OFFERED"
                             THEN [order[o] EXCEPT !.state = "WITHDRAWN"] ELSE order[o]]
=============================================================================
