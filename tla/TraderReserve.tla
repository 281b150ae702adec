------------------------------ MODULE TraderReserve ------------------------------
(***************************************************************************)
(* The Security Reserve (packages/traders reserve, reserve-application;    *)
(* packages/settlement reserve-delivery) and the deliveries it stands in   *)
(* for.  Commands run under the trader lock; a delivery is recorded,       *)
(* confirmed or failed without it, so it may come between the two reads of *)
(* a withdrawal request: the balance, then what is on its way out.         *)
(***************************************************************************)
EXTENDS TraderCore

orders == <<trader, block, request, assign, order, quote, changes>>

-----------------------------------------------------------------------------
(* Deposits and withdrawals. *)

\* A deposit to the shared address becomes final on chain.
Deposit ==
  /\ balance < MaxReserve /\ balance' = balance + 1
  /\ UNCHANGED <<orders, withdrawal, session, deal, applied>>

NoSession == [open |-> FALSE, balance |-> 0]
NoWithdrawal == [state |-> "NONE", amount |-> 0]

\* requestReserveWithdrawal: the trader is locked and its balance is read ...
BeginWithdraw ==
  /\ TraderFree /\ withdrawal = NoWithdrawal
  /\ session' = [open |-> TRUE, balance |-> balance]
  /\ UNCHANGED <<orders, balance, withdrawal, deal, applied>>

\* ... then the rest of the figures are, and the withdrawal is filed or refused.
EndWithdraw ==
  /\ session.open /\ session' = NoSession
  /\ \/ withdrawal' = withdrawal
     \/ \E n \in 1 .. Available(session.balance) :
          withdrawal' = [state |-> "REQUESTED", amount |-> n]
  /\ UNCHANGED <<orders, balance, deal, applied>>

RecordWithdrawalSent ==
  /\ TraderFree /\ withdrawal.state = "REQUESTED"
  /\ withdrawal' = [withdrawal EXCEPT !.state = "SENT"]
  /\ UNCHANGED <<orders, balance, session, deal, applied>>

\* The chain made the transfer final.
ConfirmWithdrawal ==
  /\ TraderFree /\ withdrawal.state = "SENT"
  /\ balance' = balance - withdrawal.amount /\ withdrawal' = NoWithdrawal
  /\ UNCHANGED <<orders, session, deal, applied>>

\* cancelled before it is sent, or rejected: then, or when the chain failed it.
CloseWithdrawal ==
  /\ TraderFree /\ withdrawal.state \in {"REQUESTED", "SENT"}
  /\ withdrawal' = NoWithdrawal
  /\ UNCHANGED <<orders, balance, session, deal, applied>>

-----------------------------------------------------------------------------
(* Applications of the reserve to what an order owes. *)

\* assertApplicable, with IX094.
Applicable(o, n) ==
  /\ order[o].state = "IN_PROGRESS" /\ deal[o].funded /\ ObligationOpen(o)
  /\ n \in 1 .. DeliveryOpen(o)
  /\ n <= Free(balance)

RequestApplication(o) ==
  /\ TraderFree /\ applied[o].state \notin {"REQUESTED", "APPROVED", "SENT"}
  /\ \E n \in 1 .. Side(o) :
       /\ Applicable(o, n)
       /\ applied' = [applied EXCEPT ![o] = [state |-> "REQUESTED", amount |-> n]]
  /\ UNCHANGED <<orders, balance, withdrawal, session, deal>>

ApproveApplication(o) ==
  /\ TraderFree /\ applied[o].state = "REQUESTED" /\ Applicable(o, applied[o].amount)
  /\ applied' = [applied EXCEPT ![o].state = "APPROVED"]
  /\ UNCHANGED <<orders, balance, withdrawal, session, deal>>

NoApplication == [state |-> "NONE", amount |-> 0]

\* rejected or withdrawn while it waits for approval, ended while it is approved.
EndApplication(o) ==
  /\ TraderFree /\ applied[o].state \in {"REQUESTED", "APPROVED"}
  /\ applied' = [applied EXCEPT ![o] = NoApplication]
  /\ UNCHANGED <<orders, balance, withdrawal, session, deal>>

\* recordAppliedReserveDelivery: by the desk, or by the scanner with no trader lock.
RecordApplied(o) ==
  /\ applied[o].state = "APPROVED" /\ DeliveryOpen(o) >= applied[o].amount
  /\ applied' = [applied EXCEPT ![o].state = "SENT"]
  /\ UNCHANGED <<orders, balance, withdrawal, session, deal>>

-----------------------------------------------------------------------------
(* Deliveries and the side they are measured against, under the obligation *)
(* lock.  The scanner and the reserve count what is on its way; the desk   *)
(* and an adjustment look at what is confirmed alone.                      *)

\* recordTraderDelivery: USDT of the trader's own reaches the order's address.
RecordDelivery(o) ==
  /\ order[o].state = "IN_PROGRESS" /\ ObligationOpen(o) /\ DeliveryOpen(o) >= 1
  /\ deal' = [deal EXCEPT ![o].coming = @ + 1]
  /\ UNCHANGED <<orders, reserve>>

\* recordRouteSettlement, of USDT the desk says the trader sent.
RecordByDesk(o) ==
  /\ order[o].state = "IN_PROGRESS" /\ ObligationOpen(o) /\ deal[o].delivered < Side(o)
  /\ deal[o].coming < MaxComing
  /\ deal' = [deal EXCEPT ![o].coming = @ + 1]
  /\ UNCHANGED <<orders, reserve>>

\* Defect: what the route delivered already is not looked at.
AdjustableUncounted(o, side) == side >= 1
\* assertAdjustmentFits: the side stays positive and covers what is confirmed; a settled
\* obligation keeps it.  Other terms of the trade may refuse it too.
AdjustableTo(o, side) == side >= 1 /\ side >= deal[o].delivered
ApproveAdjustment(o) ==
  /\ order[o].state = "IN_PROGRESS" /\ ObligationOpen(o)
  /\ \E side \in 1 .. SizeOf(o) + MaxExtra :
       /\ side # Side(o) /\ AdjustableTo(o, side)
       /\ deal' = [deal EXCEPT ![o].adjusted = side - SizeOf(o)]
  /\ UNCHANGED <<orders, reserve>>

\* confirmRouteSettlementInTx of the trader's USDT, and of the reserve's: allocateToObligation
\* refuses what the side has no room for.
ConfirmDelivery(o) ==
  /\ deal[o].coming > 0 /\ ~deal[o].dropped /\ deal[o].delivered < Side(o)
  /\ deal' = [deal EXCEPT ![o].coming = @ - 1, ![o].delivered = @ + 1]
  /\ UNCHANGED <<orders, reserve>>
ConfirmApplied(o) ==
  /\ applied[o].state = "SENT" /\ ~deal[o].dropped
  /\ deal[o].delivered + applied[o].amount <= Side(o)
  /\ balance' = balance - applied[o].amount
  /\ deal' = [deal EXCEPT ![o].delivered = @ + applied[o].amount]
  /\ applied' = [applied EXCEPT ![o] = NoApplication]
  /\ UNCHANGED <<orders, withdrawal, session>>

\* failRouteSettlement of the trader's USDT, and of the reserve's.
FailDelivery(o) ==
  /\ deal[o].coming > 0 /\ deal' = [deal EXCEPT ![o].coming = @ - 1]
  /\ UNCHANGED <<orders, reserve>>
FailApplied(o) ==
  /\ applied[o].state = "SENT" /\ applied' = [applied EXCEPT ![o] = NoApplication]
  /\ UNCHANGED <<orders, balance, withdrawal, session, deal>>

-----------------------------------------------------------------------------
(* The client's side of a started order's trade. *)

Started(o) == order[o].state = "IN_PROGRESS" /\ ~deal[o].dropped

\* The client's rupees are confirmed, and INRP2P pays the trader once its USDT is in
\* (Funding has the payment's own steps).
FundDeal(o) ==
  /\ Started(o) /\ ~deal[o].funded
  /\ deal' = [deal EXCEPT ![o].funded = TRUE]
  /\ UNCHANGED <<orders, reserve>>
PayTrader(o) ==
  /\ Started(o) /\ deal[o].funded /\ deal[o].delivered = Side(o) /\ ~deal[o].paid
  /\ deal' = [deal EXCEPT ![o].paid = TRUE]
  /\ UNCHANGED <<orders, reserve>>

\* releaseCommitments: nothing is allocated to the obligation yet.
CancelDeal(o) ==
  /\ Started(o) /\ deal[o].delivered = 0
  /\ deal' = [deal EXCEPT ![o].dropped = TRUE]
  /\ UNCHANGED <<orders, reserve>>

ReserveStep ==
  \/ Deposit \/ BeginWithdraw \/ EndWithdraw
  \/ RecordWithdrawalSent \/ ConfirmWithdrawal \/ CloseWithdrawal
  \/ \E o \in Orders :
       \/ RequestApplication(o) \/ ApproveApplication(o) \/ EndApplication(o)
       \/ RecordApplied(o) \/ ConfirmApplied(o) \/ FailApplied(o)
       \/ RecordDelivery(o) \/ RecordByDesk(o) \/ ConfirmDelivery(o) \/ FailDelivery(o)
       \/ ApproveAdjustment(o) \/ FundDeal(o) \/ PayTrader(o) \/ CancelDeal(o)
=============================================================================
