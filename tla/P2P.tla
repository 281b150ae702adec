---------------------------------- MODULE P2P ----------------------------------
(***************************************************************************)
(* One P2P deal (ADR 0019, 0020): its rupees go straight between the       *)
(* client and the trader, its USDT waits in the escrow.  The payee         *)
(* confirms or disputes every payment, INRP2P decides a disputed or an     *)
(* unanswered one, three deadlines run, and the escrow goes one way: on to *)
(* the buyer (release) or back to the seller (giveBack).  Every command    *)
(* runs under the trade lock; the deadline job selects before it locks.    *)
(* A window may be over at any moment.                                     *)
(***************************************************************************)
EXTENDS Integers, FiniteSetsExt, Sums

CONSTANTS
  Due,         \* rupees the buyer of the USDT owes
  MaxPayments, \* bound: payments filed, numbered as they are filed
  Directions   \* of the client: BUY, SELL

ASSUME P2PAssumption ==
  Due \in Nat \ {0} /\ MaxPayments \in Nat \ {0} /\ Directions \subseteq {"BUY", "SELL"}

Payments == 1 .. MaxPayments

VARIABLES
  dir,      \* BUY: the client pays the trader; SELL: the trader pays the client
  trade,    \* trade.lifecycle_state
  reason,   \* why the trade was cancelled
  funded,   \* the seller's USDT is in the escrow, all of it
  pay,      \* the settlement_leg of each rupee payment: its state and amount
  dispute,  \* p2p_dispute of each payment
  overdue,  \* payments with an open P2P_RECEIPT_OVERDUE case
  cases,    \* other open blocking cases: of a payment, or (0) of the trade
  unwind,   \* p2p_unwind: its reason
  release,  \* the transfer of the escrow to the buyer
  giveBack, \* the transfer of the escrow back to the seller
  picked    \* what the deadline job selected and has not come to yet

vars == <<dir, trade, reason, funded, pay, dispute, overdue, cases, unwind, release, giveBack, picked>>

-----------------------------------------------------------------------------
NoPayment == [state |-> "NONE", amount |-> 0]
PaidBy(ps) == Sum([p \in Payments |-> pay[p].amount], ps)
In(states) == {p \in Payments : pay[p].state \in states}

\* legTotals: confirmed, and confirmed or waiting for the payee.
Received  == PaidBy(In({"COMPLETED"}))
Committed == PaidBy(In({"PROCESSING", "COMPLETED"}))
Underway  == In({"PROCESSING", "COMPLETED"}) # {}

\* trade.hold: a blocking case of it is open; a dispute is one.
Hold == cases # {} \/ \E p \in Payments : dispute[p] = "OPEN"

\* What the deadline job can have selected.
UnpaidDeal  == <<"expire_unpaid_escrow", 0>>
NotPaidDeal == <<"payment_overdue", 0>>
Receipt(p)  == <<"receipt_overdue", p>>

Live == trade \notin {"COMPLETED", "CANCELLED"}
\* waitingPayment: the newest payment that waits for its payee.
Waiting(p) == pay[p].state = "PROCESSING" /\ p = Max(In({"PROCESSING"}))

TypeOK ==
  /\ dir \in Directions
  /\ trade \in {"AWAITING", "DETECTED", "CONFIRMED", "SETTLING", "PARTIAL", "COMPLETED", "CANCELLED"}
  /\ reason \in {"NONE", "CLOCK", "DESK", "NOT_PAID", "REFUNDED"} /\ funded \in BOOLEAN
  /\ pay \in [Payments -> [state : {"NONE", "PROCESSING", "COMPLETED", "FAILED"}, amount : 0 .. Due]]
  /\ dispute \in [Payments -> {"NONE", "OPEN", "PAID", "NOT_PAID"}]
  /\ overdue \subseteq Payments /\ cases \subseteq {0} \cup Payments
  /\ unwind \in {"NONE", "PAY_WINDOW_MISSED", "NOT_PAID"}
  /\ {release, giveBack} \subseteq {"NONE", "PLANNED", "DONE"}
  /\ picked \subseteq {UnpaidDeal, NotPaidDeal} \cup {Receipt(p) : p \in Payments}

Init ==
  /\ dir \in Directions /\ trade = "AWAITING" /\ reason = "NONE" /\ funded = FALSE
  /\ pay = [p \in Payments |-> NoPayment] /\ dispute = [p \in Payments |-> "NONE"]
  /\ overdue = {} /\ cases = {} /\ unwind = "NONE"
  /\ release = "NONE" /\ giveBack = "NONE" /\ picked = {}

escrow == <<release, giveBack>>

-----------------------------------------------------------------------------
(* The escrow is funded and the payments are filed. *)

\* BUY: the trader's delivery is confirmed.  SELL: the client's USDT is.
Fund ==
  /\ ~funded /\ trade = "AWAITING" /\ funded' = TRUE
  /\ trade' = IF dir = "SELL" THEN "CONFIRMED" ELSE trade
  /\ UNCHANGED <<dir, reason, pay, dispute, overdue, cases, unwind, escrow, picked>>

\* The next payment, with the one who pays saying that it did.
NewPayment(p, n) ==
  /\ p = Max({0} \cup {q \in Payments : pay[q] # NoPayment}) + 1
  /\ n \in 1 .. Due - Committed
  /\ pay' = [pay EXCEPT ![p] = [state |-> "PROCESSING", amount |-> n]]

\* claimIncomingFiat: the client paid the trader.
Claim(p, n) ==
  /\ dir = "BUY" /\ funded /\ trade \in {"AWAITING", "DETECTED"}
  /\ NewPayment(p, n) /\ trade' = "DETECTED"
  /\ UNCHANGED <<dir, reason, funded, dispute, overdue, cases, unwind, escrow, picked>>

\* fileRoutePayoutInTx, and one payment at a time (submitOrderPayment).
MayFile ==
  /\ dir = "SELL" /\ ~Hold /\ trade \in {"CONFIRMED", "SETTLING", "PARTIAL"}
  /\ In({"PROCESSING"}) = {} /\ unwind = "NONE" /\ giveBack = "NONE"
FileRoutePayout(p, n) ==
  /\ MayFile /\ NewPayment(p, n)
  /\ trade' = IF trade = "CONFIRMED" THEN "SETTLING" ELSE trade
  /\ UNCHANGED <<dir, reason, funded, dispute, overdue, cases, unwind, escrow, picked>>

-----------------------------------------------------------------------------
(* The payee's answer. *)

\* advanceTrade of a BUY, after the payments, the disputes and the cases of this step.
Advanced == IF trade = "DETECTED" /\ ~Hold' /\ Received' = Due /\ In({"PROCESSING"})' = {} THEN "CONFIRMED" ELSE trade

\* confirmClientLegInTx: on a hold too; what does not add up is a case.
ConfirmClientLeg(p) ==
  /\ trade \notin {"AWAITING", "CANCELLED"}
  /\ pay' = [pay EXCEPT ![p].state = "COMPLETED"]
  /\ cases' = IF In({"PROCESSING"})' = {} /\ Received' # Due THEN cases \cup {0} ELSE cases
  /\ trade' = Advanced

\* confirmPayoutLegInTx: nothing is confirmed on a hold, or beside a refund.
ConfirmPayoutLeg(p) ==
  /\ ~Hold' /\ giveBack = "NONE" /\ Received + pay[p].amount <= Due
  /\ pay' = [pay EXCEPT ![p].state = "COMPLETED"]
  /\ trade' = IF Received' = Due THEN "COMPLETED" ELSE IF trade = "SETTLING" THEN "PARTIAL" ELSE trade

\* Its dispute ends as paid and its receipt case closes, before it is confirmed.
CountPayment(p) ==
  /\ pay[p].state = "PROCESSING"
  /\ dispute' = [dispute EXCEPT ![p] = IF @ = "OPEN" THEN "PAID" ELSE @]
  /\ overdue' = overdue \ {p}
  /\ IF dir = "BUY" THEN ConfirmClientLeg(p) ELSE UNCHANGED cases /\ ConfirmPayoutLeg(p)
  /\ UNCHANGED <<dir, reason, funded, unwind, escrow, picked>>

\* confirmP2pReceiptInTx by the payee, its bank showing the payer's account: a late answer
\* counts too.
ConfirmReceipt(p) == CountPayment(p)

\* Another sender: the payment does not count and a case opens.
StrangersRupees(p) ==
  /\ pay[p].state = "PROCESSING" /\ p \notin cases /\ cases' = cases \cup {p}
  /\ UNCHANGED <<dir, trade, reason, funded, pay, dispute, overdue, unwind, escrow, picked>>

\* openP2pDisputeInTx: one dispute per payment, ever.
OpenDispute(p) ==
  /\ Waiting(p) /\ dispute[p] = "NONE" /\ dispute' = [dispute EXCEPT ![p] = "OPEN"]
  /\ overdue' = overdue \ {p}
  /\ UNCHANGED <<dir, trade, reason, funded, pay, cases, unwind, escrow, picked>>

-----------------------------------------------------------------------------
(* INRP2P decides. *)

\* cancelTradeInTx: nothing confirmed yet; nothing goes to the client of such a trade.
MayCancel == Received = 0 /\ trade \in {"AWAITING", "DETECTED"}

\* releaseCommitments: what was detected fails with the trade.
EndTrade(why) ==
  /\ trade' = "CANCELLED" /\ reason' = why
  /\ pay' = [p \in Payments |-> IF pay[p].state = "PROCESSING" THEN [pay[p] EXCEPT !.state = "FAILED"] ELSE pay[p]]

\* Only a disputed or an unanswered payment is decided here.
Decidable(p) == Waiting(p) /\ (dispute[p] = "OPEN" \/ p \in overdue)

DecidePaid(p) == Decidable(p) /\ CountPayment(p)

\* Defect: a decision on a dispute leaves the deal as it is.
UnwoundByClock(why) == unwind' = IF unwind = "NONE" /\ why = "PAY_WINDOW_MISSED" THEN why ELSE unwind
\* startP2pUnwindInTx: once.
Unwound(why) == unwind' = IF unwind = "NONE" THEN why ELSE unwind

DecideNotPaid(p) ==
  /\ Decidable(p)
  /\ dispute' = [dispute EXCEPT ![p] = IF @ = "OPEN" THEN "NOT_PAID" ELSE @]
  /\ overdue' = overdue \ {p}
  /\ IF dir = "BUY" THEN MayCancel /\ EndTrade("NOT_PAID") /\ UNCHANGED unwind
     ELSE /\ pay' = [pay EXCEPT ![p].state = "FAILED"]
          /\ Unwound("NOT_PAID") /\ UNCHANGED <<trade, reason>>
  /\ UNCHANGED <<dir, funded, cases, escrow, picked>>

-----------------------------------------------------------------------------
(* The desk, which looks at no dispute. *)

\* confirmFirstLeg of a payment whose sender the desk accepted.
ConfirmFirstLeg(p) ==
  /\ dir = "BUY" /\ pay[p].state = "PROCESSING"
  /\ UNCHANGED <<dir, reason, funded, dispute, overdue, unwind, escrow, picked>>
  /\ ConfirmClientLeg(p)

\* confirmPayout of one: its receipt case stays.
ConfirmPayout(p) ==
  /\ dir = "SELL" /\ pay[p].state = "PROCESSING"
  /\ UNCHANGED <<dir, reason, funded, dispute, overdue, cases, unwind, escrow, picked>>
  /\ ConfirmPayoutLeg(p)

\* revertFirstLeg: the client's payment did not arrive.
RevertFirstLeg(p) ==
  /\ dir = "BUY" /\ pay[p].state = "PROCESSING"
  /\ pay' = [pay EXCEPT ![p].state = "FAILED"] /\ UNCHANGED cases
  /\ UNCHANGED <<dir, reason, funded, dispute, overdue, unwind, escrow, picked>>
  /\ trade' = IF trade = "DETECTED" /\ ~Underway' THEN "AWAITING" ELSE Advanced

\* failPayoutLeg: the trader's did not; a case asks for another.
FailPayoutLeg(p) ==
  /\ dir = "SELL" /\ pay[p].state = "PROCESSING"
  /\ pay' = [pay EXCEPT ![p].state = "FAILED"] /\ cases' = cases \cup {p}
  /\ UNCHANGED <<dir, trade, reason, funded, dispute, overdue, unwind, escrow, picked>>

\* cancelTrade: not while a payment waits.
CancelTrade ==
  /\ MayCancel /\ In({"PROCESSING"}) = {} /\ EndTrade("DESK")
  /\ UNCHANGED <<dir, funded, dispute, overdue, cases, unwind, escrow, picked>>

\* resolveException, voidException: any case but a dispute.
CloseCase(c) ==
  /\ \/ c \in cases /\ cases' = cases \ {c} /\ UNCHANGED overdue
     \/ c \in overdue /\ overdue' = overdue \ {c} /\ UNCHANGED cases
  /\ UNCHANGED <<dir, reason, funded, pay, dispute, unwind, escrow, picked>>
  /\ trade' = Advanced

-----------------------------------------------------------------------------
(* The deadlines: selected first, done under the lock (runP2pDeadlines). *)

Unpaid  == dir = "BUY" /\ trade = "AWAITING" /\ ~Hold /\ \A p \in Payments : pay[p] = NoPayment
NotPaid == dir = "SELL" /\ trade \in {"CONFIRMED", "SETTLING"} /\ ~Underway /\ unwind = "NONE"
Unanswered(p) == pay[p].state = "PROCESSING" /\ p \notin overdue /\ dispute[p] = "NONE"

Select ==
  /\ picked = {}
  /\ picked' = (IF Unpaid THEN {UnpaidDeal} ELSE {}) \cup (IF NotPaid THEN {NotPaidDeal} ELSE {})
                 \cup {Receipt(p) : p \in {q \in Payments : Unanswered(q)}}
  /\ picked' # {}
  /\ UNCHANGED <<dir, trade, reason, funded, pay, dispute, overdue, cases, unwind, escrow>>

\* A step of the job that finds nothing to do any more, or fails.
Skip(x) ==
  /\ x \in picked /\ picked' = picked \ {x}
  /\ UNCHANGED <<dir, trade, reason, funded, pay, dispute, overdue, cases, unwind, escrow>>

\* Defect: the selection is trusted.
StillUnpaidSelected == trade = "AWAITING"
\* trade.expire_unpaid_escrow: looked at again under the lock.
StillUnpaid == trade = "AWAITING" /\ ~Hold /\ \A p \in Payments : pay[p] = NoPayment
ExpireUnpaid ==
  /\ UnpaidDeal \in picked /\ StillUnpaid /\ MayCancel /\ EndTrade("CLOCK")
  /\ picked' = picked \ {UnpaidDeal}
  /\ UNCHANGED <<dir, funded, dispute, overdue, cases, unwind, escrow>>

\* escrow.payment_overdue: looked at again under the lock.
StillNotPaid == Live /\ ~Underway
MissPayWindow ==
  /\ NotPaidDeal \in picked /\ StillNotPaid /\ Unwound("PAY_WINDOW_MISSED")
  /\ picked' = picked \ {NotPaidDeal}
  /\ UNCHANGED <<dir, trade, reason, funded, pay, dispute, overdue, cases, escrow>>

\* escrow.receipt_overdue: the payment is not looked at again.
ReceiptOverdue(p) ==
  /\ Receipt(p) \in picked /\ overdue' = overdue \cup {p} /\ picked' = picked \ {Receipt(p)}
  /\ UNCHANGED <<dir, trade, reason, funded, pay, dispute, cases, unwind, escrow>>

-----------------------------------------------------------------------------
(* The escrow's one way out.  Planned by autopay (or, a refund, by the desk); settled by  *)
(* the chain; or its send cancelled, which frees what it held.                            *)

\* inrp2p_counterparty_delivered of a SELL.
DeliveredInFull == Received >= Due

\* A BUY's payout (createPayoutLegInTx); a SELL's payment of the trader (planRoutePaymentInTx).
PlanRelease ==
  /\ ~Hold /\ funded /\ release = "NONE"
  /\ \/ dir = "BUY" /\ trade \in {"CONFIRMED", "SETTLING"} /\ trade' = "SETTLING"
     \/ dir = "SELL" /\ trade # "CANCELLED" /\ giveBack # "PLANNED" /\ DeliveredInFull /\ UNCHANGED trade
  /\ release' = "PLANNED"
  /\ UNCHANGED <<dir, reason, funded, pay, dispute, overdue, cases, unwind, giveBack, picked>>

SettleRelease ==
  /\ release = "PLANNED" /\ release' = "DONE"
  /\ IF dir = "BUY" THEN ~Hold /\ trade' = "COMPLETED" ELSE UNCHANGED trade
  /\ UNCHANGED <<dir, reason, funded, pay, dispute, overdue, cases, unwind, giveBack, picked>>

DropRelease ==
  /\ release = "PLANNED" /\ release' = "NONE"
  /\ cases' = IF dir = "BUY" THEN cases \cup {0} ELSE cases
  /\ UNCHANGED <<dir, trade, reason, funded, pay, dispute, overdue, unwind, giveBack, picked>>

\* Defect: a payment underway does not stop a refund.
MayRefundUnderway == Live /\ funded /\ trade # "AWAITING"
\* planP2pRefundInTx of an unwind, createRefundLeg without one: assertNoPayoutUnderway.
MayRefund == Live /\ funded /\ trade # "AWAITING" /\ ~Underway

\* A BUY's escrow returns (planEscrowReturnInTx); a SELL's is refunded.
PlanGiveBack ==
  /\ funded /\ giveBack = "NONE"
  /\ IF dir = "BUY" THEN trade = "CANCELLED" ELSE MayRefund
  /\ giveBack' = "PLANNED"
  /\ UNCHANGED <<dir, trade, reason, funded, pay, dispute, overdue, cases, unwind, release, picked>>

SettleGiveBack ==
  /\ giveBack = "PLANNED" /\ giveBack' = "DONE"
  /\ UNCHANGED <<dir, trade, reason, funded, pay, dispute, overdue, cases, unwind, release, picked>>

DropGiveBack ==
  /\ giveBack = "PLANNED" /\ giveBack' = "NONE"
  /\ cases' = IF dir = "SELL" THEN cases \cup {0} ELSE cases
  /\ UNCHANGED <<dir, trade, reason, funded, pay, dispute, overdue, unwind, release, picked>>

\* cancelRefundedTradeInTx, by the desk or when the unwind's refund is back.
CancelRefunded ==
  /\ dir = "SELL" /\ Live /\ giveBack = "DONE" /\ ~Underway /\ EndTrade("REFUNDED")
  /\ UNCHANGED <<dir, funded, dispute, overdue, cases, unwind, escrow, picked>>

Next ==
  \/ Fund
  \/ \E p \in Payments, n \in 1 .. Due : Claim(p, n) \/ FileRoutePayout(p, n)
  \/ \E p \in Payments : \/ ConfirmReceipt(p) \/ StrangersRupees(p) \/ OpenDispute(p)
                         \/ DecidePaid(p) \/ DecideNotPaid(p)
                         \/ ConfirmFirstLeg(p) \/ ConfirmPayout(p)
                         \/ RevertFirstLeg(p) \/ FailPayoutLeg(p)
                         \/ ReceiptOverdue(p)
  \/ CancelTrade \/ \E c \in {0} \cup Payments : CloseCase(c)
  \/ Select \/ \E x \in picked : Skip(x)
  \/ ExpireUnpaid \/ MissPayWindow
  \/ PlanRelease \/ SettleRelease \/ DropRelease
  \/ PlanGiveBack \/ SettleGiveBack \/ DropGiveBack \/ CancelRefunded

Spec == Init /\ [][Next]_vars

-----------------------------------------------------------------------------
\* Nobody may be left holding both (RUNBOOKS, P2P deals): the USDT is on its way to the
\* buyer only when every rupee was confirmed, and on its way back only when none was and
\* none is waiting; never both.  Over every order of the payee, INRP2P, the desk, the
\* deadlines and the signer (disputes.ts, cancel.ts, signed.ts, legs.ts).
NobodyHoldsBoth ==
  /\ TypeOK
  /\ release # "NONE" => Received = Due /\ giveBack = "NONE"
  /\ giveBack # "NONE" => ~Underway

\* What was decided stays decided, with all it entails: a payment decided paid counts; one
\* decided not paid failed for good, and its deal is cancelled or unwound
\* (decideP2pPayment, confirmP2pReceiptInTx).
DecisionStands ==
  \A p \in Payments :
    /\ dispute[p] = "PAID" => pay[p].state = "COMPLETED"
    /\ dispute[p] = "NOT_PAID" => /\ pay[p].state = "FAILED"
                                  /\ IF dir = "BUY" THEN reason = "NOT_PAID" ELSE unwind # "NONE"

\* "A trade with a payment filed is never cancelled here" (runP2pDeadlines): the clock
\* cancels no BUY whose client ever said it paid and unwinds no SELL with a payment
\* waiting or confirmed, however late the job comes to what it selected.
ClockTakesNoPayment ==
  /\ reason = "CLOCK" => \A p \in Payments : pay[p] = NoPayment
  /\ unwind = "PAY_WINDOW_MISSED" => ~Underway

\* An unwind is for a trader that "did not pay - in time, or at all" and ends with the
\* client's USDT back and the trade cancelled (startP2pUnwindInTx): a deal that is being
\* unwound has no confirmed payment, which would refuse its refund for good.
UnwoundCanReturn == unwind # "NONE" /\ Live => In({"COMPLETED"}) = {}
=============================================================================
