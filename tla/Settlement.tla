------------------------------ MODULE Settlement ------------------------------
(***************************************************************************)
(* One client trade from acceptance to completion or cancellation: its     *)
(* lifecycle state, its settlement legs, its open blocking cases and its   *)
(* effective obligations.  Every command of packages/settlement locks the  *)
(* trade row first and runs in one transaction, so a command is one        *)
(* action.  The exception is recordClientDeposit, which decides from the   *)
(* deposit assignment BEFORE it takes that lock (READ COMMITTED): it is    *)
(* two actions, AttributeDeposit and RecordClientDeposit.                  *)
(*                                                                         *)
(* Sides of a leg: CLIENT = CLIENT_TO_EXCHANGE, PAYOUT =                   *)
(* EXCHANGE_TO_CLIENT, UNWIND and EXCESS = REFUND_TO_CLIENT of that kind.  *)
(* Outside the model: who acts, payment evidence and chain finality (a     *)
(* movement is confirmed whenever a command asks), capacity, custody and   *)
(* funding (their own components), and P2P trades.                         *)
(***************************************************************************)
EXTENDS Integers, FiniteSets

CONSTANTS
  LegIds,        \* the ids settlement_leg rows of this trade may take
  Amounts,       \* the minor-unit amounts a leg may have
  ClientAmounts, \* the amounts the client sends
  Terms,         \* the values adjustments may give an obligation
  Directions,    \* the directions a run looks at
  AcceptedPayout, AcceptedReceivable, \* the terms a trade is accepted with
  MinPayout,     \* smallest INR payout leg the policy allows (minPayoutInr)
  MaxCases       \* bound, by direction: the desk opens no case while so many are open

ASSUME LegIdsAssumption == IsFiniteSet(LegIds) /\ "TRADE" \notin LegIds
ASSUME AmountsAssumption ==
  /\ Amounts \subseteq Nat \ {0}
  /\ ClientAmounts \subseteq Amounts
  /\ Terms \subseteq Amounts
  /\ AcceptedPayout \in Terms /\ AcceptedReceivable \in Terms
  /\ MinPayout \in Nat /\ MaxCases \in [Directions -> Nat]
ASSUME DirectionsAssumption == Directions \subseteq {"SELL_USDT", "BUY_USDT"}

VARIABLES
  direction,   \* SELL_USDT or BUY_USDT, fixed at acceptance
  state,       \* trade.lifecycle_state
  legs,        \* settlement_leg rows, ABSENT for an id not used yet
  cases,       \* open blocking exception_case rows: <<type, subject>>
  payout,      \* what the trade pays the client, after posted adjustments
  receivable,  \* what the client owes, after posted adjustments
  obligation,  \* route_obligation.status, as far as a cancel looks at it
  deposit      \* a deposit being recorded: IDLE, or its assignment was read

vars == <<direction, state, legs, cases, payout, receivable, obligation, deposit>>

-----------------------------------------------------------------------------
States == {"AWAITING_FIRST_LEG", "FIRST_LEG_DETECTED", "FIRST_LEG_CONFIRMED",
           "SETTLING", "PARTIALLY_SETTLED", "COMPLETED", "CANCELLED"}
Terminal == {"COMPLETED", "CANCELLED"}
\* Defect: payouts may be planned as soon as the client's transfer is seen.
PayableOnceDetected ==
  {"FIRST_LEG_DETECTED", "FIRST_LEG_CONFIRMED", "SETTLING", "PARTIALLY_SETTLED"}
Payable == {"FIRST_LEG_CONFIRMED", "SETTLING", "PARTIALLY_SETTLED"}

ALLOWED ==
  [s \in States |->
    CASE s = "AWAITING_FIRST_LEG"  -> {"FIRST_LEG_DETECTED", "CANCELLED"}
      [] s = "FIRST_LEG_DETECTED"  -> {"AWAITING_FIRST_LEG", "FIRST_LEG_CONFIRMED", "CANCELLED"}
      [] s = "FIRST_LEG_CONFIRMED" -> {"SETTLING", "CANCELLED"}
      [] s = "SETTLING"            -> {"PARTIALLY_SETTLED", "COMPLETED", "CANCELLED"}
      [] s = "PARTIALLY_SETTLED"   -> {"COMPLETED", "CANCELLED"}
      [] OTHER                     -> {}]

\* transitionTrade: the whitelist, with a move to the same state a no-op.
Transition(to) ==
  /\ to = state \/ to \in ALLOWED[state]
  /\ state' = to

Refunds  == {"UNWIND", "EXCESS"}
Sides    == {"CLIENT", "PAYOUT"} \cup Refunds
Live     == {"PENDING", "PROCESSING", "COMPLETED"}
Sent     == {"PROCESSING", "COMPLETED"}
Statuses == Live \cup {"FAILED", "CANCELLED"}

Absent == [side |-> "CLIENT", amount |-> 0, status |-> "ABSENT"]
Leg    == [side : Sides, amount : Amounts, status : Statuses] \cup {Absent}

CaseTypes == {"USDT_WRONG_AMOUNT", "USDT_OVERPAYMENT", "USDT_UNEXPECTED_SENDER",
              "BANK_TRANSFER_FAILED", "OPERATOR_MISTAKE"}
\* A case is about one transfer or leg (named by the leg) or about the trade.
Cases == CaseTypes \X (LegIds \cup {"TRADE"})

-----------------------------------------------------------------------------
(* legTotals and friends, over the legs L a command leaves behind. *)

LegsOf(L, sides, statuses) ==
  {l \in LegIds : L[l].side \in sides /\ L[l].status \in statuses}
\* The minor units these legs carry, and how many there are: the SQL sum of
\* their amounts, as the number of paise (or USDT units) they stand for.
Units(L, sides, statuses) ==
  UNION {{l} \X (1 .. L[l].amount) : l \in LegsOf(L, sides, statuses)}
Total(L, sides, statuses) == Cardinality(Units(L, sides, statuses))

Received(L)       == Total(L, {"CLIENT"}, {"COMPLETED"})
Paid(L)           == Total(L, {"PAYOUT"}, {"COMPLETED"})
Committed(L)      == Total(L, {"PAYOUT"}, Live)
ExcessPlanned(L)  == Total(L, {"EXCESS"}, Live)
ExcessReturned(L) == Total(L, {"EXCESS"}, {"COMPLETED"})
Unwound(L)        == Total(L, {"UNWIND"}, {"COMPLETED"})
RefundsPlanned(L) == Total(L, Refunds, Live)
RefundsDone(L)    == Total(L, Refunds, {"COMPLETED"})

ClientInFlight(L)  == LegsOf(L, {"CLIENT"}, {"PROCESSING"}) # {}
PayoutUnderway(L)  == LegsOf(L, {"PAYOUT"}, Sent) # {}
UnwindUnderway(L)  == LegsOf(L, {"UNWIND"}, Live) # {}

hold == cases # {}

\* The deposit address is assigned to a SELL trade until the trade ends.
AssignmentOpen == direction = "SELL_USDT" /\ state \notin Terminal

\* Migration 0028, IX093: checked at commit by any write of a refund leg.
ExcessTrigger(L) ==
  ExcessPlanned(L) <= (IF Received(L) > receivable THEN Received(L) - receivable ELSE 0)

\* The client's whole payment is here, less what goes back as an excess.
FirstLegDone(L, r) ==
  Received(L) # 0 /\ Received(L) - ExcessPlanned(L) = r /\ ~ClientInFlight(L)

\* Defect: an excess counts as returned once it is planned.
SettledByPlans(L, p, r) == Paid(L) = p /\ Received(L) - ExcessPlanned(L) = r
\* Both sides are settled by confirmed legs.
Settled(L, p, r) == Paid(L) = p /\ Received(L) - ExcessReturned(L) = r

\* advanceTrade: where the trade stands once legs, cases and terms are these.
Advanced(L, C, p, r) ==
  CASE C = {} /\ state = "FIRST_LEG_DETECTED" /\ FirstLegDone(L, r) -> "FIRST_LEG_CONFIRMED"
    [] C = {} /\ state \in {"SETTLING", "PARTIALLY_SETTLED"}
       /\ Settled(L, p, r) /\ Committed(L) = Paid(L) -> "COMPLETED"
    [] OTHER -> state

\* A new leg: an id not used yet takes the row.
Insert(l, side, amount, status) ==
  /\ legs[l] = Absent
  /\ legs' = [legs EXCEPT ![l] = [side |-> side, amount |-> amount, status |-> status]]
\* The legs with the status of l changed.
Moved(l, status) == [legs EXCEPT ![l].status = status]

-----------------------------------------------------------------------------
Init ==
  /\ direction \in Directions
  /\ state = "AWAITING_FIRST_LEG"
  /\ legs = [l \in LegIds |-> Absent]
  /\ cases = {}
  /\ payout = AcceptedPayout /\ receivable = AcceptedReceivable
  /\ obligation = "OPEN"
  /\ deposit = "IDLE"

(* --- The client's side ------------------------------------------------- *)

\* fiat_in.record / fiat_in.claim: one INR payment of a BUY client.
RecordClientInr(l, a) ==
  /\ direction = "BUY_USDT"
  /\ state \in {"AWAITING_FIRST_LEG", "FIRST_LEG_DETECTED"}
  /\ Insert(l, "CLIENT", a, "PROCESSING")
  /\ Transition("FIRST_LEG_DETECTED")
  /\ UNCHANGED <<direction, cases, payout, receivable, obligation, deposit>>

\* recordClientDeposit up to lockTrade: the open assignment names the trade.
AttributeDeposit ==
  /\ deposit = "IDLE"
  /\ AssignmentOpen
  /\ deposit' = "ATTRIBUTED"
  /\ UNCHANGED <<direction, state, legs, cases, payout, receivable, obligation>>

\* The rest of it, under the trade lock; the assignment is not read again.
RecordClientDeposit(l, a, knownSender) ==
  LET outstanding == receivable - Total(legs, {"CLIENT"}, Sent)
      amountCase == IF a = outstanding THEN {}
                    ELSE {<<IF a < outstanding THEN "USDT_WRONG_AMOUNT"
                                               ELSE "USDT_OVERPAYMENT", l>>}
      senderCase == IF knownSender THEN {} ELSE {<<"USDT_UNEXPECTED_SENDER", l>>}
  IN  /\ deposit = "ATTRIBUTED"
      /\ deposit' = "IDLE"
      /\ Insert(l, "CLIENT", a, "PROCESSING")
      /\ Transition(IF state = "AWAITING_FIRST_LEG" THEN "FIRST_LEG_DETECTED" ELSE state)
      /\ cases' = cases \cup amountCase \cup senderCase
      /\ UNCHANGED <<direction, payout, receivable, obligation>>

\* confirmClientLegInTx (T4): the desk's confirmation, or the scanner's.
ConfirmClientLeg(l) ==
  LET after   == Moved(l, "COMPLETED")
      partial == state = "FIRST_LEG_DETECTED" /\ ClientInFlight(after)
      matched == Received(after) = receivable
      mismatch == IF Received(after) < receivable THEN "USDT_WRONG_AMOUNT"
                                                  ELSE "USDT_OVERPAYMENT"
  IN  /\ legs[l].side = "CLIENT" /\ legs[l].status = "PROCESSING"
      /\ state \notin {"AWAITING_FIRST_LEG", "CANCELLED"}
      /\ legs' = after
      /\ cases' = IF partial \/ matched THEN cases
                  ELSE cases \cup {<<mismatch, "TRADE">>}
      /\ Transition(IF partial \/ ~matched THEN state
                    ELSE Advanced(after, cases, payout, receivable))
      /\ UNCHANGED <<direction, payout, receivable, obligation, deposit>>

\* revertClientLegInTx (T3): the detected transfer failed or was orphaned.
RevertClientLeg(l) ==
  LET after  == Moved(l, "FAILED")
      others == LegsOf(after, {"CLIENT"}, Sent) # {}
  IN  /\ legs[l].side = "CLIENT" /\ legs[l].status = "PROCESSING"
      /\ legs' = after
      /\ Transition(CASE state # "FIRST_LEG_DETECTED" -> state
                      [] state = "FIRST_LEG_DETECTED" /\ others ->
                           Advanced(after, cases, payout, receivable)
                      [] OTHER -> "AWAITING_FIRST_LEG")
      /\ UNCHANGED <<direction, cases, payout, receivable, obligation, deposit>>

(* --- Payouts ------------------------------------------------------------ *)

CreatePayoutLeg(l, a) ==
  /\ ~hold
  /\ state \in Payable
  /\ ~UnwindUnderway(legs)
  /\ direction = "SELL_USDT" => a >= MinPayout
  /\ a <= payout - Committed(legs)
  /\ Insert(l, "PAYOUT", a, "PENDING")
  /\ UNCHANGED <<direction, state, cases, payout, receivable, obligation, deposit>>

\* Defect: an unwind that is underway does not stop a payout that was planned.
SendPayoutLegAnyway(l) ==
  /\ ~hold
  /\ legs[l].status = "PENDING"
  /\ legs' = Moved(l, "PROCESSING")
  /\ Transition(IF state = "FIRST_LEG_CONFIRMED" THEN "SETTLING" ELSE state)
  /\ UNCHANGED <<direction, cases, payout, receivable, obligation, deposit>>
\* sendPayoutLegInTx: refund legs are sent through it too.
SendPayoutLeg(l) ==
  /\ ~hold
  /\ legs[l].status = "PENDING"
  /\ legs[l].side = "PAYOUT" => ~UnwindUnderway(legs)
  /\ legs' = Moved(l, "PROCESSING")
  /\ legs[l].side \in Refunds => ExcessTrigger(legs')
  /\ Transition(IF state = "FIRST_LEG_CONFIRMED" THEN "SETTLING" ELSE state)
  /\ UNCHANGED <<direction, cases, payout, receivable, obligation, deposit>>

ConfirmPayoutLeg(l) ==
  LET after == Moved(l, "COMPLETED")
      settled == Settled(after, payout, receivable)
  IN  /\ ~hold
      /\ legs[l].side = "PAYOUT" /\ legs[l].status = "PROCESSING"
      /\ ~UnwindUnderway(legs)
      /\ Paid(legs) + legs[l].amount <= payout
      /\ legs' = after
      /\ Transition(CASE settled -> "COMPLETED"
                      [] ~settled /\ state = "SETTLING" -> "PARTIALLY_SETTLED"
                      [] OTHER -> state)
      /\ UNCHANGED <<direction, cases, payout, receivable, obligation, deposit>>

\* payout_leg.cancel: any side, only before it left.
CancelPayoutLeg(l) ==
  /\ legs[l].status = "PENDING"
  /\ legs' = Moved(l, "CANCELLED")
  /\ legs[l].side \in Refunds => ExcessTrigger(legs')
  /\ UNCHANGED <<direction, state, cases, payout, receivable, obligation, deposit>>

\* failPayoutLegInTx: the status is checked, the side is not.
FailPayoutLeg(l) ==
  /\ legs[l].status = "PROCESSING"
  /\ legs' = Moved(l, "FAILED")
  /\ legs[l].side \in Refunds => ExcessTrigger(legs')
  /\ cases' = cases \cup {<<"BANK_TRANSFER_FAILED", l>>}
  /\ UNCHANGED <<direction, state, payout, receivable, obligation, deposit>>

(* --- Refunds and cancellation ------------------------------------------ *)

\* Defect: only refunds that are done count against what may be given back.
CreateRefundLegAgain(l, a) ==
  /\ state \notin Terminal
  /\ ~PayoutUnderway(legs)
  /\ a = Received(legs) - RefundsDone(legs)
  /\ Insert(l, "UNWIND", a, "PENDING")
  /\ UNCHANGED <<direction, state, cases, payout, receivable, obligation, deposit>>
\* createRefundLeg: everything received and not yet promised back.
CreateRefundLeg(l, a) ==
  /\ state \notin Terminal
  /\ ~PayoutUnderway(legs)
  /\ a = Received(legs) - RefundsPlanned(legs)
  /\ Insert(l, "UNWIND", a, "PENDING")
  /\ ExcessTrigger(legs')
  /\ UNCHANGED <<direction, state, cases, payout, receivable, obligation, deposit>>

\* trade.refund_excess: when all of the excess is planned back, every open
\* overpayment case of the trade is answered.
RefundExcess(l, a) ==
  LET room == Received(legs) - receivable - ExcessPlanned(legs)
      left == IF a = room THEN {c \in cases : c[1] # "USDT_OVERPAYMENT"} ELSE cases
  IN  /\ state \notin Terminal
      /\ ~UnwindUnderway(legs)
      /\ a <= room
      /\ Insert(l, "EXCESS", a, "PENDING")
      /\ ExcessTrigger(legs')
      /\ cases' = left
      /\ Transition(Advanced(legs', left, payout, receivable))
      /\ UNCHANGED <<direction, payout, receivable, obligation, deposit>>

ConfirmRefundLeg(l) ==
  LET after == Moved(l, "COMPLETED")
  IN  /\ legs[l].side \in Refunds /\ legs[l].status \in {"PENDING", "PROCESSING"}
      /\ legs[l].side = "UNWIND" => ~PayoutUnderway(legs)
      /\ legs' = after
      /\ ExcessTrigger(after)
      /\ Transition(IF legs[l].side = "EXCESS"
                    THEN Advanced(after, cases, payout, receivable) ELSE state)
      /\ UNCHANGED <<direction, cases, payout, receivable, obligation, deposit>>

\* Defect: the legs only planned are forgotten.
ReleaseDetectedOnly ==
  /\ obligation = "OPEN"
  /\ obligation' = "CANCELLED"
  /\ legs' = [l \in LegIds |->
       IF legs[l].side = "CLIENT" /\ legs[l].status = "PROCESSING"
       THEN [legs[l] EXCEPT !.status = "FAILED"] ELSE legs[l]]
\* releaseCommitments: detected client legs fail, planned legs are cancelled.
ReleaseCommitments ==
  /\ obligation = "OPEN"
  /\ obligation' = "CANCELLED"
  /\ legs' = [l \in LegIds |->
       IF legs[l].side = "CLIENT" /\ legs[l].status = "PROCESSING"
       THEN [legs[l] EXCEPT !.status = "FAILED"]
       ELSE IF legs[l].status = "PENDING" THEN [legs[l] EXCEPT !.status = "CANCELLED"]
       ELSE legs[l]]
  /\ LegsOf(legs, Refunds, {"PENDING"}) # {} => ExcessTrigger(legs')

\* assertNoUnconfirmedIncomingFiat
NoUnconfirmedFiat == direction = "BUY_USDT" => ~ClientInFlight(legs)

\* A cancel may name one case that it answers.
OneCaseMayClose == cases' \in {cases} \cup {cases \ {c} : c \in cases}

\* cancelTradeInTx (T9)
CancelTrade ==
  /\ Received(legs) = 0
  /\ state \in {"AWAITING_FIRST_LEG", "FIRST_LEG_DETECTED"}
  /\ ~PayoutUnderway(legs)
  /\ NoUnconfirmedFiat
  /\ ReleaseCommitments
  /\ Transition("CANCELLED")
  /\ OneCaseMayClose
  /\ UNCHANGED <<direction, payout, receivable, deposit>>

\* cancelRefundedTradeInTx (T10)
RefundAndCancel ==
  /\ state \notin Terminal
  /\ ~PayoutUnderway(legs)
  /\ NoUnconfirmedFiat
  /\ RefundsDone(legs) = Received(legs)
  /\ ReleaseCommitments
  /\ Transition("CANCELLED")
  /\ OneCaseMayClose
  /\ UNCHANGED <<direction, payout, receivable, deposit>>

(* --- Cases, adjustments, the route -------------------------------------- *)

\* exception.open; also the case confirmPayout opens in a transaction of its
\* own when the route's side does not fit.
OpenException ==
  /\ Cardinality(cases) < MaxCases[direction]
  /\ cases' = cases \cup {<<"OPERATOR_MISTAKE", "TRADE">>}
  /\ UNCHANGED <<direction, state, legs, payout, receivable, obligation, deposit>>

\* Defect: the hold is lifted and the trade is left where it was.
CloseExceptionOnly(c) ==
  /\ cases' = cases \ {c}
  /\ UNCHANGED <<direction, state, legs, payout, receivable, obligation, deposit>>
\* exception.resolve with a resolution that moves no money, and
\* exception.void: the trade resumes from where it stands (H2).
CloseException(c) ==
  /\ cases' = cases \ {c}
  /\ Transition(Advanced(legs, cases', payout, receivable))
  /\ UNCHANGED <<direction, legs, payout, receivable, obligation, deposit>>

\* Defects: planned payouts are not counted; what already arrived is not.
AdjustmentFitsPaid(p, r) == p >= Paid(legs) /\ r >= Received(legs)
AdjustmentFitsPayout(p, r) == p >= Committed(legs)
\* assertAdjustmentFits, on the client's side of the trade.
AdjustmentFits(p, r) ==
  /\ state # "CANCELLED"
  /\ state = "COMPLETED" => p = payout /\ r = receivable
  /\ p >= Committed(legs)
  /\ r >= Received(legs)

\* adjustment.approve.  The request recorded only the deltas and the approval
\* repeats its checks, so the pair is one action.
ApproveAdjustment(p, r) ==
  /\ AdjustmentFits(p, r)
  /\ payout' = p /\ receivable' = r
  /\ OneCaseMayClose
  /\ Transition(Advanced(legs, cases', p, r))
  /\ UNCHANGED <<direction, legs, obligation, deposit>>

\* A route settlement is allocated to the obligation (the route component).
RouteAllocates ==
  /\ obligation = "OPEN"
  /\ obligation' = "PARTIALLY_SETTLED"
  /\ UNCHANGED <<direction, state, legs, cases, payout, receivable, deposit>>

-----------------------------------------------------------------------------
LegCommand(l) ==
  \/ \E a \in ClientAmounts :
       \/ RecordClientInr(l, a)
       \/ \E known \in BOOLEAN : RecordClientDeposit(l, a, known)
  \/ ConfirmClientLeg(l) \/ RevertClientLeg(l)
  \/ \E a \in Amounts : CreatePayoutLeg(l, a) \/ CreateRefundLeg(l, a) \/ RefundExcess(l, a)
  \/ SendPayoutLeg(l) \/ ConfirmPayoutLeg(l) \/ CancelPayoutLeg(l) \/ FailPayoutLeg(l)
  \/ ConfirmRefundLeg(l)

Next ==
  \/ \E l \in LegIds : LegCommand(l)
  \/ AttributeDeposit
  \/ CancelTrade \/ RefundAndCancel
  \/ OpenException
  \/ \E c \in cases : CloseException(c)
  \/ \E p, r \in Terms : ApproveAdjustment(p, r)
  \/ RouteAllocates

Spec == Init /\ [][Next]_vars

-----------------------------------------------------------------------------
(* The promise to the client that this detail keeps: see ClientAccount. *)
Account == INSTANCE ClientAccount WITH
  status   <- IF state \in Terminal THEN state ELSE "OPEN",
  received <- Received(legs),
  paid     <- Paid(legs),
  unwound  <- Unwound(legs),
  returned <- ExcessReturned(legs)
AccountSpec == Account!Spec

\* Every variable holds a value of its column.
TypeOK ==
  /\ direction \in Directions
  /\ state \in States
  /\ legs \in [LegIds -> Leg]
  /\ cases \subseteq Cases
  /\ payout \in Terms /\ receivable \in Terms
  /\ obligation \in {"OPEN", "PARTIALLY_SETTLED", "CANCELLED"}
  /\ deposit \in {"IDLE", "ATTRIBUTED"}

\* FI-20: whatever legs, adjustments and failures come in between, the payouts
\* planned, sent or confirmed never exceed what the trade pays the client.
PayoutsWithinObligation == Committed(legs) <= payout

\* FI-25 (IX025): refunds planned, in flight or done never exceed what the
\* client's confirmed legs brought in, however many commands plan them.
RefundsWithinReceived == RefundsPlanned(legs) <= Received(legs)

\* FI-25: a trade pays out or unwinds, never both.  While an unwind is planned,
\* in flight or done, no payout is on its way or done.
NeverBothWays == UnwindUnderway(legs) => ~PayoutUnderway(legs)

\* D-12: a payout leg is alive only on a trade whose first leg was confirmed,
\* and never on a cancelled one.
PayoutAfterFirstLeg ==
  /\ LegsOf(legs, {"PAYOUT"}, Live) # {} =>
       state \notin {"AWAITING_FIRST_LEG", "FIRST_LEG_DETECTED", "CANCELLED"}
  /\ PayoutUnderway(legs) => state # "FIRST_LEG_CONFIRMED"

\* T9 and T10: a cancelled trade kept nothing of the client's and paid nothing:
\* all that was confirmed is back, and no refund or payout is still to leave.
CancelledOwesNothing ==
  state = "CANCELLED" =>
    /\ RefundsDone(legs) = Received(legs)
    /\ LegsOf(legs, {"PAYOUT"}, Live) = {}
    /\ LegsOf(legs, Refunds, {"PENDING", "PROCESSING"}) = {}
    /\ obligation = "CANCELLED"

\* advanceTrade's reason to exist, its second half: a trade paid in full, with
\* the client's side settled and nothing on hold, is never left open.
SettledTradeCompletes ==
  ~ /\ state \in {"SETTLING", "PARTIALLY_SETTLED"}
    /\ ~hold
    /\ Settled(legs, payout, receivable) /\ Committed(legs) = Paid(legs)

\* FI-21, as the step that completes a trade: whichever command takes it, both
\* sides are settled by confirmed legs and no blocking case is open.
CompletionIsExact ==
  [][state' = "COMPLETED" /\ state # "COMPLETED" =>
       /\ Paid(legs') = payout'
       /\ Received(legs') - ExcessReturned(legs') = receivable'
       /\ cases' = {}]_vars
=============================================================================
