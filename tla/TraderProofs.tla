------------------------------- MODULE TraderProofs -------------------------------
(***************************************************************************)
(* QuoteIsBacked and HoldsAreExact hold of every trader: any requests, any *)
(* number of orders, any capacity and reserve.  Sums of capacity play no   *)
(* part in the first, so what a block has reserved stays abstract there:   *)
(* what is needed of a row is only that it has its columns.  The second,   *)
(* that what a block says it holds is what its accepted and started orders *)
(* promise, rests on the first and on the facts about sums.                *)
(***************************************************************************)
EXTENDS TraderOrders, SumsProofs

States == {"NONE"} \cup Live \cup Held \cup Ended
Began == {"IN_PROGRESS", "COMPLETED", "CANCELLED"}

\* Orders, quotes and requests are well typed; a block keeps its columns.
Rows ==
  /\ order \in [Orders -> [state : States, req : Requests, rate : Rates \cup {NoRate}, over : BOOLEAN]]
  /\ quote \in [Orders -> {"NONE", "DRAFT", "ACCEPTED", "GONE"} \cup Sent]
  /\ request \in [Requests -> {"OPEN", "QUOTED", "ACCEPTED", "CLOSED"}]
  /\ assign \in [Requests -> Rates \cup {NoRate}]
  /\ DOMAIN block = {"active", "rate", "capacity", "reserved"} /\ block.rate \in Rates

\* An order that began is the one its request was accepted on.
BegunAccepted == \A o \in In(Began) : request[order[o].req] = "ACCEPTED"

Backed == Rows /\ BegunAccepted /\ QuoteIsBacked

-----------------------------------------------------------------------------
LEMMA InitBacked == Init => Backed
<1>1. SUFFICES ASSUME Init PROVE Backed
  OBVIOUS
<1>2. (CHOOSE r \in Requests : TRUE) \in Requests
  BY TraderAssumption
<1>3. Rows
  BY <1>1, <1>2 DEF Init, Rows, States, Sent
<1> QED
  BY <1>1, <1>3 DEF Init, Backed, Rows, BegunAccepted, QuoteIsBacked, In, Began

-----------------------------------------------------------------------------
(* Steps that only move orders: none begins, and none that is quoted loses *)
(* what it holds.                                                          *)

BlockKept == DOMAIN block' = DOMAIN block /\ block'.rate \in Rates
OrderRows == [Orders -> [state : States, req : Requests, rate : Rates \cup {NoRate}, over : BOOLEAN]]
NoneBegins ==
  \A o \in Orders : order'[o].state \in Began => order[o].state \in Began /\ order'[o].req = order[o].req
QuotedHolds == \A o \in Orders : quote[o] = "SENT" => order'[o].state = "ACCEPTED"

LEMMA OrdersMove ==
  ASSUME Backed, BlockKept, order' \in OrderRows, NoneBegins, QuotedHolds,
         assign' \in [Requests -> Rates \cup {NoRate}], UNCHANGED <<quote, request>>
  PROVE  Backed'
<1>1. Rows'
  BY DEF Backed, Rows, BlockKept, OrderRows
<1>2. BegunAccepted'
  BY DEF Backed, BegunAccepted, In, NoneBegins
<1>3. QuoteIsBacked'
  BY DEF Backed, QuoteIsBacked, In, NoneBegins, QuotedHolds, Began
<1> QED
  BY <1>1, <1>2, <1>3 DEF Backed

\* Nothing of it is touched.
LEMMA Untouching ==
  ASSUME Backed, UNCHANGED <<block, assign, order, quote, request>>
  PROVE  Backed'
BY DEF Backed, Rows, BegunAccepted, QuoteIsBacked, In

LEMMA ReserveBacked ==
  ASSUME Backed, ReserveStep
  PROVE  Backed'
<1>1. UNCHANGED <<block, assign, order, quote, request>>
  BY DEF ReserveStep, Deposit, BeginWithdraw, EndWithdraw, RecordWithdrawalSent, ConfirmWithdrawal,
         CloseWithdrawal, RequestApplication, ApproveApplication, EndApplication, RecordApplied,
         ConfirmApplied, FailApplied, RecordDelivery, RecordByDesk, ApproveAdjustment, ConfirmDelivery,
         FailDelivery, FundDeal, PayTrader, CancelDeal, orders
<1> QED
  BY <1>1, Untouching

\* Withdrawing the offers touches no order that was answered.
LEMMA OffersWithdrawn ==
  ASSUME Backed, BlockKept, WithdrawOffers, UNCHANGED <<assign, quote, request>>
  PROVE  Backed'
<1>1. order' \in OrderRows
  BY DEF Backed, Rows, WithdrawOffers, OrderRows, States, Live, Held, Ended
<1>2. NoneBegins /\ QuotedHolds
  BY DEF Backed, Rows, QuoteIsBacked, WithdrawOffers, NoneBegins, QuotedHolds, Began
<1> QED
  BY <1>1, <1>2, OrdersMove DEF Backed, Rows

LEMMA SettingsBacked ==
  ASSUME Backed, Settings
  PROVE  Backed'
<1>1. CASE SetAvailability \/ SetAssignments
  <2>1. UNCHANGED <<block, assign, quote, request>> /\ (WithdrawOffers \/ order' = order)
    BY <1>1 DEF SetAvailability, SetAssignments, work
  <2>2. BlockKept
    BY <2>1 DEF BlockKept, Backed, Rows
  <2> QED
    BY <2>1, <2>2, OffersWithdrawn, Untouching
<1>2. CASE PauseTrader
  <2>1. UNCHANGED <<block, assign, quote, request>> /\ WithdrawOffers
    BY <1>2 DEF PauseTrader, work
  <2> QED
    BY <2>1, OffersWithdrawn DEF BlockKept, Backed, Rows
<1>3. CASE ResumeTrader \/ SetRequired
  BY <1>3, Untouching DEF ResumeTrader, SetRequired, work
<1>4. CASE UpdateBlock
  <2>1. UNCHANGED <<assign, quote, request>> /\ (WithdrawOffers \/ order' = order)
    BY <1>4 DEF UpdateBlock, work
  <2>2. BlockKept
    BY <1>4 DEF UpdateBlock, BlockKept, Backed, Rows
  <2>3. CASE order' = order
    <3>1. order' \in OrderRows /\ NoneBegins /\ QuotedHolds
      BY <2>3 DEF OrderRows, NoneBegins, QuotedHolds, Backed, Rows, QuoteIsBacked
    <3> QED
      BY <2>1, <2>2, <3>1, OrdersMove DEF Backed, Rows
  <2> QED
    BY <2>1, <2>2, <2>3, OffersWithdrawn
<1> QED
  BY <1>1, <1>2, <1>3, <1>4 DEF Settings

-----------------------------------------------------------------------------
(* The ends of what never starts. *)

\* closeUnstartedOrder of one order that no quote of its request prices.
LEMMA Closed ==
  ASSUME Backed, NEW o \in Orders, NEW s \in {"DECLINED", "EXPIRED", "WITHDRAWN", "RELEASED"},
         CloseUnstarted({o}, s), quote[o] # "SENT", UNCHANGED <<assign, quote, request>>
  PROVE  Backed'
<1>1. order' \in OrderRows
  BY DEF Backed, Rows, CloseUnstarted, OrderRows, States, Ended
<1>2. NoneBegins /\ QuotedHolds
  BY DEF Backed, Rows, QuoteIsBacked, CloseUnstarted, NoneBegins, QuotedHolds, Began
<1>3. BlockKept
  BY DEF Backed, Rows, CloseUnstarted, BlockKept
<1> QED
  BY <1>1, <1>2, <1>3, OrdersMove DEF Backed, Rows

LEMMA AnswersBacked ==
  ASSUME Backed, NEW o \in Orders,
         \/ DeclineOrder(o) \/ ExpireOffer(o) \/ WithdrawOffer(o) \/ ReleaseOrder(o) \/ EndHold(o)
  PROVE  Backed'
<1>1. UNCHANGED <<assign, quote, request>>
  BY DEF DeclineOrder, ExpireOffer, WithdrawOffer, ReleaseOrder, EndHold, Untouched, work
<1>2. quote[o] # "SENT"
  BY DEF DeclineOrder, ExpireOffer, WithdrawOffer, ReleaseOrder, EndHold, Releasable, LiveQuote,
         OrdersOf, Backed, QuoteIsBacked
<1>3. \E s \in {"DECLINED", "EXPIRED", "WITHDRAWN", "RELEASED"} : CloseUnstarted({o}, s)
  BY DEF DeclineOrder, ExpireOffer, WithdrawOffer, ReleaseOrder, EndHold
<1> QED
  BY <1>1, <1>2, <1>3, Closed

\* An order that moves to a state with its time running again.
LEMMA Restarted ==
  ASSUME Rows, NEW o \in Orders, NEW s \in States,
         order' = [order EXCEPT ![o].state = s, ![o].over = FALSE]
  PROVE  /\ order' \in OrderRows /\ order'[o].state = s
         /\ \A p \in Orders : /\ order'[p].req = order[p].req
                              /\ p # o => order'[p].state = order[p].state
<1> DEFINE mid == [order EXCEPT ![o].state = s]
<1>0. mid[o].state = s
  BY DEF Rows
<1>1. mid \in OrderRows /\ \A p \in Orders : mid[p].req = order[p].req /\ (p # o => mid[p] = order[p])
  BY DEF Rows, OrderRows
<1>2. order' = [mid EXCEPT ![o].over = FALSE]
  OBVIOUS
<1> HIDE DEF mid
<1>3. order' \in OrderRows /\ \A p \in Orders : order'[p].req = mid[p].req /\ (p # o => order'[p] = mid[p])
  BY <1>1, <1>2, ZenonT(60) DEF OrderRows
<1>4. order'[o].state = mid[o].state
  <2>1. order'[o] = [mid[o] EXCEPT !.over = FALSE]
    BY <1>1, <1>2 DEF OrderRows
  <2>2. mid[o] \in [state : States, req : Requests, rate : Rates \cup {NoRate}, over : BOOLEAN]
    BY <1>1 DEF OrderRows
  <2> QED
    BY <2>1, <2>2
<1> QED
  BY <1>0, <1>1, <1>3, <1>4

\* Accepting an offer, and the passing of time.
LEMMA HoldBacked ==
  ASSUME Backed, NEW o \in Orders, AcceptOrder(o) \/ RunOut(o)
  PROVE  Backed'
<1>1. UNCHANGED <<assign, quote, request>>
  BY DEF AcceptOrder, RunOut, Untouched, work
<1>2. order' \in OrderRows
  <2>1. CASE AcceptOrder(o)
    BY <2>1, Restarted DEF AcceptOrder, Backed, States, Held
  <2>2. CASE RunOut(o)
    BY <2>2, ZenonT(60) DEF RunOut, Backed, Rows, OrderRows
  <2> QED
    BY <2>1, <2>2
<1>3. NoneBegins /\ QuotedHolds
  BY DEF AcceptOrder, RunOut, Backed, Rows, QuoteIsBacked, NoneBegins, QuotedHolds, Began
<1>4. BlockKept
  BY DEF AcceptOrder, RunOut, BlockKept, Backed, Rows
<1> QED
  BY <1>1, <1>2, <1>3, <1>4, OrdersMove DEF Backed, Rows

LEMMA AssignBacked ==
  ASSUME Backed, NEW r \in Requests, BeginAssign(r) \/ EndAssign(r)
  PROVE  Backed'
<1>1. CASE BeginAssign(r)
  <2>1. UNCHANGED <<block, order, quote, request>>
    BY <1>1 DEF BeginAssign
  <2>2. assign' \in [Requests -> Rates \cup {NoRate}]
    BY <1>1 DEF BeginAssign, Backed, Rows
  <2> QED
    BY <2>1, <2>2 DEF Backed, Rows, BegunAccepted, QuoteIsBacked, In
<1>2. CASE EndAssign(r)
  <2>1. PICK o \in In({"NONE"}) :
          order' = [order EXCEPT ![o] =
                     [state |-> "OFFERED", req |-> r, rate |-> assign[r], over |-> FALSE]]
    BY <1>2 DEF EndAssign
  <2>2. o \in Orders /\ order[o].state = "NONE" /\ assign[r] \in Rates \cup {NoRate}
    BY <2>1 DEF In, Backed, Rows
  <2>3. order' \in OrderRows
    BY <2>1, <2>2 DEF Backed, Rows, OrderRows, States, Live
  <2>4. NoneBegins /\ QuotedHolds
    BY <2>1, <2>2 DEF Backed, Rows, QuoteIsBacked, NoneBegins, QuotedHolds, Began
  <2>5. UNCHANGED <<block, quote, request>> /\ assign' \in [Requests -> Rates \cup {NoRate}]
    BY <1>2 DEF EndAssign, Backed, Rows
  <2>6. BlockKept
    BY <2>5 DEF BlockKept, Backed, Rows
  <2> QED
    BY <2>3, <2>4, <2>5, <2>6, OrdersMove
<1> QED
  BY <1>1, <1>2

-----------------------------------------------------------------------------
(* Reconciliation: what ends had begun. *)

LEMMA ReconcileBacked ==
  ASSUME Backed, NEW o \in Orders, Reconcile(o)
  PROVE  Backed'
<1>1. CASE TellDelivered(o)
  BY <1>1, Untouching DEF TellDelivered, orders
<1>2. CASE CompleteOrder(o) \/ CancelOrder(o)
  <2>1. order[o].state = "IN_PROGRESS" /\ UNCHANGED <<assign, quote, request>>
    BY <1>2 DEF CompleteOrder, CancelOrder, Reconcilable
  <2>2. order' \in OrderRows
    BY <1>2 DEF CompleteOrder, CancelOrder, Backed, Rows, OrderRows, States, Ended
  <2>3. NoneBegins /\ QuotedHolds
    BY <1>2, <2>1 DEF CompleteOrder, CancelOrder, Backed, Rows, QuoteIsBacked, NoneBegins,
                      QuotedHolds, Began
  <2>4. BlockKept
    BY <1>2 DEF CompleteOrder, CancelOrder, BlockKept, Backed, Rows
  <2> QED
    BY <2>1, <2>2, <2>3, <2>4, OrdersMove DEF Backed, Rows
<1> QED
  BY <1>1, <1>2 DEF Reconcile

-----------------------------------------------------------------------------
(* Quotes. *)

\* A quote is drafted, sent, lapses or ends: only a held order is ever quoted.
LEMMA QuoteBacked ==
  ASSUME Backed, NEW o \in Orders,
         CreateQuote(o) \/ SendQuote(o) \/ Lapse(o) \/ EndQuote(o)
  PROVE  Backed'
<1>1. UNCHANGED <<block, assign, order>>
  BY DEF CreateQuote, SendQuote, Lapse, EndQuote, AsIs
<1>2. order[o].req \in Requests /\ (request[order[o].req] = "ACCEPTED" => request' = request)
  BY DEF CreateQuote, SendQuote, Lapse, EndQuote, MayQuote, Backed, Rows
<1>3. /\ quote' \in [Orders -> {"NONE", "DRAFT", "ACCEPTED", "GONE"} \cup Sent]
      /\ request' \in [Requests -> {"OPEN", "QUOTED", "ACCEPTED", "CLOSED"}]
  BY <1>2 DEF CreateQuote, SendQuote, CloseSent, Lapse, EndQuote, Backed, Rows, Sent
<1>4. Rows'
  BY <1>1, <1>3 DEF Rows, Backed
<1>5. BegunAccepted'
  BY <1>1, <1>2 DEF BegunAccepted, In, Backed, Rows, CreateQuote, SendQuote, Lapse, EndQuote
<1>6. \A p \in Orders : quote'[p] = "SENT" => order[p].state = "ACCEPTED"
  <2>1. CASE SendQuote(o)
    <3>1. order[o].state = "ACCEPTED"
      BY <2>1 DEF SendQuote, PricesHeld, HeldFor
    <3> QED
      BY <2>1, <3>1 DEF SendQuote, CloseSent, Backed, QuoteIsBacked
  <2>2. CASE CreateQuote(o) \/ Lapse(o) \/ EndQuote(o)
    BY <2>2 DEF CreateQuote, Lapse, EndQuote, Backed, Rows, QuoteIsBacked
  <2> QED
    BY <2>1, <2>2
<1>7. QuoteIsBacked'
  BY <1>1, <1>6 DEF QuoteIsBacked, Backed, In
<1> QED
  BY <1>4, <1>5, <1>7 DEF Backed

\* The client accepts: its request had begun no other order.
LEMMA AcceptBacked ==
  ASSUME Backed, NEW o \in Orders, AcceptQuote(o)
  PROVE  Backed'
<1> DEFINE r == order[o].req
<1>1. /\ r \in Requests /\ request[r] = "QUOTED" /\ UNCHANGED <<block, assign>>
      /\ order' = [order EXCEPT ![o].state = "IN_PROGRESS", ![o].over = FALSE]
      /\ request' = [request EXCEPT ![r] = "ACCEPTED"]
      /\ quote' = [quote EXCEPT ![o] = "ACCEPTED"]
  BY DEF AcceptQuote, AsIs, Backed, Rows
<1>2. /\ order' \in OrderRows
      /\ \A p \in Orders : order'[p].req = order[p].req /\ (p # o => order'[p].state = order[p].state)
  BY <1>1, Restarted DEF Backed, States, Held
<1>3. Rows'
  BY <1>1, <1>2 DEF Backed, Rows, OrderRows, Sent
<1>4. \A p \in In(Began) : order[p].req # r
  BY <1>1 DEF Backed, BegunAccepted
<1>5. BegunAccepted'
  BY <1>1, <1>2 DEF Backed, Rows, BegunAccepted, In
<1>6. QuoteIsBacked'
  <2>1. \A p \in Orders : quote'[p] = "SENT" => order'[p].state = "ACCEPTED"
    BY <1>1, <1>2 DEF Backed, Rows, QuoteIsBacked
  <2>2. \A p, q \in In(Began)' : order'[p].req = order'[q].req => p = q
    BY <1>2, <1>4 DEF Backed, QuoteIsBacked, In, Began
  <2> QED
    BY <2>1, <2>2 DEF QuoteIsBacked, Began
<1> QED
  BY <1>3, <1>5, <1>6 DEF Backed

\* A request closes with its live orders and its quote.
LEMMA CloseBacked ==
  ASSUME Backed, NEW r \in Requests, CloseRequest(r)
  PROVE  Backed'
<1>1. /\ request[r] \in {"OPEN", "QUOTED"} /\ request' = [request EXCEPT ![r] = "CLOSED"]
      /\ UNCHANGED assign /\ CloseSent(r, {})
  BY DEF CloseRequest, AsIs
<1>2. /\ order' = [o \in Orders |-> IF o \notin OrdersOf(r) \cap In(Live) THEN order[o] ELSE
                    [order[o] EXCEPT !.state = IF @ = "OFFERED" THEN "WITHDRAWN" ELSE "RELEASED"]]
      /\ \E n : block' = [block EXCEPT !.reserved = n]
  BY DEF CloseRequest
<1>3. \A o \in Orders :
        /\ order'[o].req = order[o].req
        /\ order'[o].state \in Began => order[o].state \in Began
        /\ o \notin OrdersOf(r) => order'[o].state = order[o].state
  BY <1>2 DEF Backed, Rows, Began
<1>4. order' \in OrderRows
  BY <1>2 DEF Backed, Rows, OrderRows, States, Ended
<1>5. quote' \in [Orders -> {"NONE", "DRAFT", "ACCEPTED", "GONE"} \cup Sent]
  BY <1>1 DEF CloseSent, Backed, Rows
<1>6. Rows'
  BY <1>1, <1>2, <1>4, <1>5 DEF Backed, Rows, OrderRows
<1>7. BegunAccepted'
  BY <1>1, <1>3 DEF Backed, Rows, BegunAccepted, In
<1>8. \A o \in Orders : quote'[o] = "SENT" => quote[o] = "SENT" /\ o \notin OrdersOf(r)
  BY <1>1 DEF CloseSent, Sent
<1>9. QuoteIsBacked'
  BY <1>3, <1>8 DEF Backed, QuoteIsBacked, In, Began
<1> QED
  BY <1>6, <1>7, <1>9 DEF Backed

-----------------------------------------------------------------------------
LEMMA StepBacked == Backed /\ [Next]_vars => Backed'
<1> SUFFICES ASSUME Backed, [Next]_vars PROVE Backed'
  OBVIOUS
<1>1. CASE UNCHANGED vars
  BY <1>1, Untouching DEF vars
<1>2. CASE Settings \/ ReserveStep
  BY <1>2, SettingsBacked, ReserveBacked
<1>3. CASE \E r \in Requests : BeginAssign(r) \/ EndAssign(r) \/ CloseRequest(r)
  BY <1>3, AssignBacked, CloseBacked
<1>4. CASE \E o \in Orders : OrderStep(o)
  BY <1>4, AnswersBacked, HoldBacked, ReconcileBacked, QuoteBacked, AcceptBacked DEF OrderStep
<1> QED
  BY <1>1, <1>2, <1>3, <1>4 DEF Next

(* Every quote the client can accept prices an order that still holds its  *)
(* capacity, and a request starts at most one order, for any requests,     *)
(* sizes, rates, capacities and number of orders.                          *)
THEOREM QuoteIsBackedHolds == Spec => []QuoteIsBacked
<1>1. Spec => []Backed
  BY InitBacked, StepBacked, PTL DEF Spec
<1>2. Backed => QuoteIsBacked
  BY DEF Backed
<1> QED
  BY <1>1, <1>2, PTL

-----------------------------------------------------------------------------
(* SpentOnlyOnOwed.  An order that has not begun was delivered nothing and *)
(* has nothing applied; one that began keeps its request, and leaves       *)
(* IN_PROGRESS only with its undecided application.  What is asked of one  *)
(* order's deal and application is RowFits.                                *)

DealRow == [funded : BOOLEAN, adjusted : Int, delivered : Nat, coming : Nat, paid : BOOLEAN,
            dropped : BOOLEAN, told : BOOLEAN]
ApplicationRow == [state : {"NONE", "REQUESTED", "APPROVED", "SENT"}, amount : Nat]
Fresh ==
  \A o \in Orders : order[o].state \notin Began =>
    /\ deal[o].adjusted = 0 /\ deal[o].delivered = 0 /\ deal[o].coming = 0 /\ ~deal[o].dropped
    /\ applied[o].state = "NONE"

RowFits(size, state, d, row) ==
  /\ row.state # "NONE" => row.amount >= 1
  /\ d.delivered <= size + d.adjusted
  /\ d.dropped => d.delivered = 0
  /\ state = "COMPLETED" => d.delivered = size + d.adjusted /\ d.paid
  /\ row.state \in {"REQUESTED", "APPROVED"} => state = "IN_PROGRESS"

Owed ==
  /\ deal \in [Orders -> DealRow] /\ applied \in [Orders -> ApplicationRow] /\ Fresh
  /\ \A o \in Orders : RowFits(SizeOf(o), order[o].state, deal[o], applied[o])

OrdersKeep ==
  \A o \in Orders :
    /\ order[o].state \in Began => order'[o].state = order[o].state /\ order'[o].req = order[o].req
    /\ order[o].state \notin Began => order'[o].state # "COMPLETED"

LEMMA OwedIsSpent == ASSUME Owed PROVE SpentOnlyOnOwed
BY DEF Owed, RowFits, SpentOnlyOnOwed, Side, Settled

LEMMA SizeIsNumber ==
  ASSUME Backed, NEW o \in Orders
  PROVE  SizeOf(o) \in Nat /\ SizeOf(o) >= 1
<1>1. order[o].req \in Requests
  BY DEF Backed, Rows
<1>2. Size[order[o].req] \in Nat \ {0}
  BY <1>1, TraderAssumption
<1> QED
  BY <1>2 DEF SizeOf

LEMMA InitOwed == Init => Owed
<1>1. SUFFICES ASSUME Init PROVE Owed
  OBVIOUS
<1>2. deal \in [Orders -> DealRow] /\ applied \in [Orders -> ApplicationRow]
  BY <1>1 DEF Init, DealRow, ApplicationRow, NewDeal, NoApplication
<1>3. Fresh
  BY <1>1 DEF Init, Fresh, NewDeal, NoApplication
<1>4. ASSUME NEW o \in Orders PROVE RowFits(SizeOf(o), order[o].state, deal[o], applied[o])
  <2>1. SizeOf(o) \in Nat
    BY <1>1, InitBacked, SizeIsNumber
  <2>2. /\ deal[o].delivered = 0 /\ deal[o].adjusted = 0 /\ deal[o].dropped = FALSE
        /\ applied[o].state = "NONE" /\ order[o].state = "NONE"
    BY <1>1 DEF Init, NewDeal, NoApplication
  <2> QED
    BY <2>1, <2>2 DEF RowFits
<1> QED
  BY <1>2, <1>3, <1>4 DEF Owed

\* An order begins with nothing behind it, or is as it was: what it owes is.
LEMMA OrdersMoveOwed ==
  ASSUME Backed, Backed', Owed, OrdersKeep, UNCHANGED <<deal, applied>>
  PROVE  Owed'
<1>1. Fresh'
  BY DEF Owed, Fresh, OrdersKeep
<1>2. ASSUME NEW o \in Orders PROVE RowFits(SizeOf(o), order[o].state, deal[o], applied[o])'
  <2>1. RowFits(SizeOf(o), order[o].state, deal[o], applied[o])
    BY DEF Owed
  <2>2. CASE order[o].state \in Began
    <3>1. SizeOf(o)' = SizeOf(o) /\ order'[o].state = order[o].state
      BY <2>2 DEF SizeOf, OrdersKeep
    <3> QED
      BY <2>1, <3>1 DEF RowFits
  <2>3. CASE order[o].state \notin Began
    <3>1. /\ deal[o].delivered = 0 /\ deal[o].adjusted = 0 /\ applied[o].state = "NONE"
          /\ order'[o].state # "COMPLETED"
      BY <2>3 DEF Owed, Fresh, OrdersKeep
    <3>2. order'[o].req \in Requests
      BY DEF Backed, Rows
    <3>3. Size[order'[o].req] \in Nat
      BY <3>2, TraderAssumption
    <3> QED
      BY <3>1, <3>3 DEF RowFits, SizeOf
  <2> QED
    BY <2>2, <2>3
<1> QED
  BY <1>1, <1>2 DEF Owed

\* Of the commands on orders, only a reconciliation ends one that is in progress.
LEMMA CommandsOwed ==
  ASSUME Backed, Owed,
         \/ Settings
         \/ \E r \in Requests : BeginAssign(r) \/ EndAssign(r) \/ CloseRequest(r)
         \/ \E o \in Orders :
              \/ DeclineOrder(o) \/ ExpireOffer(o) \/ WithdrawOffer(o) \/ ReleaseOrder(o) \/ EndHold(o)
              \/ AcceptOrder(o) \/ RunOut(o)
              \/ CreateQuote(o) \/ SendQuote(o) \/ Lapse(o) \/ EndQuote(o) \/ AcceptQuote(o)
  PROVE  Owed'
<1>1. Backed'
  BY SettingsBacked, AssignBacked, CloseBacked, AnswersBacked, HoldBacked, QuoteBacked, AcceptBacked
<1>2. CASE Settings
  <2>1. UNCHANGED <<deal, applied>> /\ (order' = order \/ WithdrawOffers)
    BY <1>2 DEF Settings, SetAvailability, PauseTrader, ResumeTrader, SetAssignments, SetRequired,
                UpdateBlock, work, reserve
  <2>2. OrdersKeep
    BY <2>1 DEF WithdrawOffers, OrdersKeep, Began, Backed, Rows
  <2> QED
    BY <1>1, <2>1, <2>2, OrdersMoveOwed
<1>3. CASE \E r \in Requests : BeginAssign(r) \/ EndAssign(r)
  <2>1. UNCHANGED <<deal, applied>>
    BY <1>3 DEF BeginAssign, EndAssign, reserve
  <2>2. order' = order \/ \E o \in In({"NONE"}), r \in Requests :
          order' = [order EXCEPT ![o] = [state |-> "OFFERED", req |-> r, rate |-> assign[r], over |-> FALSE]]
    BY <1>3 DEF BeginAssign, EndAssign
  <2>3. OrdersKeep
    BY <2>2 DEF OrdersKeep, In, Began, Backed, Rows
  <2> QED
    BY <1>1, <2>1, <2>3, OrdersMoveOwed
<1>4. CASE \E r \in Requests : CloseRequest(r)
  <2>1. UNCHANGED <<deal, applied>>
    BY <1>4 DEF CloseRequest, AsIs, reserve
  <2>2. OrdersKeep
    BY <1>4 DEF CloseRequest, OrdersKeep, In, Live, Began, Backed, Rows
  <2> QED
    BY <1>1, <2>1, <2>2, OrdersMoveOwed
<1>5. ASSUME NEW o \in Orders,
             \/ DeclineOrder(o) \/ ExpireOffer(o) \/ WithdrawOffer(o) \/ ReleaseOrder(o) \/ EndHold(o)
             \/ RunOut(o)
      PROVE  Owed'
  <2>1. UNCHANGED <<deal, applied>> /\ order[o].state \in Live
    BY <1>5 DEF DeclineOrder, ExpireOffer, WithdrawOffer, ReleaseOrder, EndHold, RunOut, Releasable,
                Untouched, work, reserve, Live
  <2>2. RunOut(o) \/ \E s \in {"DECLINED", "EXPIRED", "WITHDRAWN", "RELEASED"} : CloseUnstarted({o}, s)
    BY <1>5 DEF DeclineOrder, ExpireOffer, WithdrawOffer, ReleaseOrder, EndHold
  <2>3. OrdersKeep
    BY <2>1, <2>2 DEF RunOut, CloseUnstarted, OrdersKeep, Live, Began, Backed, Rows
  <2> QED
    BY <1>1, <2>1, <2>3, OrdersMoveOwed
<1>6. ASSUME NEW o \in Orders, AcceptOrder(o) \/ AcceptQuote(o)
      PROVE  Owed'
  <2>1. UNCHANGED <<deal, applied>>
    BY <1>6 DEF AcceptOrder, AcceptQuote, AsIs, Untouched, work, reserve
  <2>2. PICK s \in Held : order' = [order EXCEPT ![o].state = s, ![o].over = FALSE]
    BY <1>6 DEF AcceptOrder, AcceptQuote, Held
  <2>3. order[o].state \notin Began
    BY <1>6 DEF AcceptOrder, AcceptQuote, Began
  <2>4. /\ order'[o].state = s
        /\ \A p \in Orders : order'[p].req = order[p].req /\ (p # o => order'[p].state = order[p].state)
    BY <2>2, Restarted DEF Backed, States, Held
  <2>5. OrdersKeep
    BY <2>3, <2>4 DEF OrdersKeep, Began, Held
  <2> QED
    BY <1>1, <2>1, <2>5, OrdersMoveOwed
<1>7. CASE \E o \in Orders : CreateQuote(o) \/ SendQuote(o) \/ Lapse(o) \/ EndQuote(o)
  <2>1. UNCHANGED <<deal, applied, order>>
    BY <1>7 DEF CreateQuote, SendQuote, Lapse, EndQuote, AsIs, reserve
  <2>2. OrdersKeep
    BY <2>1 DEF OrdersKeep, Began
  <2> QED
    BY <1>1, <2>1, <2>2, OrdersMoveOwed
<1> QED
  BY <1>2, <1>3, <1>4, <1>5, <1>6, <1>7

(* A step of the reserve, of a delivery or of the client's side concerns   *)
(* one order that began, and leaves every other as it was.                 *)
OneMoves(o) ==
  /\ deal' \in [Orders -> DealRow] /\ applied' \in [Orders -> ApplicationRow]
  /\ \A p \in Orders :
       /\ order'[p].req = order[p].req
       /\ p # o => order'[p].state = order[p].state /\ deal'[p] = deal[p] /\ applied'[p] = applied[p]
  /\ order'[o].state \in Began
  /\ RowFits(SizeOf(o), order'[o].state, deal'[o], applied'[o])

LEMMA OneMovesOwed ==
  ASSUME Owed, NEW o \in Orders, OneMoves(o)
  PROVE  Owed'
<1>1. \A p \in Orders : SizeOf(p)' = SizeOf(p)
  BY DEF OneMoves, SizeOf
<1>2. Fresh'
  BY DEF OneMoves, Owed, Fresh
<1>3. ASSUME NEW p \in Orders PROVE RowFits(SizeOf(p), order[p].state, deal[p], applied[p])'
  <2>1. CASE p = o
    BY <1>1, <2>1 DEF OneMoves
  <2>2. CASE p # o
    BY <1>1, <2>2 DEF OneMoves, Owed
  <2> QED
    BY <2>1, <2>2
<1> QED
  BY <1>2, <1>3 DEF OneMoves, Owed

\* The deal of an order in hand becomes d, or its application becomes row.
LEMMA DealAlone ==
  ASSUME Owed, NEW o \in Orders, NEW d \in DealRow,
         deal' = [deal EXCEPT ![o] = d], UNCHANGED <<order, applied>>,
         order[o].state \in Began, RowFits(SizeOf(o), order[o].state, d, applied[o])
  PROVE  OneMoves(o)
BY DEF Owed, OneMoves

LEMMA ApplicationAlone ==
  ASSUME Owed, NEW o \in Orders, NEW row \in ApplicationRow,
         applied' = [applied EXCEPT ![o] = row], UNCHANGED <<order, deal>>,
         order[o].state \in Began, RowFits(SizeOf(o), order[o].state, deal[o], row)
  PROVE  OneMoves(o)
BY DEF Owed, OneMoves

\* What an order owes, in numbers; one with anything under way has begun.
LEMMA OwedNumbers ==
  ASSUME Backed, Owed, NEW o \in Orders
  PROVE  /\ SizeOf(o) \in Nat /\ deal[o] \in DealRow /\ applied[o] \in ApplicationRow
         /\ deal[o].delivered \in Nat /\ deal[o].coming \in Nat /\ deal[o].adjusted \in Int
         /\ applied[o].amount \in Nat
         /\ RowFits(SizeOf(o), order[o].state, deal[o], applied[o])
         /\ applied[o].state # "NONE" \/ deal[o].coming > 0 => order[o].state \in Began
<1>1. deal[o] \in DealRow /\ applied[o] \in ApplicationRow
  BY DEF Owed
<1>2. applied[o].state # "NONE" \/ deal[o].coming > 0 => order[o].state \in Began
  BY DEF Owed, Fresh
<1> QED
  BY <1>1, <1>2, SizeIsNumber DEF Owed, DealRow, ApplicationRow

\* An application is asked for, approved, ended, sent or failed.
LEMMA AppliedMoves ==
  ASSUME Backed, Owed, NEW o \in Orders,
         \/ RequestApplication(o) \/ ApproveApplication(o) \/ EndApplication(o)
         \/ RecordApplied(o) \/ FailApplied(o)
  PROVE  OneMoves(o)
<1>1. deal' = deal /\ order' = order
  BY DEF RequestApplication, ApproveApplication, EndApplication, RecordApplied, FailApplied, orders
<1>2. CASE RequestApplication(o)
  <2>1. PICK n \in 1 .. Side(o) :
          Applicable(o, n) /\ applied' = [applied EXCEPT ![o] = [state |-> "REQUESTED", amount |-> n]]
    BY <1>2 DEF RequestApplication
  <2>2. n \in Nat /\ n >= 1 /\ order[o].state = "IN_PROGRESS"
    BY <2>1, OwedNumbers DEF Applicable, Side
  <2>3. [state |-> "REQUESTED", amount |-> n] \in ApplicationRow
    BY <2>2 DEF ApplicationRow
  <2>4. RowFits(SizeOf(o), order[o].state, deal[o], [state |-> "REQUESTED", amount |-> n])
    BY <2>2, OwedNumbers DEF RowFits
  <2> QED
    BY <1>1, <2>1, <2>2, <2>3, <2>4, ApplicationAlone DEF Began
<1>3. CASE ApproveApplication(o) \/ RecordApplied(o)
  <2>1. PICK s \in {"APPROVED", "SENT"} :
          /\ applied' = [applied EXCEPT ![o].state = s] /\ applied[o].state # "NONE"
          /\ s = "APPROVED" => order[o].state = "IN_PROGRESS"
    BY <1>3 DEF ApproveApplication, RecordApplied, Applicable
  <2>2. [applied[o] EXCEPT !.state = s] = [state |-> s, amount |-> applied[o].amount]
    BY OwedNumbers DEF ApplicationRow
  <2>3. applied' = [applied EXCEPT ![o] = [state |-> s, amount |-> applied[o].amount]]
    BY <2>1, <2>2, Zenon
  <2>4. [state |-> s, amount |-> applied[o].amount] \in ApplicationRow
    BY OwedNumbers DEF ApplicationRow
  <2>5. RowFits(SizeOf(o), order[o].state, deal[o], [state |-> s, amount |-> applied[o].amount])
    BY <2>1, OwedNumbers DEF RowFits
  <2> QED
    BY <1>1, <2>1, <2>3, <2>4, <2>5, OwedNumbers, ApplicationAlone
<1>4. CASE EndApplication(o) \/ FailApplied(o)
  <2>1. applied' = [applied EXCEPT ![o] = NoApplication] /\ applied[o].state # "NONE"
    BY <1>4 DEF EndApplication, FailApplied
  <2>2. NoApplication \in ApplicationRow /\ RowFits(SizeOf(o), order[o].state, deal[o], NoApplication)
    BY OwedNumbers DEF NoApplication, ApplicationRow, RowFits
  <2> QED
    BY <1>1, <2>1, <2>2, OwedNumbers, ApplicationAlone
<1> QED
  BY <1>2, <1>3, <1>4

\* A delivery of the trader's own is recorded by the scanner or the desk, confirmed or failed.
LEMMA DeliveryMoves ==
  ASSUME Backed, Owed, NEW o \in Orders,
         RecordDelivery(o) \/ RecordByDesk(o) \/ ConfirmDelivery(o) \/ FailDelivery(o)
  PROVE  OneMoves(o)
<1>1. UNCHANGED <<order, applied>>
  BY DEF RecordDelivery, RecordByDesk, ConfirmDelivery, FailDelivery, orders, reserve
<1>2. order[o].state \in Began
  BY OwedNumbers DEF RecordDelivery, RecordByDesk, ConfirmDelivery, FailDelivery, Began
<1>3. CASE RecordDelivery(o) \/ RecordByDesk(o) \/ FailDelivery(o)
  <2>1. PICK c \in Nat : deal' = [deal EXCEPT ![o] = [deal[o] EXCEPT !.coming = c]]
    <3>1. CASE RecordDelivery(o) \/ RecordByDesk(o)
      <4>1. deal[o].coming + 1 \in Nat /\ deal' = [deal EXCEPT ![o] = [deal[o] EXCEPT !.coming = deal[o].coming + 1]]
        BY <3>1, OwedNumbers DEF RecordDelivery, RecordByDesk
      <4> QED
        BY <4>1
    <3>2. CASE FailDelivery(o)
      <4>1. deal[o].coming - 1 \in Nat /\ deal' = [deal EXCEPT ![o] = [deal[o] EXCEPT !.coming = deal[o].coming - 1]]
        BY <3>2, OwedNumbers DEF FailDelivery
      <4> QED
        BY <4>1
    <3> QED
      BY <1>3, <3>1, <3>2
  <2> DEFINE d == [deal[o] EXCEPT !.coming = c]
  <2>2. /\ d \in DealRow /\ d.delivered = deal[o].delivered /\ d.adjusted = deal[o].adjusted
        /\ d.dropped = deal[o].dropped /\ d.paid = deal[o].paid
    BY OwedNumbers DEF DealRow
  <2> HIDE DEF d
  <2>3. RowFits(SizeOf(o), order[o].state, d, applied[o])
    BY <2>2, OwedNumbers DEF RowFits
  <2>4. deal' = [deal EXCEPT ![o] = d]
    BY <2>1 DEF d
  <2> QED
    BY <1>1, <1>2, <2>2, <2>3, <2>4, DealAlone
<1>4. CASE ConfirmDelivery(o)
  <2> DEFINE mid == [deal[o] EXCEPT !.coming = deal[o].coming - 1]
             d == [mid EXCEPT !.delivered = deal[o].delivered + 1]
  <2>1. deal[o].coming > 0 /\ ~deal[o].dropped /\ deal[o].delivered < Side(o)
    BY <1>4 DEF ConfirmDelivery
  <2>2. /\ mid \in DealRow /\ mid.delivered = deal[o].delivered /\ mid.adjusted = deal[o].adjusted
        /\ mid.dropped = deal[o].dropped
    BY <2>1, OwedNumbers DEF DealRow
  <2>3. deal' = [deal EXCEPT ![o] = d]
    BY <1>4, <2>2 DEF ConfirmDelivery, Owed, DealRow
  <2> HIDE DEF mid
  <2>4. /\ d \in DealRow /\ d.delivered = deal[o].delivered + 1 /\ d.adjusted = deal[o].adjusted
        /\ d.dropped = deal[o].dropped
    BY <2>2, OwedNumbers DEF DealRow
  <2> HIDE DEF d
  <2>5. d.delivered <= SizeOf(o) + d.adjusted
    BY <2>1, <2>4, OwedNumbers DEF Side
  <2>6. order[o].state # "COMPLETED"
    BY <2>1, OwedNumbers DEF RowFits, Side
  <2>7. RowFits(SizeOf(o), order[o].state, d, applied[o])
    BY <2>1, <2>4, <2>5, <2>6, OwedNumbers DEF RowFits
  <2> QED
    BY <1>1, <1>2, <2>3, <2>4, <2>7, DealAlone
<1> QED
  BY <1>3, <1>4

\* The side is adjusted, never under what is confirmed, and never of a settled obligation.
LEMMA AdjustmentMoves ==
  ASSUME Backed, Owed, NEW o \in Orders, ApproveAdjustment(o)
  PROVE  OneMoves(o)
<1>1. UNCHANGED <<order, applied>> /\ order[o].state = "IN_PROGRESS"
  BY DEF ApproveAdjustment, orders, reserve
<1>2. PICK side \in 1 .. SizeOf(o) + MaxExtra :
        /\ side >= deal[o].delivered
        /\ deal' = [deal EXCEPT ![o] = [deal[o] EXCEPT !.adjusted = side - SizeOf(o)]]
  BY DEF ApproveAdjustment, AdjustableTo
<1>3. side \in Int /\ SizeOf(o) \in Nat
  BY OwedNumbers
<1> DEFINE d == [deal[o] EXCEPT !.adjusted = side - SizeOf(o)]
<1>4. /\ d \in DealRow /\ d.delivered = deal[o].delivered /\ d.adjusted = side - SizeOf(o)
      /\ d.dropped = deal[o].dropped
  BY <1>3, OwedNumbers DEF DealRow
<1>5. deal' = [deal EXCEPT ![o] = d]
  BY <1>2
<1> HIDE DEF d
<1>6. d.delivered <= SizeOf(o) + d.adjusted
  BY <1>2, <1>3, <1>4, OwedNumbers
<1>7. RowFits(SizeOf(o), order[o].state, d, applied[o])
  BY <1>1, <1>4, <1>6, OwedNumbers DEF RowFits
<1> QED
  BY <1>1, <1>4, <1>5, <1>7, DealAlone DEF Began

\* The reserve's USDT lands: the side has room for it.
LEMMA ConfirmAppliedMoves ==
  ASSUME Backed, Owed, NEW o \in Orders, ConfirmApplied(o)
  PROVE  OneMoves(o)
<1>1. /\ deal' = [deal EXCEPT ![o] = [deal[o] EXCEPT !.delivered = deal[o].delivered + applied[o].amount]]
      /\ applied' = [applied EXCEPT ![o] = NoApplication] /\ order' = order
      /\ applied[o].state = "SENT" /\ ~deal[o].dropped
      /\ deal[o].delivered + applied[o].amount <= Side(o)
  BY DEF ConfirmApplied, orders
<1>2. applied[o].amount >= 1 /\ order[o].state \in Began
  BY <1>1, OwedNumbers DEF RowFits
<1>3. /\ deal' \in [Orders -> DealRow] /\ applied' \in [Orders -> ApplicationRow]
      /\ \A p \in Orders : p # o => deal'[p] = deal[p] /\ applied'[p] = applied[p]
      /\ deal'[o].delivered = deal[o].delivered + applied[o].amount
      /\ deal'[o].adjusted = deal[o].adjusted /\ deal'[o].dropped = deal[o].dropped
      /\ applied'[o].state = "NONE"
  BY <1>1, OwedNumbers DEF Owed, DealRow, ApplicationRow, NoApplication
<1>4. order[o].state # "COMPLETED"
  BY <1>1, <1>2, OwedNumbers DEF RowFits, Side
<1>5. RowFits(SizeOf(o), order'[o].state, deal'[o], applied'[o])
  BY <1>1, <1>3, <1>4, OwedNumbers DEF RowFits, Side
<1> QED
  BY <1>1, <1>2, <1>3, <1>5 DEF OneMoves

\* The client's side of the deal: funded, paid, or dropped with nothing delivered.
LEMMA ClientMoves ==
  ASSUME Backed, Owed, NEW o \in Orders, FundDeal(o) \/ PayTrader(o) \/ CancelDeal(o)
  PROVE  OneMoves(o)
<1>1. UNCHANGED <<order, applied>> /\ order[o].state = "IN_PROGRESS"
  BY DEF FundDeal, PayTrader, CancelDeal, Started, orders, reserve
<1>2. PICK d :
        /\ deal' = [deal EXCEPT ![o] = d]
        /\ \/ d = [deal[o] EXCEPT !.funded = TRUE]
           \/ d = [deal[o] EXCEPT !.paid = TRUE]
           \/ d = [deal[o] EXCEPT !.dropped = TRUE] /\ deal[o].delivered = 0
  BY DEF FundDeal, PayTrader, CancelDeal
<1>3. /\ d \in DealRow /\ d.delivered = deal[o].delivered /\ d.adjusted = deal[o].adjusted
      /\ d.dropped => d.delivered = 0
  <2>1. deal[o].dropped => deal[o].delivered = 0
    BY OwedNumbers DEF RowFits
  <2>2. deal[o] \in DealRow
    BY OwedNumbers
  <2> QED
    BY <1>2, <2>1, <2>2, ZenonT(60) DEF DealRow
<1>4. RowFits(SizeOf(o), order[o].state, d, applied[o])
  BY <1>1, <1>3, OwedNumbers DEF RowFits
<1> QED
  BY <1>1, <1>2, <1>3, <1>4, DealAlone DEF Began

\* Nothing it speaks of is touched.
LEMMA UntouchedOwed ==
  ASSUME Owed, UNCHANGED <<order, deal, applied>>
  PROVE  Owed'
BY DEF Owed, Fresh, RowFits, SizeOf

LEMMA ReserveOwed ==
  ASSUME Backed, Owed, ReserveStep
  PROVE  Owed'
<1>1. CASE Deposit \/ BeginWithdraw \/ EndWithdraw \/ RecordWithdrawalSent \/ ConfirmWithdrawal \/ CloseWithdrawal
  <2>1. UNCHANGED <<order, deal, applied>>
    BY <1>1 DEF Deposit, BeginWithdraw, EndWithdraw, RecordWithdrawalSent, ConfirmWithdrawal,
                CloseWithdrawal, orders
  <2> QED
    BY <2>1, UntouchedOwed
<1>2. ASSUME NEW o \in Orders,
             \/ RequestApplication(o) \/ ApproveApplication(o) \/ EndApplication(o)
             \/ RecordApplied(o) \/ ConfirmApplied(o) \/ FailApplied(o)
             \/ RecordDelivery(o) \/ RecordByDesk(o) \/ ConfirmDelivery(o) \/ FailDelivery(o)
             \/ ApproveAdjustment(o) \/ FundDeal(o) \/ PayTrader(o) \/ CancelDeal(o)
      PROVE  Owed'
  BY <1>2, AppliedMoves, DeliveryMoves, AdjustmentMoves, ConfirmAppliedMoves, ClientMoves, OneMovesOwed
<1> QED
  BY <1>1, <1>2 DEF ReserveStep

\* Its application, unless its USDT has moved, ends with the order.
LEMMA EndWithRow ==
  ASSUME Backed, Owed, NEW o \in Orders, EndWith(o)
  PROVE  /\ applied' \in [Orders -> ApplicationRow]
         /\ \A p \in Orders : p # o => applied'[p] = applied[p]
         /\ applied'[o].state # "NONE" => applied'[o].state = "SENT" /\ applied'[o].amount >= 1
<1>1. applied[o].state # "NONE" => applied[o].amount >= 1
  BY OwedNumbers DEF RowFits
<1>2. applied \in [Orders -> ApplicationRow] /\ applied[o].state \in {"NONE", "REQUESTED", "APPROVED", "SENT"}
  BY OwedNumbers DEF Owed, ApplicationRow
<1>3. NoApplication \in ApplicationRow /\ NoApplication.state = "NONE"
  BY DEF NoApplication, ApplicationRow
<1> QED
  BY <1>1, <1>2, <1>3 DEF EndWith

LEMMA ReconcileOwed ==
  ASSUME Backed, Owed, NEW o \in Orders, Reconcile(o)
  PROVE  Owed'
<1>0. order[o].state = "IN_PROGRESS" /\ order \in OrderRows
  BY DEF Reconcile, TellDelivered, CompleteOrder, CancelOrder, Reconcilable, Backed, Rows, OrderRows
<1> DEFINE d == [deal[o] EXCEPT !.told = TRUE]
<1>1. /\ d \in DealRow /\ d.delivered = deal[o].delivered /\ d.adjusted = deal[o].adjusted
      /\ d.dropped = deal[o].dropped /\ d.paid = deal[o].paid
  BY OwedNumbers DEF DealRow
<1>2. CASE TellDelivered(o)
  <2>1. UNCHANGED <<order, applied>> /\ deal' = [deal EXCEPT ![o] = d]
    BY <1>2 DEF TellDelivered, orders, reserve
  <2> HIDE DEF d
  <2>2. RowFits(SizeOf(o), order[o].state, d, applied[o])
    BY <1>1, OwedNumbers DEF RowFits
  <2> QED
    BY <1>0, <1>1, <2>1, <2>2, DealAlone, OneMovesOwed DEF Began
<1>3. CASE CompleteOrder(o)
  <2>1. /\ order' = [order EXCEPT ![o].state = "COMPLETED"] /\ deal' = [deal EXCEPT ![o] = d]
        /\ EndWith(o) /\ deal[o].delivered = Side(o) /\ deal[o].paid
    BY <1>3 DEF CompleteOrder, Settled
  <2> HIDE DEF d
  <2>2. /\ deal' \in [Orders -> DealRow] /\ deal'[o] = d /\ \A p \in Orders : p # o => deal'[p] = deal[p]
    BY <1>1, <2>1 DEF Owed
  <2>3. /\ order'[o].state = "COMPLETED"
        /\ \A p \in Orders : order'[p].req = order[p].req /\ (p # o => order'[p].state = order[p].state)
    BY <1>0, <2>1 DEF OrderRows
  <2>4. RowFits(SizeOf(o), "COMPLETED", deal'[o], applied'[o])
    BY <1>1, <2>1, <2>2, EndWithRow, OwedNumbers DEF RowFits, Side
  <2>5. OneMoves(o)
    BY <2>1, <2>2, <2>3, <2>4, EndWithRow DEF OneMoves, Began
  <2> QED
    BY <2>5, OneMovesOwed
<1>4. CASE CancelOrder(o)
  <2>1. /\ order' = [order EXCEPT ![o].state = "CANCELLED"] /\ deal' = deal /\ EndWith(o)
    BY <1>4 DEF CancelOrder
  <2>2. /\ order'[o].state = "CANCELLED"
        /\ \A p \in Orders : order'[p].req = order[p].req /\ (p # o => order'[p].state = order[p].state)
    BY <1>0, <2>1 DEF OrderRows
  <2>3. RowFits(SizeOf(o), "CANCELLED", deal[o], applied'[o])
    BY <2>1, EndWithRow, OwedNumbers DEF RowFits
  <2>4. OneMoves(o)
    BY <2>1, <2>2, <2>3, EndWithRow DEF OneMoves, Began, Owed
  <2> QED
    BY <2>4, OneMovesOwed
<1> QED
  BY <1>2, <1>3, <1>4 DEF Reconcile

LEMMA StepOwed == Backed /\ Owed /\ [Next]_vars => Owed'
<1> SUFFICES ASSUME Backed, Owed, [Next]_vars PROVE Owed'
  OBVIOUS
<1>1. CASE UNCHANGED vars
  BY <1>1, UntouchedOwed DEF vars
<1>2. CASE Settings \/ \E r \in Requests : BeginAssign(r) \/ EndAssign(r) \/ CloseRequest(r)
  BY <1>2, CommandsOwed
<1>3. CASE ReserveStep
  BY <1>3, ReserveOwed
<1>4. CASE \E o \in Orders : OrderStep(o)
  BY <1>4, CommandsOwed, ReconcileOwed DEF OrderStep
<1> QED
  BY <1>1, <1>2, <1>3, <1>4 DEF Next

(* What is confirmed stays within the order's side as adjustments leave    *)
(* it, nothing is confirmed for a dropped obligation, a completed order    *)
(* stays exactly settled, and no undecided application outlives its order, *)
(* however the scanner, the desk, the reserve, adjustments, failures and   *)
(* reconciliation interleave, for any requests, sizes, requirements and    *)
(* number of orders.                                                       *)
THEOREM SpentOnlyOnOwedHolds == Spec => []SpentOnlyOnOwed
<1>1. Spec => [](Backed /\ Owed)
  BY InitBacked, InitOwed, StepBacked, StepOwed, PTL DEF Spec
<1>2. Owed => SpentOnlyOnOwed
  BY OwedIsSpent
<1> QED
  BY <1>1, <1>2, PTL

LEMMA OrdersFinite == IsFiniteSet(Orders) /\ MaxOrders \in Nat
BY TraderAssumption, FS_Interval DEF Orders

-----------------------------------------------------------------------------
(* What is held, and what a step changes of it. *)

SizesOf == [o \in Orders |-> SizeOf(o)]
BlockRow == [active : BOOLEAN, rate : Rates, capacity : Nat, reserved : Nat]
Exact == block \in BlockRow /\ block.reserved = UsdtOf(In(Held)) /\ block.reserved <= block.capacity

\* Some held orders go, some others come, and none changes its request.
HeldBecomes(gone, come) ==
  /\ gone \in SUBSET In(Held) /\ come \in SUBSET (Orders \ In(Held))
  /\ In(Held)' = (In(Held) \ gone) \cup come
  /\ \A o \in In(Held) \cup come : order'[o].req = order[o].req

LEMMA SizesAreAmounts == ASSUME Backed PROVE SizesOf \in [Orders -> Nat]
<1>1. \A o \in Orders : SizeOf(o) \in Nat
  BY TraderAssumption DEF SizeOf, Backed, Rows
<1> QED
  BY <1>1 DEF SizesOf

LEMMA UsdtNat ==
  ASSUME Backed, NEW os \in SUBSET Orders
  PROVE  UsdtOf(os) \in Nat /\ UsdtOf(os) = Sum(SizesOf, os)
<1>1. UsdtOf(os) = Sum(SizesOf, os)
  BY DEF UsdtOf, SizesOf
<1> QED
  BY <1>1, OrdersFinite, SizesAreAmounts, SumNat

LEMMA UsdtOne ==
  ASSUME Backed, NEW o \in Orders
  PROVE  UsdtOf({o}) = SizeOf(o)
<1>1. UsdtOf({o}) = Sum(SizesOf, {o})
  BY UsdtNat
<1>2. Sum(SizesOf, {o}) = SizesOf[o]
  BY OrdersFinite, SizesAreAmounts, SumOne
<1> QED
  BY <1>1, <1>2 DEF SizesOf

LEMMA HeldSum ==
  ASSUME Backed, Backed', NEW gone, NEW come, HeldBecomes(gone, come)
  PROVE  /\ UsdtOf(gone) \in Nat /\ UsdtOf(come) \in Nat /\ UsdtOf(In(Held)) \in Nat
         /\ UsdtOf(gone) <= UsdtOf(In(Held))
         /\ UsdtOf(In(Held))' = UsdtOf(In(Held)) - UsdtOf(gone) + UsdtOf(come)
<1> DEFINE held == In(Held)
<1>1. /\ held \in SUBSET Orders /\ gone \in SUBSET held /\ come \in SUBSET (Orders \ held)
      /\ held' = (held \ gone) \cup come
  BY DEF HeldBecomes, In
<1>2. \A o \in held' : SizesOf'[o] = SizesOf[o]
  <2> TAKE o \in held'
  <2>1. o \in Orders /\ order'[o].req = order[o].req
    BY <1>1 DEF HeldBecomes
  <2> QED
    BY <2>1 DEF SizesOf, SizeOf
<1> HIDE DEF held
<1>3. SizesOf \in [Orders -> Nat]
  BY SizesAreAmounts
<1>4. /\ Sum(SizesOf, held) \in Nat /\ Sum(SizesOf, gone) \in Nat /\ Sum(SizesOf, come) \in Nat
      /\ Sum(SizesOf, gone) <= Sum(SizesOf, held)
      /\ Sum(SizesOf, held') = Sum(SizesOf, held) - Sum(SizesOf, gone) + Sum(SizesOf, come)
  <2> DEFINE stay == held \ gone
  <2>1. /\ stay \in SUBSET Orders /\ gone \in SUBSET Orders /\ come \in SUBSET Orders
        /\ stay \cap gone = {} /\ stay \cap come = {} /\ stay \cup gone = held /\ stay \cup come = held'
    BY <1>1
  <2> HIDE DEF stay
  <2>2. Sum(SizesOf, stay \cup gone) = Sum(SizesOf, stay) + Sum(SizesOf, gone)
    BY <1>3, <2>1, OrdersFinite, SumApart
  <2>3. Sum(SizesOf, stay \cup come) = Sum(SizesOf, stay) + Sum(SizesOf, come)
    BY <1>3, <2>1, OrdersFinite, SumApart
  <2>4. Sum(SizesOf, stay) \in Nat /\ Sum(SizesOf, gone) \in Nat /\ Sum(SizesOf, come) \in Nat
    BY <1>3, <2>1, OrdersFinite, SumNat
  <2>5. Sum(SizesOf, held) = Sum(SizesOf, stay) + Sum(SizesOf, gone)
    BY <2>1, <2>2, Zenon
  <2>6. Sum(SizesOf, held') = Sum(SizesOf, stay) + Sum(SizesOf, come)
    BY <2>1, <2>3, Zenon
  <2> QED
    BY <2>4, <2>5, <2>6
<1>5. UsdtOf(held)' = Sum(SizesOf, held')
  <2>1. UsdtOf(held)' = Sum(SizesOf', held')
    BY DEF UsdtOf, SizesOf
  <2>2. Sum(SizesOf', held') = Sum(SizesOf, held')
    BY <1>2, SumSame
  <2> QED
    BY <2>1, <2>2
<1>6. /\ UsdtOf(held) = Sum(SizesOf, held)
      /\ UsdtOf(gone) = Sum(SizesOf, gone) /\ UsdtOf(come) = Sum(SizesOf, come)
  BY DEF UsdtOf, SizesOf
<1> QED
  BY <1>4, <1>5, <1>6 DEF held

\* The block follows.
LEMMA ExactMoves ==
  ASSUME Backed, Backed', Exact, NEW gone, NEW come, HeldBecomes(gone, come),
         block' \in [active : BOOLEAN, rate : Rates, capacity : Int, reserved : Int],
         block'.reserved = block.reserved - UsdtOf(gone) + UsdtOf(come),
         block'.reserved <= block'.capacity
  PROVE  Exact'
<1>1. block.reserved \in Nat /\ block.reserved = UsdtOf(In(Held))
  BY DEF Exact, BlockRow
<1>2. block'.reserved = UsdtOf(In(Held))' /\ block'.reserved \in Nat
  BY <1>1, HeldSum
<1>3. block' \in BlockRow
  BY <1>2 DEF BlockRow
<1> QED
  BY <1>2, <1>3 DEF Exact

LEMMA NothingCounts == ASSUME Backed PROVE UsdtOf({}) = 0
BY SumEmpty DEF UsdtOf

\* No order begins or stops being held.
LEMMA HeldStays ==
  ASSUME Backed, Backed', Exact, In(Held)' = In(Held),
         \A o \in In(Held) : order'[o].req = order[o].req,
         block' \in BlockRow, block'.reserved = block.reserved, block'.reserved <= block'.capacity
  PROVE  Exact'
<1>1. HeldBecomes({}, {})
  BY DEF HeldBecomes
<1>2. block.reserved \in Nat
  BY DEF Exact, BlockRow
<1> QED
  BY <1>1, <1>2, ExactMoves, NothingCounts DEF BlockRow

\* Some held orders end, and the block lets go of them.
LEMMA HeldEnds ==
  ASSUME Backed, Backed', Exact, NEW gone, HeldBecomes(gone, {}),
         block' \in [active : BOOLEAN, rate : Rates, capacity : Int, reserved : Int],
         block'.reserved = block.reserved - UsdtOf(gone),
         block'.capacity \in {block.capacity, block.capacity - UsdtOf(gone)}
  PROVE  Exact'
<1>1. /\ block.reserved \in Nat /\ block.capacity \in Nat
      /\ block.reserved <= block.capacity
  BY DEF Exact, BlockRow
<1>2. UsdtOf(gone) \in Nat
  BY HeldSum
<1>3. block'.reserved <= block'.capacity /\ block'.reserved = block.reserved - UsdtOf(gone) + UsdtOf({})
  BY <1>1, <1>2, NothingCounts
<1> QED
  BY <1>3, ExactMoves

-----------------------------------------------------------------------------
(* The commands. *)

\* Withdrawing the offers lets go of nothing.
LEMMA OffersHoldNothing ==
  ASSUME Backed, WithdrawOffers
  PROVE  In(Held)' = In(Held) /\ \A o \in In(Held) : order'[o].req = order[o].req
BY DEF WithdrawOffers, In, Held, Backed, Rows

LEMMA SettingsExact ==
  ASSUME Backed, Backed', Exact, Settings
  PROVE  Exact'
<1>1. order' = order \/ WithdrawOffers
  BY DEF Settings, SetAvailability, PauseTrader, ResumeTrader, SetAssignments, SetRequired, UpdateBlock
<1>2. In(Held)' = In(Held) /\ \A o \in In(Held) : order'[o].req = order[o].req
  BY <1>1, OffersHoldNothing DEF In
<1>3. CASE UNCHANGED block
  BY <1>2, <1>3, HeldStays DEF Exact
<1>4. CASE UpdateBlock
  <2>1. PICK rate \in Rates, capacity \in Capacities, active \in BOOLEAN :
          /\ capacity >= block.reserved
          /\ block' = [block EXCEPT !.rate = rate, !.capacity = capacity, !.active = active]
    BY <1>4 DEF UpdateBlock
  <2>2. capacity \in Nat /\ block \in BlockRow
    BY TraderAssumption DEF Exact
  <2>3. block' = [active |-> active, rate |-> rate, capacity |-> capacity, reserved |-> block.reserved]
    BY <2>1, <2>2 DEF BlockRow
  <2>4. block' \in BlockRow /\ block'.reserved = block.reserved /\ block'.reserved <= block'.capacity
    BY <2>1, <2>2, <2>3 DEF BlockRow
  <2> QED
    BY <1>2, <2>4, HeldStays
<1> QED
  BY <1>3, <1>4 DEF Settings, SetAvailability, PauseTrader, ResumeTrader, SetAssignments, SetRequired

\* Steps that touch neither a block nor who is held.
LEMMA QuietExact ==
  ASSUME Backed, Backed', Exact,
         \/ ReserveStep
         \/ \E r \in Requests : BeginAssign(r) \/ EndAssign(r)
         \/ \E o \in Orders :
              RunOut(o) \/ CreateQuote(o) \/ SendQuote(o) \/ Lapse(o) \/ EndQuote(o) \/ AcceptQuote(o)
              \/ TellDelivered(o)
         \/ UNCHANGED vars
  PROVE  Exact'
<1>1. UNCHANGED block
  BY DEF ReserveStep, Deposit, BeginWithdraw, EndWithdraw, RecordWithdrawalSent, ConfirmWithdrawal,
         CloseWithdrawal, RequestApplication, ApproveApplication, EndApplication, RecordApplied,
         ConfirmApplied, FailApplied, RecordDelivery, RecordByDesk, ApproveAdjustment, ConfirmDelivery,
         FailDelivery, FundDeal, PayTrader, CancelDeal, orders, BeginAssign, EndAssign, RunOut, CreateQuote, SendQuote, Lapse,
         EndQuote, AcceptQuote, TellDelivered, vars
<1>2. In(Held)' = In(Held) /\ \A o \in In(Held) : order'[o].req = order[o].req
  <2>1. CASE UNCHANGED order
    BY <2>1 DEF In
  <2>2. CASE \E r \in Requests : EndAssign(r)
    <3>1. PICK o \in In({"NONE"}), r \in Requests :
            order' = [order EXCEPT ![o] = [state |-> "OFFERED", req |-> r, rate |-> assign[r], over |-> FALSE]]
      BY <2>2 DEF EndAssign
    <3> QED
      BY <3>1 DEF In, Held, Backed, Rows
  <2>3. CASE \E o \in Orders : RunOut(o)
    BY <2>3 DEF RunOut, In, Held, Backed, Rows
  <2>4. ASSUME NEW o \in Orders, AcceptQuote(o)
        PROVE  In(Held)' = In(Held) /\ \A p \in In(Held) : order'[p].req = order[p].req
    <3>1. /\ order[o].state = "ACCEPTED"
          /\ order' = [order EXCEPT ![o].state = "IN_PROGRESS", ![o].over = FALSE]
      BY <2>4 DEF AcceptQuote
    <3>2. \A p \in Orders : /\ order'[p].req = order[p].req
                           /\ order'[p].state = IF p = o THEN "IN_PROGRESS" ELSE order[p].state
      BY <3>1, Restarted DEF Backed, States, Held
    <3> QED
      BY <3>1, <3>2 DEF In, Held
  <2> QED
    BY <2>1, <2>2, <2>3, <2>4
       DEF ReserveStep, Deposit, BeginWithdraw, EndWithdraw, RecordWithdrawalSent, ConfirmWithdrawal,
           CloseWithdrawal, RequestApplication, ApproveApplication, EndApplication, RecordApplied,
           ConfirmApplied, FailApplied, RecordDelivery, RecordByDesk, ApproveAdjustment, ConfirmDelivery,
           FailDelivery, FundDeal, PayTrader, CancelDeal, orders, BeginAssign, CreateQuote, SendQuote, Lapse,
           EndQuote, TellDelivered, vars
<1> QED
  BY <1>1, <1>2, HeldStays DEF Exact

\* These orders end, and no other; what the block held of them is let go.
OnlyEnd(os) ==
  \A o \in Orders : /\ order'[o].req = order[o].req
                    /\ o \in os => order'[o].state \in Ended
                    /\ o \notin os => order'[o].state = order[o].state
LetGo(os) == block' = [block EXCEPT !.reserved = @ - UsdtOf(os \cap In({"ACCEPTED"}))]

LEMMA ClosedExact ==
  ASSUME Backed, Backed', Exact, NEW os \in SUBSET Orders,
         \A o \in os : order[o].state \in Live,
         OnlyEnd(os), LetGo(os)
  PROVE  Exact'
<1> DEFINE gone == os \cap In({"ACCEPTED"})
<1>1. HeldBecomes(gone, {})
  BY DEF HeldBecomes, OnlyEnd, In, Held, Live, Ended
<1>2. UsdtOf(gone) \in Nat /\ block \in BlockRow
  BY <1>1, HeldSum DEF Exact
<1> HIDE DEF gone
<1>3. /\ block' \in [active : BOOLEAN, rate : Rates, capacity : Int, reserved : Int]
      /\ block'.reserved = block.reserved - UsdtOf(gone) /\ block'.capacity = block.capacity
  BY <1>2 DEF BlockRow, LetGo, gone
<1> QED
  BY <1>1, <1>3, HeldEnds

LEMMA AnswersExact ==
  ASSUME Backed, Backed', Exact, NEW o \in Orders,
         DeclineOrder(o) \/ ExpireOffer(o) \/ WithdrawOffer(o) \/ ReleaseOrder(o) \/ EndHold(o)
  PROVE  Exact'
<1>1. PICK s \in {"DECLINED", "EXPIRED", "WITHDRAWN", "RELEASED"} : CloseUnstarted({o}, s)
  BY DEF DeclineOrder, ExpireOffer, WithdrawOffer, ReleaseOrder, EndHold
<1>2. order[o].state \in Live
  BY DEF DeclineOrder, ExpireOffer, WithdrawOffer, ReleaseOrder, EndHold, Releasable, Live
<1>3. OnlyEnd({o})
  BY <1>1 DEF CloseUnstarted, OnlyEnd, Ended, Backed, Rows
<1>4. LetGo({o})
  BY <1>1 DEF CloseUnstarted, LetGo
<1>5. {o} \in SUBSET Orders /\ \A p \in {o} : order[p].state \in Live
  BY <1>2
<1> QED
  BY <1>3, <1>4, <1>5, ClosedExact

LEMMA CloseRequestExact ==
  ASSUME Backed, Backed', Exact, NEW r \in Requests, CloseRequest(r)
  PROVE  Exact'
<1> DEFINE live == OrdersOf(r) \cap In(Live)
<1>1. live \in SUBSET Orders /\ \A o \in live : order[o].state \in Live
  BY DEF In
<1>2. LetGo(live)
  BY DEF CloseRequest, LetGo
<1>3. OnlyEnd(live)
  BY <1>1 DEF CloseRequest, OnlyEnd, Ended, Live, Backed, Rows
<1> HIDE DEF live
<1> QED
  BY <1>1, <1>2, <1>3, ClosedExact

\* An order is accepted only into capacity that nothing holds.
LEMMA AcceptExact ==
  ASSUME Backed, Backed', Exact, NEW o \in Orders, AcceptOrder(o)
  PROVE  Exact'
<1> DEFINE others == Offered \ {o}
           free == block.capacity - block.reserved - UsdtOf(others)
<1>1. /\ block \in BlockRow /\ UsdtOf(others) \in Nat /\ SizeOf(o) \in Nat /\ SizeOf(o) > 0
      /\ UsdtOf({o}) = SizeOf(o)
  <2>1. others \in SUBSET Orders
    BY DEF Offered, In
  <2>2. UsdtOf(others) \in Nat
    BY <2>1, UsdtNat
  <2>3. SizeOf(o) \in Nat \ {0}
    BY TraderAssumption DEF SizeOf, Backed, Rows
  <2> QED
    BY <2>2, <2>3, UsdtOne DEF Exact
<1>2. SizeOf(o) <= Max({0, free})
  BY DEF AcceptOrder, FreeCapacity
<1>3. block' = [block EXCEPT !.reserved = block.reserved + SizeOf(o)] /\ order[o].state = "OFFERED"
  BY DEF AcceptOrder
<1> HIDE DEF others
<1>4. free \in Int
  BY <1>1 DEF BlockRow
<1>5. SizeOf(o) <= free
  <2> HIDE DEF free
  <2>1. \E x \in {0, free} : \A y \in {0, free} : x >= y
    BY <1>4
  <2>2. Max({0, free}) \in {0, free}
    BY <2>1 DEF Max
  <2> QED
    BY <1>1, <1>2, <2>2
<1>6. HeldBecomes({}, {o})
  <2>1. \A p \in Orders : /\ order'[p].req = order[p].req
                         /\ order'[p].state = IF p = o THEN "ACCEPTED" ELSE order[p].state
    BY Restarted, ZenonT(60) DEF AcceptOrder, Backed, States, Held
  <2> QED
    BY <1>3, <2>1 DEF HeldBecomes, In, Held
<1>7. /\ block' \in [active : BOOLEAN, rate : Rates, capacity : Int, reserved : Int]
      /\ block'.reserved = block.reserved + SizeOf(o) /\ block'.capacity = block.capacity
  BY <1>1, <1>3 DEF BlockRow
<1>8. block'.reserved <= block'.capacity
  BY <1>1, <1>5, <1>7 DEF BlockRow
<1>9. block'.reserved = block.reserved - UsdtOf({}) + UsdtOf({o})
  BY <1>1, <1>7, NothingCounts DEF BlockRow
<1> QED
  BY <1>6, <1>7, <1>8, <1>9, ExactMoves

\* A started order ends, and with a completed one the capacity it used.
LEMMA EndedExact ==
  ASSUME Backed, Backed', Exact, NEW o \in Orders, CompleteOrder(o) \/ CancelOrder(o)
  PROVE  Exact'
<1>1. order[o].state = "IN_PROGRESS"
  BY DEF CompleteOrder, CancelOrder, Reconcilable
<1>2. OnlyEnd({o})
  BY DEF CompleteOrder, CancelOrder, OnlyEnd, Ended, Backed, Rows
<1>3. HeldBecomes({o}, {})
  <2>1. \A p \in Orders : (order'[p].state \in Held) <=> (p # o /\ order[p].state \in Held)
    <3> TAKE p \in Orders
    <3>1. CASE p = o
      BY <1>2, <3>1 DEF OnlyEnd, Held, Ended
    <3>2. CASE p # o
      BY <1>2, <3>2 DEF OnlyEnd
    <3> QED
      BY <3>1, <3>2
  <2>2. In(Held)' = (In(Held) \ {o}) \cup {}
    BY <2>1 DEF In
  <2>3. {o} \in SUBSET In(Held) /\ {} \in SUBSET (Orders \ In(Held))
    BY <1>1 DEF In, Held
  <2>4. \A p \in In(Held) \cup {} : order'[p].req = order[p].req
    BY <1>2 DEF OnlyEnd, In
  <2> QED
    BY <2>2, <2>3, <2>4 DEF HeldBecomes
<1>4. UsdtOf({o}) = SizeOf(o) /\ SizeOf(o) \in Nat /\ block \in BlockRow
  BY <1>3, HeldSum, UsdtOne DEF Exact
<1>5. block' \in [active : BOOLEAN, rate : Rates, capacity : Int, reserved : Int]
  /\ block'.reserved = block.reserved - SizeOf(o)
  /\ block'.capacity \in {block.capacity, block.capacity - SizeOf(o)}
  <2>1. CASE CancelOrder(o)
    <3>1. block' = [block EXCEPT !.reserved = block.reserved - SizeOf(o)]
      BY <2>1 DEF CancelOrder
    <3> QED
      BY <1>4, <3>1 DEF BlockRow
  <2>2. CASE CompleteOrder(o)
    <3> DEFINE mid == [block EXCEPT !.reserved = block.reserved - SizeOf(o)]
    <3>1. mid \in [active : BOOLEAN, rate : Rates, capacity : Int, reserved : Int]
          /\ mid.reserved = block.reserved - SizeOf(o) /\ mid.capacity = block.capacity
      BY <1>4 DEF BlockRow
    <3>2. block' = [mid EXCEPT !.capacity = mid.capacity - SizeOf(o)]
      BY <2>2, <3>1 DEF CompleteOrder
    <3> HIDE DEF mid
    <3> QED
      BY <1>4, <3>1, <3>2 DEF BlockRow
  <2> QED
    BY <2>1, <2>2
<1> QED
  BY <1>3, <1>4, <1>5, HeldEnds

LEMMA StepExact == Backed /\ Backed' /\ Exact /\ [Next]_vars => Exact'
<1> SUFFICES ASSUME Backed, Backed', Exact, [Next]_vars PROVE Exact'
  OBVIOUS
<1>1. CASE Settings
  BY <1>1, SettingsExact
<1>2. CASE ReserveStep \/ UNCHANGED vars
  BY <1>2, QuietExact
<1>3. CASE \E r \in Requests : BeginAssign(r) \/ EndAssign(r) \/ CloseRequest(r)
  BY <1>3, QuietExact, CloseRequestExact
<1>4. CASE \E o \in Orders : OrderStep(o)
  BY <1>4, AcceptExact, AnswersExact, QuietExact, EndedExact DEF OrderStep, Reconcile
<1> QED
  BY <1>1, <1>2, <1>3, <1>4 DEF Next

-----------------------------------------------------------------------------
(* The other columns: what a reserve can come to is a number. *)

TraderRow == [status : {"APPROVED", "PAUSED"}, available : BOOLEAN, enabled : BOOLEAN, required : Requirements]
Figures ==
  /\ trader \in TraderRow
  /\ balance \in Int /\ changes \in 0 .. MaxChanges
  /\ withdrawal \in [state : {"NONE", "REQUESTED", "SENT"}, amount : Nat]
  /\ session \in [open : BOOLEAN, balance : Int]

LEMMA GreatestIsOne ==
  ASSUME NEW x \in Int, NEW y \in Int
  PROVE  Max({x, y}) \in Int /\ Min({x, y}) \in Int
<1>1. \E m \in {x, y} : \A n \in {x, y} : m >= n
  OBVIOUS
<1>2. \E m \in {x, y} : \A n \in {x, y} : m =< n
  OBVIOUS
<1>3. Max({x, y}) \in {x, y}
  BY <1>1 DEF Max
<1>4. Min({x, y}) \in {x, y}
  BY <1>2 DEF Min
<1> QED
  BY <1>3, <1>4

LEMMA AvailableIsNumber ==
  ASSUME Owed, Figures, NEW held \in Int
  PROVE  Available(held) \in Int
<1>1. Withdrawing \in Nat /\ trader.required \in Int
  <2>1. trader.required \in Requirements /\ Requirements \subseteq Nat
    BY TraderAssumption DEF Figures, TraderRow
  <2>2. withdrawal.amount \in Nat
    BY DEF Figures
  <2>3. trader.required \in Nat
    BY <2>1, Zenon
  <2> QED
    BY <2>2, <2>3 DEF Withdrawing
<1>2. Applying \in Nat
  <2> DEFINE amount == [o \in Orders |-> applied[o].amount]
             os == {o \in Orders : applied[o].state \in {"APPROVED", "SENT"}}
  <2>1. amount \in [Orders -> Nat] /\ os \in SUBSET Orders
    BY DEF Owed, ApplicationRow
  <2>2. Applying = Sum(amount, os)
    BY DEF Applying
  <2> HIDE DEF amount, os
  <2> QED
    BY <2>1, <2>2, OrdersFinite, SumNat
<1>3. Free(held) \in Int
  BY <1>1, <1>2 DEF Free
<1>4. Min({Free(held), trader.required}) \in Int
  BY <1>1, <1>3, GreatestIsOne
<1>5. Max({0, Min({Free(held), trader.required})}) \in Int
  BY <1>4, GreatestIsOne
<1>6. Free(held) - Locked(held) \in Int
  BY <1>3, <1>5 DEF Locked
<1> QED
  BY <1>6, GreatestIsOne DEF Available

LEMMA SettingsFigures ==
  ASSUME Figures, Settings
  PROVE  Figures'
<1>1. UNCHANGED <<balance, withdrawal, session>>
  BY DEF Settings, SetAvailability, PauseTrader, ResumeTrader, SetAssignments, SetRequired, UpdateBlock,
         work, reserve
<1>2. changes' \in 0 .. MaxChanges
  <2>1. changes < MaxChanges /\ changes' = changes + 1
    BY DEF Settings, SetAvailability, PauseTrader, ResumeTrader, SetAssignments, SetRequired,
           UpdateBlock, MayChange
  <2>2. MaxChanges \in Nat /\ changes \in 0 .. MaxChanges
    BY TraderAssumption DEF Figures
  <2> QED
    BY <2>1, <2>2
<1>3. trader' \in TraderRow
  <2>1. CASE SetAvailability \/ SetAssignments \/ ResumeTrader \/ SetRequired \/ UpdateBlock
    BY <2>1 DEF SetAvailability, SetAssignments, ResumeTrader, SetRequired, UpdateBlock, Figures, TraderRow
  <2>2. CASE PauseTrader
    <3> DEFINE mid == [trader EXCEPT !.status = "PAUSED"]
    <3>1. mid \in TraderRow
      BY DEF Figures, TraderRow
    <3>2. trader' = [mid EXCEPT !.available = FALSE]
      BY <2>2 DEF PauseTrader
    <3> HIDE DEF mid
    <3> QED
      BY <3>1, <3>2 DEF TraderRow
  <2> QED
    BY <2>1, <2>2 DEF Settings
<1> QED
  BY <1>1, <1>2, <1>3 DEF Figures

LEMMA ReserveFigures ==
  ASSUME Owed, Figures, ReserveStep
  PROVE  Figures'
<1>1. UNCHANGED <<trader, changes>>
  BY DEF ReserveStep, Deposit, BeginWithdraw, EndWithdraw, RecordWithdrawalSent, ConfirmWithdrawal,
         CloseWithdrawal, RequestApplication, ApproveApplication, EndApplication, RecordApplied,
         ConfirmApplied, FailApplied, RecordDelivery, RecordByDesk, ApproveAdjustment, ConfirmDelivery,
         FailDelivery, FundDeal, PayTrader, CancelDeal, orders
<1>2. CASE Deposit \/ BeginWithdraw \/ RecordWithdrawalSent \/ ConfirmWithdrawal \/ CloseWithdrawal
  <2>0. CASE Deposit
    BY <1>1, <2>0 DEF Deposit, Figures
  <2>1. CASE BeginWithdraw
    <3>1. [open |-> TRUE, balance |-> balance] \in [open : BOOLEAN, balance : Int]
      BY DEF Figures
    <3> QED
      BY <1>1, <2>1, <3>1 DEF BeginWithdraw, Figures
  <2>2. CASE RecordWithdrawalSent
    BY <1>1, <2>2 DEF RecordWithdrawalSent, Figures
  <2>3. CASE ConfirmWithdrawal \/ CloseWithdrawal
    <3>1. withdrawal.amount \in Nat /\ NoWithdrawal \in [state : {"NONE", "REQUESTED", "SENT"}, amount : Nat]
      BY DEF Figures, NoWithdrawal
    <3> QED
      BY <1>1, <2>3, <3>1 DEF ConfirmWithdrawal, CloseWithdrawal, Figures
  <2> QED
    BY <1>2, <2>0, <2>1, <2>2, <2>3
<1>3. CASE EndWithdraw
  <2>1. session.balance \in Int
    BY DEF Figures
  <2>2. Available(session.balance) \in Int
    BY <2>1, AvailableIsNumber
  <2>3. withdrawal' \in [state : {"NONE", "REQUESTED", "SENT"}, amount : Nat]
    BY <1>3, <2>2 DEF EndWithdraw, Figures
  <2> QED
    BY <1>1, <1>3, <2>3 DEF EndWithdraw, NoSession, Figures
<1>4. ASSUME NEW o \in Orders, ConfirmApplied(o)
      PROVE  Figures'
  <2>1. applied[o].amount \in Nat
    BY DEF Owed, ApplicationRow
  <2> QED
    BY <1>1, <1>4, <2>1 DEF ConfirmApplied, Figures
<1>5. CASE \E o \in Orders :
             \/ RequestApplication(o) \/ ApproveApplication(o) \/ EndApplication(o)
             \/ RecordApplied(o) \/ FailApplied(o)
             \/ RecordDelivery(o) \/ RecordByDesk(o) \/ ConfirmDelivery(o) \/ FailDelivery(o)
             \/ ApproveAdjustment(o) \/ FundDeal(o) \/ PayTrader(o) \/ CancelDeal(o)
  <2>1. UNCHANGED <<balance, withdrawal, session>>
    BY <1>5 DEF RequestApplication, ApproveApplication, EndApplication, RecordApplied,
                FailApplied, RecordDelivery, RecordByDesk, ApproveAdjustment, ConfirmDelivery,
                FailDelivery, FundDeal, PayTrader, CancelDeal, reserve
  <2> QED
    BY <1>1, <2>1 DEF Figures
<1> QED
  BY <1>2, <1>3, <1>4, <1>5 DEF ReserveStep

LEMMA StepFigures == Owed /\ Figures /\ [Next]_vars => Figures'
<1> SUFFICES ASSUME Owed, Figures, [Next]_vars PROVE Figures'
  OBVIOUS
<1>1. CASE Settings
  BY <1>1, SettingsFigures
<1>2. CASE ReserveStep
  BY <1>2, ReserveFigures
<1>3. CASE \/ UNCHANGED vars
           \/ \E r \in Requests : BeginAssign(r) \/ EndAssign(r) \/ CloseRequest(r)
           \/ \E o \in Orders : OrderStep(o)
  <2>1. UNCHANGED <<trader, changes, balance, withdrawal, session>>
    BY <1>3 DEF vars, BeginAssign, EndAssign, CloseRequest, OrderStep, AcceptOrder, DeclineOrder,
                ExpireOffer, ReleaseOrder, WithdrawOffer, EndHold, RunOut, Reconcile, TellDelivered,
                CompleteOrder, CancelOrder, CreateQuote, SendQuote, Lapse, EndQuote, AcceptQuote,
                AsIs, Untouched, work, reserve, settings, orders
  <2> QED
    BY <2>1 DEF Figures
<1> QED
  BY <1>1, <1>2, <1>3 DEF Next

-----------------------------------------------------------------------------
LEMMA InitExact == Init => Exact /\ Figures
<1> SUFFICES ASSUME Init PROVE Exact /\ Figures
  OBVIOUS
<1>1. In(Held) = {}
  BY DEF Init, In, Held
<1>2. UsdtOf({}) = 0
  BY InitBacked, NothingCounts
<1>3. block \in BlockRow /\ block.reserved = 0
  <2>1. Capacities \subseteq Nat
    BY TraderAssumption
  <2>2. block \in [active : {TRUE}, rate : Rates, capacity : Capacities, reserved : {0}]
    BY DEF Init
  <2>3. PICK rate \in Rates, capacity \in Capacities :
          block = [active |-> TRUE, rate |-> rate, capacity |-> capacity, reserved |-> 0]
    BY <2>2
  <2>4. capacity \in Nat
    BY <2>1
  <2> QED
    BY <2>3, <2>4 DEF BlockRow
<1>4. Exact
  BY <1>1, <1>2, <1>3 DEF Exact, BlockRow
<1>5. Figures
  <2>1. trader \in TraderRow
    BY DEF Init, TraderRow
  <2>2. balance \in Int /\ changes \in 0 .. MaxChanges
    BY OrdersFinite, TraderAssumption DEF Init
  <2>3. withdrawal \in [state : {"NONE", "REQUESTED", "SENT"}, amount : Nat]
    BY DEF Init, NoWithdrawal
  <2>4. session \in [open : BOOLEAN, balance : Int]
    BY DEF Init, NoSession
  <2> QED
    BY <2>1, <2>2, <2>3, <2>4 DEF Figures
<1> QED
  BY <1>4, <1>5

LEMMA ExactSuffices ==
  ASSUME Backed, Owed, Exact, Figures
  PROVE  HoldsAreExact
<1>1. TypeOK
  BY DEF TypeOK, Backed, Rows, States, Owed, DealRow, ApplicationRow, Exact, BlockRow, Figures, TraderRow
<1> QED
  BY <1>1 DEF HoldsAreExact, Exact

(* What a block says it holds is what its accepted and started orders      *)
(* promise, and never more than its capacity, for any requests, sizes,     *)
(* capacities, settings and number of orders; and every state is typed.    *)
THEOREM HoldsAreExactHolds == Spec => []HoldsAreExact
<1> DEFINE Inv == Backed /\ Owed /\ Exact /\ Figures
<1>1. Init => Inv
  BY InitBacked, InitOwed, InitExact
<1>2. Inv /\ [Next]_vars => Inv'
  BY StepBacked, StepOwed, StepExact, StepFigures
<1>3. Inv => HoldsAreExact
  BY ExactSuffices
<1> QED
  BY <1>1, <1>2, <1>3, PTL DEF Spec
=============================================================================
