-------------------------------- MODULE P2PProofs --------------------------------
(***************************************************************************)
(* That nobody is left holding both sides of a deal, that decisions stand  *)
(* and that no clock takes a payment, for any sum of rupees and any number *)
(* of payments.  The three are proved together: which way the escrow went  *)
(* depends on what was paid, and what may still be paid on which way the   *)
(* escrow went.                                                            *)
(***************************************************************************)
EXTENDS P2P, SumsProofs

\* Payments are numbered as they are filed, and a filed one has an amount.
Numbered ==
  /\ \E k \in 0 .. MaxPayments : {p \in Payments : pay[p] # NoPayment} = 1 .. k
  /\ \A p \in Payments : pay[p] = NoPayment \/ (pay[p].state # "NONE" /\ pay[p].amount > 0)

\* No payment is filed beyond what is due.
WithinDue == Committed <= Due

\* A cancelled trade says why, and has no payment waiting.
Ended ==
  /\ trade = "CANCELLED" <=> reason # "NONE"
  /\ trade = "CANCELLED" => In({"PROCESSING"}) = {}

\* A deal the client buys in goes on only when it is paid in full, gives the escrow back
\* only when it is cancelled, and is cancelled only unpaid; the trader's pay window is
\* not its business.
Bought ==
  dir = "BUY" =>
    /\ trade \in {"CONFIRMED", "SETTLING", "COMPLETED"} => Received = Due
    /\ release # "NONE" => trade \in {"SETTLING", "COMPLETED"}
    /\ giveBack # "NONE" => trade = "CANCELLED"
    /\ trade = "CANCELLED" => In({"COMPLETED"}) = {}
    /\ unwind = "NONE" /\ NotPaidDeal \notin picked

IInv ==
  /\ Numbered /\ WithinDue /\ Ended /\ Bought
  /\ NobodyHoldsBoth /\ DecisionStands /\ ClockTakesNoPayment

-----------------------------------------------------------------------------
(* What payments come to, of any table of them.                              *)

Table == [Payments -> [state : {"NONE", "PROCESSING", "COMPLETED", "FAILED"}, amount : 0 .. Due]]
Of(table, states) == {p \in Payments : table[p].state \in states}
Amounts(table) == [p \in Payments |-> table[p].amount]
Paid(table, states) == Sum(Amounts(table), Of(table, states))

LEMMA TableFacts ==
  ASSUME NEW table \in Table
  PROVE  IsFiniteSet(Payments) /\ Amounts(table) \in [Payments -> Nat]
<1>1. IsFiniteSet(Payments)
  BY UpTo, P2PAssumption DEF Payments
<1>2. \A p \in Payments : table[p].amount \in Nat
  BY P2PAssumption DEF Table
<1> QED BY <1>1, <1>2 DEF Amounts

LEMMA PaidNat == ASSUME NEW table \in Table, NEW states PROVE Paid(table, states) \in Nat
<1>1. Of(table, states) \in SUBSET Payments
  BY DEF Of
<1> QED BY <1>1, TableFacts, SumNat DEF Paid

\* A sum over two sets of states is the sum over each.
LEMMA PaidApart ==
  ASSUME NEW table \in Table, NEW some, NEW others, some \cap others = {}
  PROVE  Paid(table, some \cup others) = Paid(table, some) + Paid(table, others)
<1> PICK S \in SUBSET Payments : S = Of(table, some)
  BY DEF Of
<1> PICK R \in SUBSET Payments : R = Of(table, others)
  BY DEF Of
<1>1. S \cap R = {} /\ Of(table, some \cup others) = S \cup R
  BY DEF Of
<1>2. Sum(Amounts(table), S \cup R) = Sum(Amounts(table), S) + Sum(Amounts(table), R)
  BY <1>1, TableFacts, SumApart
<1> QED BY <1>1, <1>2 DEF Paid

\* A payment in one of the states is part of the sum.
LEMMA PaidAtLeast ==
  ASSUME NEW table \in Table, NEW states, NEW p \in Of(table, states)
  PROVE  Paid(table, states) >= table[p].amount
<1> PICK S \in SUBSET Payments : S = Of(table, states) \ {p}
  BY DEF Of
<1>1. p \in Payments /\ {p} \in SUBSET Payments /\ S \cap {p} = {} /\ Of(table, states) = S \cup {p}
  BY DEF Of
<1>2. Sum(Amounts(table), S \cup {p}) = Sum(Amounts(table), S) + Sum(Amounts(table), {p})
  BY <1>1, TableFacts, SumApart
<1>3. Sum(Amounts(table), {p}) = table[p].amount
  <2>1. Sum(Amounts(table), {p}) = Amounts(table)[p]
    BY <1>1, TableFacts, SumOne
  <2> QED BY <1>1, <2>1 DEF Amounts
<1>4. Sum(Amounts(table), S) \in Nat /\ Sum(Amounts(table), {p}) \in Nat
  BY <1>1, TableFacts, SumNat
<1>5. table[p].amount \in Nat
  BY <1>1, P2PAssumption DEF Table
<1>6. Paid(table, states) = Sum(Amounts(table), S) + table[p].amount
  BY <1>1, <1>2, <1>3 DEF Paid
<1> QED BY <1>4, <1>5, <1>6

\* Tables that agree on the payments in some states have the same sum.
LEMMA PaidSame ==
  ASSUME NEW table \in Table, NEW other \in Table, NEW states,
         \A p \in Payments : table[p].state \in states \/ other[p].state \in states => other[p] = table[p]
  PROVE  Paid(other, states) = Paid(table, states)
<1> PICK S \in SUBSET Payments : S = Of(table, states)
  BY DEF Of
<1>1. Of(other, states) = S
  BY DEF Of
<1>2. \A p \in S : Amounts(other)[p] = Amounts(table)[p]
  BY DEF Amounts, Of
<1>3. Sum(Amounts(other), S) = Sum(Amounts(table), S)
  BY <1>2, SumSame
<1> QED BY <1>1, <1>3 DEF Paid

\* A payment that enters some states adds its amount to their sum.
LEMMA PaidEnters ==
  ASSUME NEW table \in Table, NEW other \in Table, NEW states, NEW p \in Payments,
         \A q \in Payments \ {p} : other[q] = table[q],
         table[p].state \notin states, other[p].state \in states
  PROVE  Paid(other, states) = Paid(table, states) + other[p].amount
<1> PICK S \in SUBSET Payments : S = Of(table, states)
  BY DEF Of
<1>1. Of(other, states) = S \cup {p} /\ S \cap {p} = {} /\ {p} \in SUBSET Payments
  BY DEF Of
<1>2. Sum(Amounts(other), S \cup {p}) = Sum(Amounts(other), S) + Sum(Amounts(other), {p})
  BY <1>1, TableFacts, SumApart
<1>3. Sum(Amounts(other), {p}) = other[p].amount
  <2>1. Sum(Amounts(other), {p}) = Amounts(other)[p]
    BY TableFacts, SumOne
  <2> QED BY <2>1 DEF Amounts
<1>4. Sum(Amounts(other), S) = Sum(Amounts(table), S)
  <2>1. \A q \in S : Amounts(table)[q] = Amounts(other)[q]
    BY DEF Amounts, Of
  <2> QED BY <2>1, SumSame
<1> QED BY <1>1, <1>2, <1>3, <1>4 DEF Paid

\* The model's sums are these.
LEMMA SumsArePaid ==
  /\ Received = Paid(pay, {"COMPLETED"}) /\ Committed = Paid(pay, {"PROCESSING", "COMPLETED"})
  /\ Received' = Paid(pay', {"COMPLETED"}) /\ Committed' = Paid(pay', {"PROCESSING", "COMPLETED"})
  /\ \A states : In(states) = Of(pay, states) /\ In(states)' = Of(pay', states)
<1>1. \A states : In(states) = Of(pay, states) /\ In(states)' = Of(pay', states)
  BY DEF In, Of
<1>2. \A ps : PaidBy(ps) = Sum(Amounts(pay), ps) /\ PaidBy(ps)' = Sum(Amounts(pay'), ps)
  BY DEF PaidBy, Amounts
<1> QED BY <1>1, <1>2 DEF Received, Committed, Paid, PaidBy, Amounts

LEMMA SumsNat ==
  ASSUME pay \in Table
  PROVE  /\ Received \in Nat /\ Committed \in Nat
         /\ Paid(pay, {"PROCESSING"}) \in Nat /\ Committed = Paid(pay, {"PROCESSING"}) + Received
<1>1. {"PROCESSING", "COMPLETED"} = {"PROCESSING"} \cup {"COMPLETED"}
  OBVIOUS
<1>2. Paid(pay, {"PROCESSING"} \cup {"COMPLETED"}) = Paid(pay, {"PROCESSING"}) + Paid(pay, {"COMPLETED"})
  BY PaidApart
<1> QED BY <1>1, <1>2, PaidNat, SumsArePaid

\* A deal received in full has no payment waiting, and one with a payment confirmed
\* received something.
LEMMA FullIsFull ==
  ASSUME pay \in Table, Numbered, WithinDue, Received = Due
  PROVE  In({"PROCESSING"}) = {}
<1> SUFFICES ASSUME NEW p \in In({"PROCESSING"}) PROVE FALSE
  OBVIOUS
<1>1. p \in Payments /\ pay[p].amount > 0 /\ pay[p].amount \in Nat /\ p \in Of(pay, {"PROCESSING"})
  BY P2PAssumption DEF In, Of, Numbered, NoPayment, Table
<1>2. Paid(pay, {"PROCESSING"}) >= pay[p].amount
  BY <1>1, PaidAtLeast
<1> QED BY <1>1, <1>2, SumsNat, P2PAssumption DEF WithinDue

LEMMA SomethingIsSomething ==
  ASSUME pay \in Table, Numbered, Received = 0
  PROVE  In({"COMPLETED"}) = {}
<1> SUFFICES ASSUME NEW p \in In({"COMPLETED"}) PROVE FALSE
  OBVIOUS
<1>1. p \in Payments /\ pay[p].amount > 0 /\ pay[p].amount \in Nat /\ p \in Of(pay, {"COMPLETED"})
  BY P2PAssumption DEF In, Of, Numbered, NoPayment, Table
<1>2. Received >= pay[p].amount
  BY <1>1, PaidAtLeast, SumsArePaid
<1> QED BY <1>1, <1>2

\* Nothing confirmed, nothing received.
LEMMA NothingIsNothing ==
  ASSUME In({"COMPLETED"}) = {} PROVE Received = 0
  BY SumEmpty, SumsArePaid DEF Received, PaidBy

-----------------------------------------------------------------------------
(* The three things that happen to payments.                                 *)

\* What every change of the payments keeps.
Kept == pay' \in Table /\ Numbered' /\ WithinDue' /\ Received' <= Due /\ Received' \in Nat

LEMMA ReceivedWithin ==
  ASSUME pay' \in Table, WithinDue'
  PROVE  Received' <= Due /\ Received' \in Nat
<1> PICK table \in Table : table = pay'
  OBVIOUS
<1>1. {"PROCESSING", "COMPLETED"} = {"PROCESSING"} \cup {"COMPLETED"}
  OBVIOUS
<1>2. Paid(table, {"PROCESSING"} \cup {"COMPLETED"}) = Paid(table, {"PROCESSING"}) + Paid(table, {"COMPLETED"})
  BY PaidApart
<1>3. Paid(table, {"PROCESSING"}) \in Nat /\ Paid(table, {"COMPLETED"}) \in Nat
  BY PaidNat
<1>4. Received' = Paid(table, {"COMPLETED"}) /\ Committed' = Paid(table, {"PROCESSING", "COMPLETED"})
  BY SumsArePaid
<1>5. Committed' <= Due
  BY DEF WithinDue
<1> QED BY <1>1, <1>2, <1>3, <1>4, <1>5, P2PAssumption

LEMMA SamePayments ==
  ASSUME pay \in Table, Numbered, WithinDue, pay' = pay
  PROVE  Kept /\ Received' = Received /\ \A states : In(states)' = In(states)
<1>1. \A states : In(states)' = In(states)
  BY DEF In
<1>2. Received' = Received /\ Committed' = Committed
  BY SumsArePaid
<1>3. Numbered' /\ WithinDue'
  BY <1>2 DEF Numbered, WithinDue
<1> QED BY <1>1, <1>2, <1>3, ReceivedWithin DEF Kept

\* A payment is filed: the next one.
LEMMA Filed ==
  ASSUME pay \in Table, Numbered, WithinDue, NEW p \in Payments, NEW n, NewPayment(p, n)
  PROVE  /\ Kept /\ Received' = Received
         /\ pay[p] = NoPayment /\ pay'[p].state = "PROCESSING"
         /\ \A q \in Payments \ {p} : pay'[q] = pay[q]
<1> PICK k \in 0 .. MaxPayments : {q \in Payments : pay[q] # NoPayment} = 1 .. k
  BY DEF Numbered
<1>1. p = k + 1
  <2>1. {0} \cup {q \in Payments : pay[q] # NoPayment} = 0 .. k
    BY P2PAssumption
  <2>2. Max(0 .. k) = k
    <3>1. k \in 0 .. k /\ \A y \in 0 .. k : k >= y
      BY P2PAssumption
    <3>2. \A x \in 0 .. k : (\A y \in 0 .. k : x >= y) => x = k
      BY P2PAssumption
    <3> QED BY <3>1, <3>2 DEF Max
  <2> QED BY <2>1, <2>2 DEF NewPayment
<1>2. pay[p] = NoPayment
  BY <1>1, P2PAssumption
<1>3. n \in 1 .. Due - Committed /\ Committed \in Nat /\ Due \in Nat
  BY SumsNat, P2PAssumption DEF NewPayment
<1> DEFINE row == [state |-> "PROCESSING", amount |-> n]
<1>4. n \in 1 .. Due
  BY <1>3
<1>5. row \in [state : {"NONE", "PROCESSING", "COMPLETED", "FAILED"}, amount : 0 .. Due]
  BY <1>4, P2PAssumption
<1>6. pay' = [pay EXCEPT ![p] = row]
  BY DEF NewPayment
<1> HIDE DEF row
<1>7. pay' \in Table /\ pay'[p] = row /\ \A q \in Payments \ {p} : pay'[q] = pay[q]
  BY <1>5, <1>6 DEF Table
<1>8. row.state = "PROCESSING" /\ row.amount = n /\ row # NoPayment
  BY DEF row, NoPayment
<1> PICK table \in Table : table = pay'
  BY <1>7
<1>9. pay[p].state = "NONE" /\ pay[p].amount = 0
  BY <1>2 DEF NoPayment
<1>10. Committed' = Committed + n
  <2>1. Paid(table, {"PROCESSING", "COMPLETED"}) = Paid(pay, {"PROCESSING", "COMPLETED"}) + table[p].amount
    BY <1>7, <1>8, <1>9, PaidEnters
  <2> QED BY <1>7, <1>8, <2>1, SumsArePaid
<1>11. Received' = Received
  <2>1. Paid(table, {"COMPLETED"}) = Paid(pay, {"COMPLETED"})
    BY <1>7, <1>8, <1>9, PaidSame
  <2> QED BY <2>1, SumsArePaid
<1>12. Numbered'
  <2>1. {q \in Payments : pay'[q] # NoPayment} = 1 .. k + 1
    <3>1. \A q \in Payments : q \in 1 .. k <=> pay[q] # NoPayment
      OBVIOUS
    <3>2. \A q \in Payments : pay'[q] # NoPayment <=> q \in 1 .. k \/ q = k + 1
      BY <1>1, <1>7, <1>8, <3>1
    <3>3. k + 1 \in Payments /\ k \in Nat
      BY <1>1, P2PAssumption
    <3>4. 1 .. k + 1 \subseteq Payments
      BY <3>3, P2PAssumption DEF Payments
    <3>5. \A q \in Payments : q \in 1 .. k + 1 <=> q \in 1 .. k \/ q = k + 1
      BY <3>3, P2PAssumption DEF Payments
    <3> QED BY <3>2, <3>4, <3>5
  <2>2. k + 1 \in 0 .. MaxPayments
    BY <1>1, P2PAssumption DEF Payments
  <2>3. \A q \in Payments : pay'[q] = NoPayment \/ (pay'[q].state # "NONE" /\ pay'[q].amount > 0)
    <3>1. pay'[p].state # "NONE" /\ pay'[p].amount > 0
      BY <1>4, <1>7, <1>8
    <3> QED BY <1>7, <3>1 DEF Numbered
  <2> QED BY <2>1, <2>2, <2>3 DEF Numbered
<1>13. WithinDue'
  BY <1>3, <1>10 DEF WithinDue
<1> QED BY <1>2, <1>7, <1>8, <1>11, <1>12, <1>13, ReceivedWithin DEF Kept

\* Only states of filed payments change: they keep their numbers.
LEMMA StatesOnly ==
  ASSUME pay \in Table, Numbered, pay' \in Table,
         \A p \in Payments : pay'[p] = pay[p] \/ (pay[p].state # "NONE" /\ pay'[p].state # "NONE"
                                                 /\ pay'[p].amount = pay[p].amount)
  PROVE  Numbered'
<1>1. \A p \in Payments : pay'[p] # NoPayment <=> pay[p] # NoPayment
  BY DEF NoPayment
<1>2. {p \in Payments : pay'[p] # NoPayment} = {p \in Payments : pay[p] # NoPayment}
  BY <1>1
<1>3. \A p \in Payments : pay'[p] = NoPayment \/ (pay'[p].state # "NONE" /\ pay'[p].amount > 0)
  BY DEF Numbered, NoPayment
<1> QED BY <1>2, <1>3 DEF Numbered

\* What the answer to a waiting payment does to the sums.
LEMMA AnsweredSums ==
  ASSUME NEW table \in Table, NEW other \in Table, NEW p \in Payments,
         \A q \in Payments \ {p} : other[q] = table[q],
         table[p].state = "PROCESSING", other[p].amount = table[p].amount
  PROVE  /\ other[p].state = "COMPLETED" =>
              /\ Paid(other, {"COMPLETED"}) = Paid(table, {"COMPLETED"}) + table[p].amount
              /\ Paid(other, {"PROCESSING", "COMPLETED"}) = Paid(table, {"PROCESSING", "COMPLETED"})
         /\ other[p].state = "FAILED" =>
              /\ Paid(other, {"COMPLETED"}) = Paid(table, {"COMPLETED"})
              /\ Paid(table, {"PROCESSING", "COMPLETED"})
                   = Paid(other, {"PROCESSING", "COMPLETED"}) + table[p].amount
<1>1. \A q \in Payments \ {p} : table[q] = other[q]
  OBVIOUS
<1>2. table[p].amount \in Nat
  BY P2PAssumption DEF Table
<1>3. CASE other[p].state = "COMPLETED"
  <2>1. Paid(other, {"COMPLETED"}) = Paid(table, {"COMPLETED"}) + other[p].amount
    BY <1>3, PaidEnters
  <2>2. Paid(table, {"PROCESSING"}) = Paid(other, {"PROCESSING"}) + table[p].amount
    BY <1>1, <1>3, PaidEnters
  <2>3. {"PROCESSING", "COMPLETED"} = {"PROCESSING"} \cup {"COMPLETED"}
    OBVIOUS
  <2>4. Paid(other, {"PROCESSING"} \cup {"COMPLETED"}) = Paid(other, {"PROCESSING"}) + Paid(other, {"COMPLETED"})
    BY PaidApart
  <2>5. Paid(table, {"PROCESSING"} \cup {"COMPLETED"}) = Paid(table, {"PROCESSING"}) + Paid(table, {"COMPLETED"})
    BY PaidApart
  <2>6. Paid(other, {"PROCESSING"}) \in Nat /\ Paid(table, {"COMPLETED"}) \in Nat
    BY PaidNat
  <2>7. Paid(other, {"PROCESSING"} \cup {"COMPLETED"}) = Paid(table, {"PROCESSING"} \cup {"COMPLETED"})
    BY <1>2, <2>1, <2>2, <2>4, <2>5, <2>6
  <2> QED BY <1>3, <2>1, <2>3, <2>7
<1>4. CASE other[p].state = "FAILED"
  <2>1. Paid(other, {"COMPLETED"}) = Paid(table, {"COMPLETED"})
    BY <1>4, PaidSame
  <2>2. Paid(table, {"PROCESSING", "COMPLETED"}) = Paid(other, {"PROCESSING", "COMPLETED"}) + table[p].amount
    BY <1>1, <1>4, PaidEnters
  <2> QED BY <1>4, <2>1, <2>2
<1> QED BY <1>3, <1>4

LEMMA AnsweredKeeps ==
  ASSUME pay \in Table, Numbered, WithinDue, NEW p \in Payments, pay[p].state = "PROCESSING",
         NEW table \in Table, table = pay',
         \A q \in Payments \ {p} : table[q] = pay[q],
         table[p].state \in {"COMPLETED", "FAILED"}, table[p].amount = pay[p].amount
  PROVE  /\ Kept
         /\ table[p].state = "FAILED" => Received' = Received
         /\ table[p].state = "COMPLETED" => Received' = Received + pay[p].amount
<1>1. pay[p].amount \in Nat
  BY P2PAssumption DEF Table
<1>2. /\ table[p].state = "COMPLETED" =>
           /\ Paid(table, {"COMPLETED"}) = Paid(pay, {"COMPLETED"}) + pay[p].amount
           /\ Paid(table, {"PROCESSING", "COMPLETED"}) = Paid(pay, {"PROCESSING", "COMPLETED"})
      /\ table[p].state = "FAILED" =>
           /\ Paid(table, {"COMPLETED"}) = Paid(pay, {"COMPLETED"})
           /\ Paid(pay, {"PROCESSING", "COMPLETED"})
                = Paid(table, {"PROCESSING", "COMPLETED"}) + pay[p].amount
  BY AnsweredSums
<1>3. Paid(table, {"PROCESSING", "COMPLETED"}) \in Nat
  BY PaidNat
<1>4. Received' = Paid(table, {"COMPLETED"}) /\ Committed' = Paid(table, {"PROCESSING", "COMPLETED"})
  BY SumsArePaid
<1>5. Numbered'
  BY StatesOnly
<1>6. WithinDue'
  BY <1>1, <1>2, <1>3, <1>4, SumsArePaid, P2PAssumption DEF WithinDue
<1>7. Kept
  BY <1>5, <1>6, ReceivedWithin DEF Kept
<1> QED BY <1>2, <1>4, <1>7, SumsArePaid

\* A waiting payment is confirmed or fails.
LEMMA Answered ==
  ASSUME pay \in Table, Numbered, WithinDue, NEW p \in Payments, pay[p].state = "PROCESSING",
         NEW to \in {"COMPLETED", "FAILED"}, pay' = [pay EXCEPT ![p].state = to]
  PROVE  /\ Kept /\ pay'[p].state = to
         /\ \A q \in Payments \ {p} : pay'[q] = pay[q]
         /\ to = "FAILED" => Received' = Received
         /\ to = "COMPLETED" => Received' = Received + pay[p].amount
<1> PICK row : row = [pay[p] EXCEPT !.state = to]
  OBVIOUS
<1>1. pay[p] \in [state : {"NONE", "PROCESSING", "COMPLETED", "FAILED"}, amount : 0 .. Due]
  BY DEF Table
<1>2. row \in [state : {"NONE", "PROCESSING", "COMPLETED", "FAILED"}, amount : 0 .. Due]
      /\ row.state = to /\ row.amount = pay[p].amount
  BY <1>1
<1>3. pay' = [pay EXCEPT ![p] = row]
  BY DEF Table
<1>4. pay' \in Table /\ pay'[p] = row /\ \A q \in Payments \ {p} : pay'[q] = pay[q]
  BY <1>2, <1>3 DEF Table
<1> PICK table \in Table : table = pay'
  BY <1>4
<1>5. /\ table[p].state = to /\ table[p].amount = pay[p].amount
      /\ \A q \in Payments \ {p} : table[q] = pay[q]
  BY <1>2, <1>4
<1>6. /\ Kept
      /\ table[p].state = "FAILED" => Received' = Received
      /\ table[p].state = "COMPLETED" => Received' = Received + pay[p].amount
  BY <1>5, AnsweredKeeps, ZenonT(60)
<1> QED BY <1>4, <1>5, <1>6

\* A trade ends: what waits fails with it.
LEMMA EndFails ==
  ASSUME pay \in Table, Numbered, WithinDue, NEW why, EndTrade(why)
  PROVE  /\ Kept /\ Received' = Received /\ In({"PROCESSING"})' = {}
         /\ \A p \in Payments : IF pay[p].state = "PROCESSING" THEN pay'[p].state = "FAILED" ELSE pay'[p] = pay[p]
<1>1. pay' = [p \in Payments |-> IF pay[p].state = "PROCESSING" THEN [pay[p] EXCEPT !.state = "FAILED"] ELSE pay[p]]
  BY DEF EndTrade
<1>2. ASSUME NEW p \in Payments
      PROVE  /\ pay'[p] \in [state : {"NONE", "PROCESSING", "COMPLETED", "FAILED"}, amount : 0 .. Due]
             /\ pay'[p].amount = pay[p].amount
             /\ IF pay[p].state = "PROCESSING" THEN pay'[p].state = "FAILED" ELSE pay'[p] = pay[p]
  <2>1. pay[p] \in [state : {"NONE", "PROCESSING", "COMPLETED", "FAILED"}, amount : 0 .. Due]
    BY DEF Table
  <2>2. pay'[p] = IF pay[p].state = "PROCESSING" THEN [pay[p] EXCEPT !.state = "FAILED"] ELSE pay[p]
    BY <1>1
  <2> QED BY <2>1, <2>2
<1>3. pay' \in Table
  BY <1>1, <1>2 DEF Table
<1> PICK table \in Table : table = pay'
  BY <1>3
<1>4. Numbered'
  BY <1>2, <1>3, StatesOnly
<1>5. \A p \in Payments : table[p].state # "PROCESSING"
  BY <1>2
<1>6. Received' = Received
  <2>1. Paid(table, {"COMPLETED"}) = Paid(pay, {"COMPLETED"})
    BY <1>2, PaidSame
  <2> QED BY <2>1, SumsArePaid
<1>7. Committed' = Received'
  <2>1. Of(table, {"PROCESSING", "COMPLETED"}) = Of(table, {"COMPLETED"})
    BY <1>5 DEF Of
  <2> QED BY <2>1, SumsArePaid DEF Paid
<1>8. WithinDue'
  BY <1>6, <1>7, SumsNat, P2PAssumption DEF WithinDue
<1>9. In({"PROCESSING"})' = {}
  BY <1>5 DEF In
<1> QED BY <1>2, <1>3, <1>4, <1>6, <1>8, <1>9, ReceivedWithin DEF Kept

-----------------------------------------------------------------------------
(* The invariant holds at first, and each step keeps it.                     *)

\* What the steps below use of the invariant and of the payments.
LEMMA Have ==
  ASSUME IInv
  PROVE  /\ TypeOK /\ pay \in Table /\ Numbered /\ WithinDue
         /\ Received \in Nat /\ Received <= Due /\ Due \in Nat /\ Due > 0
         /\ Received = Due => In({"PROCESSING"}) = {}
         /\ Received = 0 <=> In({"COMPLETED"}) = {}
         /\ Underway <=> (In({"PROCESSING"}) # {} \/ In({"COMPLETED"}) # {})
<1>1. pay \in Table
  BY DEF IInv, NobodyHoldsBoth, TypeOK, Table
<1>2. Received <= Due
  BY <1>1, SumsNat, P2PAssumption DEF IInv, WithinDue
<1>3. Underway <=> (In({"PROCESSING"}) # {} \/ In({"COMPLETED"}) # {})
  BY DEF Underway, In
<1> QED BY <1>1, <1>2, <1>3, SumsNat, FullIsFull, SomethingIsSomething, NothingIsNothing, P2PAssumption
       DEF IInv, NobodyHoldsBoth

LEMMA Unmoved ==
  ASSUME IInv, pay' = pay
  PROVE  /\ Kept /\ Received' = Received
         /\ In({"PROCESSING"})' = In({"PROCESSING"}) /\ In({"COMPLETED"})' = In({"COMPLETED"})
         /\ Underway' = Underway
<1>1. Kept /\ Received' = Received /\ \A states : In(states)' = In(states)
  BY Have, SamePayments
<1>2. Underway' = Underway
  BY <1>1 DEF Underway
<1> QED BY <1>1, <1>2

\* The parts of the invariant that speak of the deal, one by one.
LEMMA Parts ==
  ASSUME TypeOK', Kept, Ended', Bought',
         (release' # "NONE" => Received' = Due /\ giveBack' = "NONE"),
         (giveBack' # "NONE" => ~Underway'),
         DecisionStands', ClockTakesNoPayment'
  PROVE  IInv'
  BY DEF IInv, NobodyHoldsBoth, Kept

LEMMA InitHolds == Init => IInv
<1> SUFFICES ASSUME Init PROVE IInv
  OBVIOUS
<1>1. /\ NoPayment \in [state : {"NONE", "PROCESSING", "COMPLETED", "FAILED"}, amount : 0 .. Due]
      /\ NoPayment.state = "NONE"
  BY P2PAssumption DEF NoPayment
<1>2. pay \in Table /\ \A p \in Payments : pay[p] = NoPayment /\ dispute[p] = "NONE"
  BY <1>1 DEF Init, Table
<1>3. TypeOK
  BY <1>2 DEF Init, TypeOK, Table
<1>4. In({"PROCESSING"}) = {} /\ In({"COMPLETED"}) = {} /\ In({"PROCESSING", "COMPLETED"}) = {} /\ ~Underway
  BY <1>1, <1>2 DEF In, Underway
<1>5. Numbered
  <2>1. {p \in Payments : pay[p] # NoPayment} = 1 .. 0 /\ 0 \in 0 .. MaxPayments
    BY <1>2, P2PAssumption
  <2> QED BY <1>2, <2>1 DEF Numbered
<1>6. WithinDue
  BY <1>4, SumEmpty, P2PAssumption DEF WithinDue, Committed, PaidBy
<1>7. Ended /\ Bought /\ DecisionStands /\ ClockTakesNoPayment
  BY <1>2, <1>4 DEF Init, Ended, Bought, DecisionStands, ClockTakesNoPayment
<1> QED BY <1>3, <1>4, <1>5, <1>6, <1>7 DEF IInv, NobodyHoldsBoth, Init

LEMMA FundKeeps == ASSUME IInv, Fund PROVE IInv'
<1>1. TypeOK /\ pay' = pay
  BY Have DEF Fund
<1>2. TypeOK'
  BY <1>1 DEF Fund, TypeOK, escrow
<1>3. Ended' /\ Bought' /\ DecisionStands' /\ ClockTakesNoPayment'
  BY <1>1, Unmoved DEF Fund, IInv, Ended, Bought, DecisionStands, ClockTakesNoPayment, escrow, Payments
<1> QED BY <1>1, <1>2, <1>3, Unmoved, Parts DEF Fund, IInv, NobodyHoldsBoth, escrow

\* advanceTrade changes a trade only once it is paid in full.
LEMMA AdvancedSays ==
  ASSUME trade' = Advanced
  PROVE  trade' = trade \/ (trade = "DETECTED" /\ trade' = "CONFIRMED" /\ Received' = Due)
  BY DEF Advanced


LEMMA StrangersRupeesKeeps == ASSUME IInv, NEW p \in Payments, StrangersRupees(p) PROVE IInv'
<1>1. TypeOK /\ pay' = pay
  BY Have DEF StrangersRupees
<1>2. TypeOK'
  BY <1>1 DEF StrangersRupees, TypeOK, escrow
<1>3. Ended'
  BY <1>1, Have, Unmoved DEF StrangersRupees, IInv, Ended, escrow
<1>4. Bought'
  BY <1>1, Have, Unmoved DEF StrangersRupees, IInv, NobodyHoldsBoth, Bought, escrow
<1>5. (release' # "NONE" => Received' = Due /\ giveBack' = "NONE") /\ (giveBack' # "NONE" => ~Underway')
  BY <1>1, Have, Unmoved DEF StrangersRupees, IInv, NobodyHoldsBoth, Bought, escrow
<1>6. DecisionStands' /\ ClockTakesNoPayment'
  BY <1>1, Have, Unmoved DEF StrangersRupees, IInv, DecisionStands, ClockTakesNoPayment, escrow
<1> QED BY <1>1, <1>2, <1>3, <1>4, <1>5, <1>6, Unmoved, Parts

LEMMA OpenDisputeKeeps == ASSUME IInv, NEW p \in Payments, OpenDispute(p) PROVE IInv'
<1>1. TypeOK /\ pay' = pay
  BY Have DEF OpenDispute
<1>2. TypeOK'
  BY <1>1 DEF OpenDispute, TypeOK, escrow, Waiting
<1>3. Ended'
  BY <1>1, Have, Unmoved DEF OpenDispute, IInv, Ended, escrow, Waiting
<1>4. Bought'
  BY <1>1, Have, Unmoved DEF OpenDispute, IInv, NobodyHoldsBoth, Bought, escrow, Waiting
<1>5. (release' # "NONE" => Received' = Due /\ giveBack' = "NONE") /\ (giveBack' # "NONE" => ~Underway')
  BY <1>1, Have, Unmoved DEF OpenDispute, IInv, NobodyHoldsBoth, Bought, escrow, Waiting
<1>6. DecisionStands' /\ ClockTakesNoPayment'
  BY <1>1, Have, Unmoved DEF OpenDispute, IInv, DecisionStands, ClockTakesNoPayment, escrow, Waiting
<1> QED BY <1>1, <1>2, <1>3, <1>4, <1>5, <1>6, Unmoved, Parts

LEMMA SelectKeeps == ASSUME IInv, Select PROVE IInv'
<1>1. TypeOK /\ pay' = pay
  BY Have DEF Select
<1>2. TypeOK'
  BY <1>1 DEF Select, TypeOK, escrow, Unpaid, NotPaid, Unanswered, Hold
<1>3. Ended'
  BY <1>1, Have, Unmoved DEF Select, IInv, Ended, escrow, Unpaid, NotPaid, Unanswered, Hold
<1>4. Bought'
  <2>1. UnpaidDeal # NotPaidDeal /\ \A p \in Payments : Receipt(p) # NotPaidDeal
    BY DEF UnpaidDeal, NotPaidDeal, Receipt
  <2>2. dir = "BUY" => NotPaidDeal \notin picked'
    BY <2>1 DEF Select, NotPaid
  <2>3. UNCHANGED <<dir, trade, release, giveBack, unwind>>
    BY DEF Select, escrow
  <2> QED BY <1>1, <2>2, <2>3, Have, Unmoved DEF IInv, Bought
<1>5. (release' # "NONE" => Received' = Due /\ giveBack' = "NONE") /\ (giveBack' # "NONE" => ~Underway')
  BY <1>1, Have, Unmoved DEF Select, IInv, NobodyHoldsBoth, Bought, escrow, Unpaid, NotPaid, Unanswered, Hold
<1>6. DecisionStands' /\ ClockTakesNoPayment'
  BY <1>1, Have, Unmoved DEF Select, IInv, DecisionStands, ClockTakesNoPayment, escrow, Unpaid, NotPaid, Unanswered, Hold
<1> QED BY <1>1, <1>2, <1>3, <1>4, <1>5, <1>6, Unmoved, Parts

LEMMA SkipKeeps == ASSUME IInv, NEW x, Skip(x) PROVE IInv'
<1>1. TypeOK /\ pay' = pay
  BY Have DEF Skip
<1>2. TypeOK'
  BY <1>1 DEF Skip, TypeOK, escrow
<1>3. Ended'
  BY <1>1, Have, Unmoved DEF Skip, IInv, Ended, escrow
<1>4. Bought'
  BY <1>1, Have, Unmoved DEF Skip, IInv, NobodyHoldsBoth, Bought, escrow
<1>5. (release' # "NONE" => Received' = Due /\ giveBack' = "NONE") /\ (giveBack' # "NONE" => ~Underway')
  BY <1>1, Have, Unmoved DEF Skip, IInv, NobodyHoldsBoth, Bought, escrow
<1>6. DecisionStands' /\ ClockTakesNoPayment'
  BY <1>1, Have, Unmoved DEF Skip, IInv, DecisionStands, ClockTakesNoPayment, escrow
<1> QED BY <1>1, <1>2, <1>3, <1>4, <1>5, <1>6, Unmoved, Parts

LEMMA MissPayWindowKeeps == ASSUME IInv, MissPayWindow PROVE IInv'
<1>1. TypeOK /\ pay' = pay
  BY Have DEF MissPayWindow
<1>2. TypeOK'
  BY <1>1 DEF MissPayWindow, TypeOK, escrow, Unwound, StillNotPaid, Live
<1>3. Ended'
  BY <1>1, Have, Unmoved DEF MissPayWindow, IInv, Ended, escrow, Unwound, StillNotPaid, Live
<1>4. Bought'
  BY <1>1, Have, Unmoved DEF MissPayWindow, IInv, NobodyHoldsBoth, Bought, escrow, Unwound, StillNotPaid, Live
<1>5. (release' # "NONE" => Received' = Due /\ giveBack' = "NONE") /\ (giveBack' # "NONE" => ~Underway')
  BY <1>1, Have, Unmoved DEF MissPayWindow, IInv, NobodyHoldsBoth, Bought, escrow, Unwound, StillNotPaid, Live
<1>6. DecisionStands' /\ ClockTakesNoPayment'
  BY <1>1, Have, Unmoved DEF MissPayWindow, IInv, DecisionStands, ClockTakesNoPayment, escrow, Unwound, StillNotPaid, Live
<1> QED BY <1>1, <1>2, <1>3, <1>4, <1>5, <1>6, Unmoved, Parts

LEMMA ReceiptOverdueKeeps == ASSUME IInv, NEW p \in Payments, ReceiptOverdue(p) PROVE IInv'
<1>1. TypeOK /\ pay' = pay
  BY Have DEF ReceiptOverdue
<1>2. TypeOK'
  BY <1>1 DEF ReceiptOverdue, TypeOK, escrow
<1>3. Ended'
  BY <1>1, Have, Unmoved DEF ReceiptOverdue, IInv, Ended, escrow
<1>4. Bought'
  BY <1>1, Have, Unmoved DEF ReceiptOverdue, IInv, NobodyHoldsBoth, Bought, escrow
<1>5. (release' # "NONE" => Received' = Due /\ giveBack' = "NONE") /\ (giveBack' # "NONE" => ~Underway')
  BY <1>1, Have, Unmoved DEF ReceiptOverdue, IInv, NobodyHoldsBoth, Bought, escrow
<1>6. DecisionStands' /\ ClockTakesNoPayment'
  BY <1>1, Have, Unmoved DEF ReceiptOverdue, IInv, DecisionStands, ClockTakesNoPayment, escrow
<1> QED BY <1>1, <1>2, <1>3, <1>4, <1>5, <1>6, Unmoved, Parts

LEMMA PlanReleaseKeeps == ASSUME IInv, PlanRelease PROVE IInv'
<1>1. TypeOK /\ pay' = pay
  BY Have DEF PlanRelease
<1>2. TypeOK'
  BY <1>1 DEF PlanRelease, TypeOK, escrow, DeliveredInFull
<1>3. Ended'
  BY <1>1, Have, Unmoved DEF PlanRelease, IInv, Ended, escrow, DeliveredInFull
<1>4. Bought'
  BY <1>1, Have, Unmoved DEF PlanRelease, IInv, NobodyHoldsBoth, Bought, escrow, DeliveredInFull
<1>5. (release' # "NONE" => Received' = Due /\ giveBack' = "NONE") /\ (giveBack' # "NONE" => ~Underway')
  BY <1>1, Have, Unmoved DEF PlanRelease, IInv, NobodyHoldsBoth, Bought, escrow, DeliveredInFull
<1>6. DecisionStands' /\ ClockTakesNoPayment'
  BY <1>1, Have, Unmoved DEF PlanRelease, IInv, DecisionStands, ClockTakesNoPayment, escrow, DeliveredInFull
<1> QED BY <1>1, <1>2, <1>3, <1>4, <1>5, <1>6, Unmoved, Parts

LEMMA SettleReleaseKeeps == ASSUME IInv, SettleRelease PROVE IInv'
<1>1. TypeOK /\ pay' = pay
  BY Have DEF SettleRelease
<1>2. TypeOK'
  BY <1>1 DEF SettleRelease, TypeOK, escrow
<1>3. Ended'
  BY <1>1, Have, Unmoved DEF SettleRelease, IInv, Ended, Bought
<1>4. Bought'
  BY <1>1, Have, Unmoved DEF SettleRelease, IInv, NobodyHoldsBoth, Bought, escrow
<1>5. (release' # "NONE" => Received' = Due /\ giveBack' = "NONE") /\ (giveBack' # "NONE" => ~Underway')
  BY <1>1, Have, Unmoved DEF SettleRelease, IInv, NobodyHoldsBoth, Bought, escrow
<1>6. DecisionStands' /\ ClockTakesNoPayment'
  BY <1>1, Have, Unmoved DEF SettleRelease, IInv, DecisionStands, ClockTakesNoPayment, escrow
<1> QED BY <1>1, <1>2, <1>3, <1>4, <1>5, <1>6, Unmoved, Parts

LEMMA DropReleaseKeeps == ASSUME IInv, DropRelease PROVE IInv'
<1>1. TypeOK /\ pay' = pay
  BY Have DEF DropRelease
<1>2. TypeOK'
  BY <1>1 DEF DropRelease, TypeOK, escrow
<1>3. Ended'
  BY <1>1, Have, Unmoved DEF DropRelease, IInv, Ended, escrow
<1>4. Bought'
  BY <1>1, Have, Unmoved DEF DropRelease, IInv, NobodyHoldsBoth, Bought, escrow
<1>5. (release' # "NONE" => Received' = Due /\ giveBack' = "NONE") /\ (giveBack' # "NONE" => ~Underway')
  BY <1>1, Have, Unmoved DEF DropRelease, IInv, NobodyHoldsBoth, Bought, escrow
<1>6. DecisionStands' /\ ClockTakesNoPayment'
  BY <1>1, Have, Unmoved DEF DropRelease, IInv, DecisionStands, ClockTakesNoPayment, escrow
<1> QED BY <1>1, <1>2, <1>3, <1>4, <1>5, <1>6, Unmoved, Parts

LEMMA PlanGiveBackKeeps == ASSUME IInv, PlanGiveBack PROVE IInv'
<1>1. TypeOK /\ pay' = pay
  BY Have DEF PlanGiveBack
<1>2. TypeOK'
  BY <1>1 DEF PlanGiveBack, TypeOK, escrow, MayRefund, Live
<1>3. Ended'
  BY <1>1, Have, Unmoved DEF PlanGiveBack, IInv, Ended, escrow, MayRefund, Live
<1>4. Bought'
  BY <1>1, Have, Unmoved DEF PlanGiveBack, IInv, NobodyHoldsBoth, Bought, escrow, MayRefund, Live
<1>5. (release' # "NONE" => Received' = Due /\ giveBack' = "NONE") /\ (giveBack' # "NONE" => ~Underway')
  BY <1>1, Have, Unmoved DEF PlanGiveBack, IInv, Ended, NobodyHoldsBoth, Bought, MayRefund
<1>6. DecisionStands' /\ ClockTakesNoPayment'
  BY <1>1, Have, Unmoved DEF PlanGiveBack, IInv, DecisionStands, ClockTakesNoPayment, escrow, MayRefund, Live
<1> QED BY <1>1, <1>2, <1>3, <1>4, <1>5, <1>6, Unmoved, Parts

LEMMA SettleGiveBackKeeps == ASSUME IInv, SettleGiveBack PROVE IInv'
<1>1. TypeOK /\ pay' = pay
  BY Have DEF SettleGiveBack
<1>2. TypeOK'
  BY <1>1 DEF SettleGiveBack, TypeOK, escrow
<1>3. Ended'
  BY <1>1, Have, Unmoved DEF SettleGiveBack, IInv, Ended, escrow
<1>4. Bought'
  BY <1>1, Have, Unmoved DEF SettleGiveBack, IInv, NobodyHoldsBoth, Bought, escrow
<1>5. (release' # "NONE" => Received' = Due /\ giveBack' = "NONE") /\ (giveBack' # "NONE" => ~Underway')
  BY <1>1, Have, Unmoved DEF SettleGiveBack, IInv, NobodyHoldsBoth, Bought, escrow
<1>6. DecisionStands' /\ ClockTakesNoPayment'
  BY <1>1, Have, Unmoved DEF SettleGiveBack, IInv, DecisionStands, ClockTakesNoPayment, escrow
<1> QED BY <1>1, <1>2, <1>3, <1>4, <1>5, <1>6, Unmoved, Parts

LEMMA DropGiveBackKeeps == ASSUME IInv, DropGiveBack PROVE IInv'
<1>1. TypeOK /\ pay' = pay
  BY Have DEF DropGiveBack
<1>2. TypeOK'
  BY <1>1 DEF DropGiveBack, TypeOK, escrow
<1>3. Ended'
  BY <1>1, Have, Unmoved DEF DropGiveBack, IInv, Ended, escrow
<1>4. Bought'
  BY <1>1, Have, Unmoved DEF DropGiveBack, IInv, NobodyHoldsBoth, Bought, escrow
<1>5. (release' # "NONE" => Received' = Due /\ giveBack' = "NONE") /\ (giveBack' # "NONE" => ~Underway')
  BY <1>1, Have, Unmoved DEF DropGiveBack, IInv, NobodyHoldsBoth, Bought, escrow
<1>6. DecisionStands' /\ ClockTakesNoPayment'
  BY <1>1, Have, Unmoved DEF DropGiveBack, IInv, DecisionStands, ClockTakesNoPayment, escrow
<1> QED BY <1>1, <1>2, <1>3, <1>4, <1>5, <1>6, Unmoved, Parts

LEMMA CloseCaseKeeps == ASSUME IInv, NEW c \in {0} \cup Payments, CloseCase(c) PROVE IInv'
<1>1. TypeOK /\ pay' = pay
  BY Have DEF CloseCase
<1>2. TypeOK'
  BY <1>1, AdvancedSays DEF CloseCase, TypeOK, escrow
<1>3. Ended'
  BY <1>1, Have, Unmoved, AdvancedSays DEF CloseCase, IInv, Ended, escrow
<1>4. Bought'
  BY <1>1, Have, Unmoved, AdvancedSays DEF CloseCase, IInv, NobodyHoldsBoth, Bought, escrow
<1>5. (release' # "NONE" => Received' = Due /\ giveBack' = "NONE") /\ (giveBack' # "NONE" => ~Underway')
  BY <1>1, Have, Unmoved DEF CloseCase, IInv, NobodyHoldsBoth, Bought, escrow
<1>6. DecisionStands' /\ ClockTakesNoPayment'
  BY <1>1, Have, Unmoved DEF CloseCase, IInv, DecisionStands, ClockTakesNoPayment, escrow
<1> QED BY <1>1, <1>2, <1>3, <1>4, <1>5, <1>6, Unmoved, Parts

\* The rest of the invariant's first part, of a state that keeps its payments typed.
LEMMA Typed ==
  ASSUME Kept, dir' \in Directions, funded' \in BOOLEAN,
         trade' \in {"AWAITING", "DETECTED", "CONFIRMED", "SETTLING", "PARTIAL", "COMPLETED", "CANCELLED"},
         reason' \in {"NONE", "CLOCK", "DESK", "NOT_PAID", "REFUNDED"},
         dispute' \in [Payments -> {"NONE", "OPEN", "PAID", "NOT_PAID"}],
         overdue' \subseteq Payments, cases' \subseteq {0} \cup Payments,
         unwind' \in {"NONE", "PAY_WINDOW_MISSED", "NOT_PAID"},
         {release', giveBack'} \subseteq {"NONE", "PLANNED", "DONE"},
         picked' \subseteq {UnpaidDeal, NotPaidDeal} \cup {Receipt(p) : p \in Payments}
  PROVE  TypeOK'
  BY DEF TypeOK, Kept, Table

LEMMA ClaimKeeps == ASSUME IInv, NEW p \in Payments, NEW n, Claim(p, n) PROVE IInv'
<1>1. /\ Kept /\ Received' = Received /\ pay[p] = NoPayment /\ pay'[p].state = "PROCESSING"
      /\ \A q \in Payments \ {p} : pay'[q] = pay[q]
  BY Have, Filed DEF Claim
<1>2. TypeOK'
  BY <1>1, Have, Typed DEF Claim, TypeOK, escrow
<1>3. release' = "NONE" /\ giveBack' = "NONE" /\ reason' = "NONE" /\ unwind' = "NONE" /\ trade' = "DETECTED"
  BY Have DEF Claim, IInv, Ended, Bought, TypeOK, escrow
<1>4. Ended' /\ Bought' /\ ClockTakesNoPayment'
  BY <1>3 DEF Claim, IInv, Ended, Bought, ClockTakesNoPayment
<1>5. DecisionStands'
  BY <1>1, <1>3 DEF Claim, IInv, DecisionStands, NoPayment
<1> QED BY <1>1, <1>2, <1>3, <1>4, <1>5, Parts

LEMMA FileRoutePayoutKeeps == ASSUME IInv, NEW p \in Payments, NEW n, FileRoutePayout(p, n) PROVE IInv'
<1>1. /\ Kept /\ Received' = Received /\ pay[p] = NoPayment /\ pay'[p].state = "PROCESSING"
      /\ \A q \in Payments \ {p} : pay'[q] = pay[q]
  BY Have, Filed DEF FileRoutePayout
<1>2. /\ dir' = "SELL" /\ giveBack' = "NONE" /\ reason' = "NONE" /\ unwind' = "NONE"
      /\ trade' \in {"SETTLING", "PARTIAL"} /\ release' = release
  BY Have DEF FileRoutePayout, MayFile, IInv, Ended, TypeOK, escrow
<1>3. TypeOK'
  BY <1>1, <1>2, Have, Typed DEF FileRoutePayout, TypeOK
<1>4. Ended' /\ Bought' /\ ClockTakesNoPayment'
  BY <1>2 DEF Ended, Bought, ClockTakesNoPayment
<1>5. DecisionStands'
  BY <1>1, <1>2 DEF FileRoutePayout, IInv, DecisionStands, NoPayment
<1> QED BY <1>1, <1>2, <1>3, <1>4, <1>5, Parts DEF IInv, NobodyHoldsBoth

\* A waiting payment is confirmed: of a deal the client buys in, its trade may go on.
LEMMA ConfirmedClientLeg ==
  ASSUME IInv, NEW p \in Payments, pay[p].state = "PROCESSING", ConfirmClientLeg(p), dir = "BUY",
         UNCHANGED <<dir, reason, funded, unwind, release, giveBack, picked>>,
         overdue' \subseteq Payments,
         dispute' \in [Payments -> {"NONE", "OPEN", "PAID", "NOT_PAID"}],
         \A q \in Payments : dispute'[q] = dispute[q] \/ (q = p /\ dispute'[q] = "PAID")
  PROVE  IInv'
<1>1. /\ Kept /\ pay'[p].state = "COMPLETED" /\ \A q \in Payments \ {p} : pay'[q] = pay[q]
  BY Have, Answered DEF ConfirmClientLeg
<1>2. p \in In({"PROCESSING"}) /\ Received # Due
  BY Have DEF In
<1>3. trade' = trade \/ (trade = "DETECTED" /\ trade' = "CONFIRMED" /\ Received' = Due)
  BY AdvancedSays DEF ConfirmClientLeg
<1>4. trade \in {"DETECTED", "PARTIAL"} /\ release = "NONE" /\ giveBack = "NONE" /\ reason = "NONE"
  BY <1>2, Have DEF ConfirmClientLeg, IInv, Ended, Bought, TypeOK
<1>5. TypeOK'
  BY <1>1, <1>3, Have, Typed DEF ConfirmClientLeg, TypeOK
<1>6. Ended' /\ Bought'
  BY <1>3, <1>4 DEF IInv, Ended, Bought
<1>7. DecisionStands' /\ ClockTakesNoPayment'
  BY <1>1, <1>4 DEF IInv, Bought, DecisionStands, ClockTakesNoPayment
<1> QED BY <1>1, <1>4, <1>5, <1>6, <1>7, Parts

\* Of one it sells in, the trade may be completed.
LEMMA ConfirmedPayoutLeg ==
  ASSUME IInv, NEW p \in Payments, pay[p].state = "PROCESSING", ConfirmPayoutLeg(p), dir # "BUY",
         UNCHANGED <<dir, reason, funded, cases, unwind, release, giveBack, picked>>,
         overdue' \subseteq Payments,
         dispute' \in [Payments -> {"NONE", "OPEN", "PAID", "NOT_PAID"}],
         \A q \in Payments : dispute'[q] = dispute[q] \/ (q = p /\ dispute'[q] = "PAID")
  PROVE  IInv'
<1>1. /\ Kept /\ pay'[p].state = "COMPLETED" /\ \A q \in Payments \ {p} : pay'[q] = pay[q]
  BY Have, Answered DEF ConfirmPayoutLeg
<1>2. p \in In({"PROCESSING"}) /\ Received # Due /\ Underway
  BY Have DEF In
<1>3. release = "NONE" /\ giveBack = "NONE" /\ trade # "CANCELLED" /\ reason = "NONE"
      /\ unwind # "PAY_WINDOW_MISSED"
  BY <1>2, Have DEF ConfirmPayoutLeg, IInv, Ended, NobodyHoldsBoth, ClockTakesNoPayment
<1>4. trade' \in {trade, "COMPLETED", "PARTIAL"}
  BY DEF ConfirmPayoutLeg
<1>5. TypeOK'
  BY <1>1, <1>4, Have, Typed DEF TypeOK
<1>6. Ended' /\ Bought' /\ ClockTakesNoPayment'
  BY <1>3, <1>4 DEF Ended, Bought, ClockTakesNoPayment
<1>7. DecisionStands'
  BY <1>1, <1>3 DEF IInv, DecisionStands
<1> QED BY <1>1, <1>3, <1>5, <1>6, <1>7, Parts

LEMMA CountPaymentKeeps == ASSUME IInv, NEW p \in Payments, CountPayment(p) PROVE IInv'
<1>1. /\ dispute' \in [Payments -> {"NONE", "OPEN", "PAID", "NOT_PAID"}] /\ overdue' \subseteq Payments
      /\ \A q \in Payments : dispute'[q] = dispute[q] \/ (q = p /\ dispute'[q] = "PAID")
  BY Have DEF CountPayment, TypeOK
<1>2. /\ pay[p].state = "PROCESSING"
      /\ UNCHANGED <<dir, reason, funded, unwind, release, giveBack, picked>>
      /\ IF dir = "BUY" THEN ConfirmClientLeg(p) ELSE UNCHANGED cases /\ ConfirmPayoutLeg(p)
  BY DEF CountPayment, escrow
<1>3. CASE dir = "BUY"
  BY <1>1, <1>2, <1>3, ConfirmedClientLeg
<1>4. CASE dir # "BUY"
  BY <1>1, <1>2, <1>4, ConfirmedPayoutLeg
<1> QED BY <1>3, <1>4

LEMMA ConfirmFirstLegKeeps == ASSUME IInv, NEW p \in Payments, ConfirmFirstLeg(p) PROVE IInv'
<1>1. TypeOK
  BY Have
<1>2. /\ dispute' \in [Payments -> {"NONE", "OPEN", "PAID", "NOT_PAID"}] /\ overdue' \subseteq Payments
      /\ \A q \in Payments : dispute'[q] = dispute[q]
  BY <1>1 DEF ConfirmFirstLeg, TypeOK
<1>3. /\ pay[p].state = "PROCESSING" /\ dir = "BUY" /\ ConfirmClientLeg(p)
      /\ UNCHANGED <<dir, reason, funded, unwind, release, giveBack, picked>>
  BY DEF ConfirmFirstLeg, escrow
<1> QED BY <1>2, <1>3, ConfirmedClientLeg

LEMMA ConfirmPayoutKeeps == ASSUME IInv, NEW p \in Payments, ConfirmPayout(p) PROVE IInv'
<1>1. TypeOK
  BY Have
<1>2. /\ dispute' \in [Payments -> {"NONE", "OPEN", "PAID", "NOT_PAID"}] /\ overdue' \subseteq Payments
      /\ \A q \in Payments : dispute'[q] = dispute[q]
  BY <1>1 DEF ConfirmPayout, TypeOK
<1>3. /\ pay[p].state = "PROCESSING" /\ dir # "BUY" /\ ConfirmPayoutLeg(p)
      /\ UNCHANGED <<dir, reason, funded, cases, unwind, release, giveBack, picked>>
  BY DEF ConfirmPayout, escrow
<1> QED BY <1>2, <1>3, ConfirmedPayoutLeg

LEMMA RevertFirstLegKeeps == ASSUME IInv, NEW p \in Payments, RevertFirstLeg(p) PROVE IInv'
<1>1. /\ Kept /\ Received' = Received /\ pay'[p].state = "FAILED"
      /\ \A q \in Payments \ {p} : pay'[q] = pay[q]
  BY Have, Answered DEF RevertFirstLeg
<1>2. p \in In({"PROCESSING"}) /\ Received # Due
  BY Have DEF In, RevertFirstLeg
<1>3. /\ dir = "BUY" /\ UNCHANGED <<dir, reason, funded, dispute, overdue, cases, unwind, release, giveBack, picked>>
      /\ trade' \in {trade, "AWAITING"} \/ (trade' = "CONFIRMED" /\ Received' = Due)
      /\ trade' = "AWAITING" => trade \in {"DETECTED", "AWAITING"}
  BY AdvancedSays DEF RevertFirstLeg, escrow
<1>4. /\ trade \in {"AWAITING", "DETECTED", "PARTIAL"} /\ trade' \in {"AWAITING", "DETECTED", "PARTIAL"}
      /\ release = "NONE" /\ giveBack = "NONE" /\ reason = "NONE" /\ unwind = "NONE"
  BY <1>1, <1>2, <1>3, Have DEF IInv, Ended, Bought, TypeOK
<1>5. TypeOK'
  BY <1>1, <1>3, <1>4, Have, Typed DEF TypeOK
<1>6. Ended' /\ Bought' /\ ClockTakesNoPayment'
  BY <1>3, <1>4 DEF IInv, Ended, Bought, ClockTakesNoPayment
<1>7. DecisionStands'
  BY <1>1, <1>3, <1>4 DEF IInv, DecisionStands, RevertFirstLeg
<1> QED BY <1>1, <1>3, <1>4, <1>5, <1>6, <1>7, Parts

\* The trader's payment fails: a deal that is being given back had none.
LEMMA FailedPayout ==
  ASSUME IInv, NEW p \in Payments, pay[p].state = "PROCESSING", pay' = [pay EXCEPT ![p].state = "FAILED"],
         dir # "BUY", UNCHANGED <<dir, trade, reason, funded, release, giveBack, picked>>,
         overdue' \subseteq Payments, cases' \subseteq {0} \cup Payments,
         unwind' = unwind \/ (unwind = "NONE" /\ unwind' = "NOT_PAID"),
         dispute' \in [Payments -> {"NONE", "OPEN", "PAID", "NOT_PAID"}],
         \A q \in Payments : dispute'[q] = dispute[q] \/ (q = p /\ dispute'[q] = "NOT_PAID" /\ unwind' # "NONE")
  PROVE  IInv'
<1>1. /\ Kept /\ Received' = Received /\ pay'[p].state = "FAILED"
      /\ \A q \in Payments \ {p} : pay'[q] = pay[q]
  BY Have, Answered
<1>2. p \in In({"PROCESSING"}) /\ Received # Due /\ Underway
  BY Have DEF In
<1>3. /\ release = "NONE" /\ giveBack = "NONE" /\ trade # "CANCELLED" /\ reason = "NONE"
      /\ unwind # "PAY_WINDOW_MISSED"
  BY <1>2, Have DEF IInv, Ended, NobodyHoldsBoth, ClockTakesNoPayment
<1>4. TypeOK'
  BY <1>1, Have, Typed DEF TypeOK
<1>5. Ended' /\ Bought' /\ ClockTakesNoPayment'
  BY <1>3 DEF Ended, Bought, ClockTakesNoPayment
<1>6. DecisionStands'
  BY <1>1 DEF IInv, DecisionStands
<1> QED BY <1>1, <1>3, <1>4, <1>5, <1>6, Parts

LEMMA FailPayoutLegKeeps == ASSUME IInv, NEW p \in Payments, FailPayoutLeg(p) PROVE IInv'
<1>1. /\ dir # "BUY" /\ pay[p].state = "PROCESSING" /\ pay' = [pay EXCEPT ![p].state = "FAILED"]
      /\ UNCHANGED <<dir, trade, reason, funded, release, giveBack, picked>>
  BY DEF FailPayoutLeg, escrow
<1>2. UNCHANGED <<dispute, overdue, unwind>> /\ cases' \subseteq {0} \cup Payments
  BY Have DEF FailPayoutLeg, TypeOK
<1>3. overdue \subseteq Payments /\ dispute \in [Payments -> {"NONE", "OPEN", "PAID", "NOT_PAID"}]
  BY Have DEF TypeOK
<1> QED BY <1>1, <1>2, <1>3, FailedPayout

\* A trade ends: nothing of it was confirmed, or its escrow went back.
LEMMA TradeEnds ==
  ASSUME IInv, NEW why \in {"CLOCK", "DESK", "NOT_PAID", "REFUNDED"}, EndTrade(why),
         Received = 0, trade # "CANCELLED",
         UNCHANGED <<dir, funded, cases, unwind, release, giveBack>>,
         overdue' \subseteq Payments, picked' \subseteq picked,
         why = "CLOCK" => \A q \in Payments : pay[q] = NoPayment,
         dispute' \in [Payments -> {"NONE", "OPEN", "PAID", "NOT_PAID"}],
         \A q \in Payments :
           \/ dispute'[q] = dispute[q]
           \/ /\ dispute'[q] = "NOT_PAID" /\ pay[q].state = "PROCESSING"
              /\ why = "NOT_PAID" /\ dir = "BUY"
  PROVE  IInv'
<1>1. /\ Kept /\ Received' = Received /\ In({"PROCESSING"})' = {}
      /\ \A q \in Payments : IF pay[q].state = "PROCESSING" THEN pay'[q].state = "FAILED" ELSE pay'[q] = pay[q]
  BY Have, EndFails
<1>2. trade' = "CANCELLED" /\ reason' = why /\ reason = "NONE"
  BY Have DEF EndTrade, IInv, Ended, TypeOK
<1>3. In({"COMPLETED"})' = {} /\ ~Underway'
  <2>1. In({"COMPLETED"}) = {}
    BY Have
  <2>2. \A q \in Payments : pay'[q].state \notin {"PROCESSING", "COMPLETED"}
    BY <1>1, <2>1 DEF In
  <2> QED BY <2>2 DEF In, Underway
<1>4. release' = "NONE"
  BY Have DEF IInv, NobodyHoldsBoth
<1>5. TypeOK'
  BY <1>1, <1>2, Have, Typed DEF TypeOK
<1>6. Ended' /\ Bought'
  BY <1>1, <1>2, <1>3, <1>4 DEF IInv, Ended, Bought
<1>7. DecisionStands'
  <2> SUFFICES ASSUME NEW q \in Payments
               PROVE  /\ dispute'[q] = "PAID" => pay'[q].state = "COMPLETED"
                      /\ dispute'[q] = "NOT_PAID" =>
                           /\ pay'[q].state = "FAILED"
                           /\ IF dir' = "BUY" THEN reason' = "NOT_PAID" ELSE unwind' # "NONE"
    BY DEF DecisionStands
  <2>1. CASE dispute'[q] = dispute[q]
    BY <1>1, <1>2, <2>1 DEF IInv, DecisionStands
  <2>2. CASE dispute'[q] # dispute[q]
    BY <1>1, <1>2, <2>2
  <2> QED BY <2>1, <2>2
<1>8. ClockTakesNoPayment'
  <2>1. why = "CLOCK" => \A q \in Payments : pay'[q] = NoPayment
    BY <1>1 DEF NoPayment
  <2> QED BY <1>2, <1>3, <2>1 DEF ClockTakesNoPayment
<1> QED BY <1>1, <1>3, <1>4, <1>5, <1>6, <1>7, <1>8, Parts

LEMMA DecideNotPaidKeeps == ASSUME IInv, NEW p \in Payments, DecideNotPaid(p) PROVE IInv'
<1>1. /\ dispute' \in [Payments -> {"NONE", "OPEN", "PAID", "NOT_PAID"}] /\ overdue' \subseteq Payments
      /\ \A q \in Payments : dispute'[q] = dispute[q] \/ (q = p /\ dispute'[q] = "NOT_PAID")
  BY Have DEF DecideNotPaid, TypeOK
<1>2. /\ pay[p].state = "PROCESSING" /\ UNCHANGED <<dir, funded, cases, release, giveBack, picked>>
      /\ cases' \subseteq {0} \cup Payments
  BY Have DEF DecideNotPaid, Decidable, Waiting, escrow, TypeOK
<1>3. CASE dir = "BUY"
  <2>1. EndTrade("NOT_PAID") /\ Received = 0 /\ trade # "CANCELLED" /\ UNCHANGED unwind
    BY <1>3 DEF DecideNotPaid, MayCancel
  <2> QED BY <1>1, <1>2, <1>3, <2>1, TradeEnds
<1>4. CASE dir # "BUY"
  <2>1. /\ pay' = [pay EXCEPT ![p].state = "FAILED"] /\ UNCHANGED <<trade, reason>>
        /\ unwind' # "NONE" /\ (unwind' = unwind \/ (unwind = "NONE" /\ unwind' = "NOT_PAID"))
    BY <1>4 DEF DecideNotPaid, Unwound
  <2> QED BY <1>1, <1>2, <1>4, <2>1, FailedPayout
<1> QED BY <1>3, <1>4

LEMMA CancelTradeKeeps == ASSUME IInv, CancelTrade PROVE IInv'
<1>1. /\ EndTrade("DESK") /\ Received = 0 /\ trade # "CANCELLED"
      /\ UNCHANGED <<dir, funded, dispute, overdue, cases, unwind, release, giveBack, picked>>
  BY DEF CancelTrade, MayCancel, escrow
<1>2. overdue \subseteq Payments /\ dispute \in [Payments -> {"NONE", "OPEN", "PAID", "NOT_PAID"}]
  BY Have DEF TypeOK
<1> QED BY <1>1, <1>2, TradeEnds

LEMMA ExpireUnpaidKeeps == ASSUME IInv, ExpireUnpaid PROVE IInv'
<1>1. /\ EndTrade("CLOCK") /\ Received = 0 /\ trade # "CANCELLED" /\ \A q \in Payments : pay[q] = NoPayment
      /\ UNCHANGED <<dir, funded, dispute, overdue, cases, unwind, release, giveBack>> /\ picked' \subseteq picked
  BY DEF ExpireUnpaid, StillUnpaid, MayCancel, escrow
<1>2. overdue \subseteq Payments /\ dispute \in [Payments -> {"NONE", "OPEN", "PAID", "NOT_PAID"}]
  BY Have DEF TypeOK
<1> QED BY <1>1, <1>2, TradeEnds

LEMMA CancelRefundedKeeps == ASSUME IInv, CancelRefunded PROVE IInv'
<1>1. /\ EndTrade("REFUNDED") /\ ~Underway /\ trade # "CANCELLED"
      /\ UNCHANGED <<dir, funded, dispute, overdue, cases, unwind, release, giveBack, picked>>
  BY DEF CancelRefunded, Live, escrow
<1>2. overdue \subseteq Payments /\ dispute \in [Payments -> {"NONE", "OPEN", "PAID", "NOT_PAID"}]
  BY Have DEF TypeOK
<1>3. Received = 0
  BY <1>1, Have
<1> QED BY <1>1, <1>2, <1>3, TradeEnds

LEMMA StutterKeeps == ASSUME IInv, UNCHANGED vars PROVE IInv'
<1>1. TypeOK /\ pay' = pay
  BY Have DEF vars
<1>2. TypeOK' /\ Ended' /\ Bought' /\ DecisionStands' /\ ClockTakesNoPayment'
  BY <1>1, Unmoved DEF vars, escrow, TypeOK, IInv, Ended, Bought, DecisionStands, ClockTakesNoPayment
<1> QED BY <1>1, <1>2, Unmoved, Parts DEF vars, escrow, IInv, NobodyHoldsBoth

LEMMA NextKeeps == ASSUME IInv, [Next]_vars PROVE IInv'
<1>1. CASE UNCHANGED vars
  BY <1>1, StutterKeeps
<1>2. CASE Fund \/ CancelTrade \/ Select \/ ExpireUnpaid \/ MissPayWindow
  BY <1>2, FundKeeps, CancelTradeKeeps, SelectKeeps, ExpireUnpaidKeeps, MissPayWindowKeeps
<1>3. CASE PlanRelease \/ SettleRelease \/ DropRelease
  BY <1>3, PlanReleaseKeeps, SettleReleaseKeeps, DropReleaseKeeps
<1>4. CASE PlanGiveBack \/ SettleGiveBack \/ DropGiveBack \/ CancelRefunded
  BY <1>4, PlanGiveBackKeeps, SettleGiveBackKeeps, DropGiveBackKeeps, CancelRefundedKeeps
<1>5. CASE \E p \in Payments, n \in 1 .. Due : Claim(p, n) \/ FileRoutePayout(p, n)
  BY <1>5, ClaimKeeps, FileRoutePayoutKeeps
<1>6. CASE \E p \in Payments : ConfirmReceipt(p) \/ DecidePaid(p)
  BY <1>6, CountPaymentKeeps DEF ConfirmReceipt, DecidePaid
<1>7. CASE \E p \in Payments : StrangersRupees(p) \/ OpenDispute(p) \/ DecideNotPaid(p) \/ ReceiptOverdue(p)
  BY <1>7, StrangersRupeesKeeps, OpenDisputeKeeps, DecideNotPaidKeeps, ReceiptOverdueKeeps
<1>8. CASE \E p \in Payments : ConfirmFirstLeg(p) \/ ConfirmPayout(p) \/ RevertFirstLeg(p) \/ FailPayoutLeg(p)
  BY <1>8, ConfirmFirstLegKeeps, ConfirmPayoutKeeps, RevertFirstLegKeeps, FailPayoutLegKeeps
<1>9. CASE (\E c \in {0} \cup Payments : CloseCase(c)) \/ \E x \in picked : Skip(x)
  BY <1>9, CloseCaseKeeps, SkipKeeps
<1> QED BY <1>1, <1>2, <1>3, <1>4, <1>5, <1>6, <1>7, <1>8, <1>9 DEF Next

\* The inductive invariant holds in every state of every deal.
THEOREM P2PInvariant == Spec => []IInv
<1>1. IInv /\ [Next]_vars => IInv'
  BY NextKeeps
<1> QED BY InitHolds, <1>1, PTL DEF Spec

\* Whatever the order of the payee, INRP2P, the desk, the deadlines and the signer, the
\* USDT of the escrow is on its way to the buyer only when every rupee was confirmed and
\* on its way back only when none was and none is waiting (disputes.ts, cancel.ts,
\* signed.ts, legs.ts): no deal leaves anybody with both.
THEOREM NeverBoth == Spec => []NobodyHoldsBoth
<1>1. IInv => NobodyHoldsBoth
  BY DEF IInv
<1> QED BY <1>1, P2PInvariant, PTL

\* A payment decided paid counts for good; one decided not paid failed for good and its
\* deal is cancelled or unwound (decideP2pPayment, confirmP2pReceiptInTx).
THEOREM DecidedForGood == Spec => []DecisionStands
<1>1. IInv => DecisionStands
  BY DEF IInv
<1> QED BY <1>1, P2PInvariant, PTL

\* The deadline job, however old its selection, cancels no deal a payment was ever filed
\* of and unwinds none that has one waiting or confirmed (runP2pDeadlines).
THEOREM ClockIsHarmless == Spec => []ClockTakesNoPayment
<1>1. IInv => ClockTakesNoPayment
  BY DEF IInv
<1> QED BY <1>1, P2PInvariant, PTL
================================================================================
