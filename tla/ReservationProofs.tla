--------------------------- MODULE ReservationProofs ---------------------------
(***************************************************************************)
(* What is set aside before it is spent, for any amounts and any rows.     *)
(*                                                                         *)
(* The daily capacity of every INR account: a day's row is exactly what    *)
(* its reservations hold and its payments took, and it never outgrows the  *)
(* capacity.                                                               *)
(*                                                                         *)
(* The money earmarked for what a trade pays out: a use that is live is    *)
(* earmarked for exactly its amount, all on the right side's money that    *)
(* came in, and what is paid was received.                                 *)
(***************************************************************************)
EXTENDS Capacity, Funding, SumsProofs


PaymentRow == [kind : Kinds, trade : Trades \cup {"NONE"},
  status : {"NONE", "PENDING", "PROCESSING", "COMPLETED", "FAILED", "CANCELLED"}]
ReservationRow == [day : Days, amount : Amounts \cup {0},
  status : {"NONE", "ACTIVE", "CONSUMED", "RELEASED"}]
DayRow == [open : BOOLEAN, capacity : Capacities \cup {0}, used : Nat, reserved : Nat]

AmountOf == [r \in Ids |-> reservations[r].amount]
OpenOn(d) == {r \in Ids : reservations[r].status = "ACTIVE" /\ reservations[r].day = d}
OutOn(d) == {r \in Ids : payments[r].status \in Leaving /\ reservations[r].day = d}

Rows ==
  /\ today \in Days
  /\ account \in {"ACTIVE", "PAUSED"}
  /\ default \in Capacities
  /\ payments \in [Ids -> PaymentRow]
  /\ reservations \in [Ids -> ReservationRow]
  /\ trades \in [Trades -> {"OPEN", "COMPLETED", "CANCELLED"}]
  /\ sweep \subseteq Ids

\* What left the account was consumed, and a leg has a trade.
Linked ==
  \A r \in Ids :
    /\ payments[r].status \in Leaving => reservations[r].status = "CONSUMED"
    /\ payments[r].kind \in {"PAYOUT", "REFUND"} => payments[r].trade \in Trades

\* The row of a day.
RowIsExact(d) ==
  /\ days[d] \in DayRow
  /\ days[d].reserved = Sum(AmountOf, OpenOn(d))
  /\ days[d].used = Sum(AmountOf, OutOn(d))
\* A day that was never opened has nothing on it.
Booked ==
  /\ DOMAIN days = Days /\ days = [d \in Days |-> days[d]]
  /\ \A d \in Days : RowIsExact(d)
  /\ \A r \in Ids : reservations[r].status \in {"ACTIVE", "CONSUMED"} => days[reservations[r].day].open

Inv == Rows /\ EndedHoldsNothing /\ Linked /\ Booked

-----------------------------------------------------------------------------
(* What a command does to the row of a day. *)

LEMMA AmountsAreNumbers ==
  ASSUME NEW table \in [Ids -> ReservationRow]
  PROVE  [q \in Ids |-> table[q].amount] \in [Ids -> Nat]
<1>1. Amounts \cup {0} \subseteq Nat
  BY CapacityAssumption
<1>2. \A q \in Ids : table[q].amount \in Amounts \cup {0}
  BY DEF ReservationRow
<1> QED
  BY <1>1, <1>2

LEMMA AmountOfOne ==
  ASSUME NEW table \in [Ids -> ReservationRow], NEW r \in Ids
  PROVE  /\ Sum([q \in Ids |-> table[q].amount], {r}) = table[r].amount
         /\ table[r].amount \in Nat
<1> DEFINE amount == [q \in Ids |-> table[q].amount]
<1>1. amount \in [Ids -> Nat] /\ amount[r] = table[r].amount
  BY AmountsAreNumbers
<1> HIDE DEF amount
<1>2. Sum(amount, {r}) = amount[r]
  BY <1>1, CapacityAssumption, SumOne
<1> QED
  BY <1>1, <1>2 DEF amount

\* What the queries sum is what the sets above hold.
LEMMA HeldIsOpen ==
  ASSUME NEW d \in Days, NEW R \in SUBSET Ids
  PROVE  /\ Held(d, R) = Sum(AmountOf, OpenOn(d) \cap R)
         /\ SumOn(d, {r \in Ids : payments[r].status \in Leaving}) = Sum(AmountOf, OutOn(d))
<1>1. {r \in {q \in R : reservations[q].status = "ACTIVE"} : reservations[r].day = d} = OpenOn(d) \cap R
  BY DEF OpenOn
<1>2. {r \in {q \in Ids : payments[q].status \in Leaving} : reservations[r].day = d} = OutOn(d)
  BY DEF OutOn
<1> QED
  BY <1>1, <1>2, Zenon DEF Held, SumOn, AmountOf

\* Reservations are made and closed, payments leave and fail, and the row of the day follows.
LEMMA RowMoves ==
  ASSUME Rows, Rows', NEW d \in Days, RowIsExact(d),
         NEW gone \in SUBSET OpenOn(d), NEW come \in SUBSET (Ids \ OpenOn(d)),
         OpenOn(d)' = (OpenOn(d) \ gone) \cup come,
         NEW back \in SUBSET OutOn(d), NEW sent \in SUBSET (Ids \ OutOn(d)),
         OutOn(d)' = (OutOn(d) \ back) \cup sent,
         \A r \in OpenOn(d) \cup OutOn(d) : reservations'[r].amount = reservations[r].amount,
         days'[d] \in [open : BOOLEAN, capacity : Capacities \cup {0}, used : Int, reserved : Int],
         days'[d].reserved = days[d].reserved - Sum(AmountOf, gone) + Sum(AmountOf', come),
         days'[d].used = days[d].used - Sum(AmountOf, back) + Sum(AmountOf', sent)
  PROVE  RowIsExact(d)'
<1>1. AmountOf \in [Ids -> Nat] /\ AmountOf' \in [Ids -> Nat] /\ IsFiniteSet(Ids)
  BY AmountsAreNumbers, CapacityAssumption DEF Rows, AmountOf
<1>2. OpenOn(d) \in SUBSET Ids /\ OutOn(d) \in SUBSET Ids
  BY DEF OpenOn, OutOn
<1>3. \A r \in OpenOn(d) \cup OutOn(d) : AmountOf'[r] = AmountOf[r]
  BY <1>2 DEF AmountOf
<1> DEFINE amount == AmountOf
           other == AmountOf'
           S == OpenOn(d)
           T == OutOn(d)
<1>a. /\ amount \in [Ids -> Nat] /\ other \in [Ids -> Nat] /\ IsFiniteSet(Ids)
      /\ S \in SUBSET Ids /\ gone \in SUBSET S /\ come \in SUBSET (Ids \ S)
      /\ T \in SUBSET Ids /\ back \in SUBSET T /\ sent \in SUBSET (Ids \ T)
      /\ \A r \in S \cup T : other[r] = amount[r]
  BY <1>1, <1>2, <1>3
<1>b. S' = (S \ gone) \cup come /\ T' = (T \ back) \cup sent
  OBVIOUS
<1> HIDE DEF amount, other, S, T
<1>4. /\ Sum(amount, S) \in Nat /\ Sum(amount, gone) \in Nat /\ Sum(other, come) \in Nat
      /\ Sum(amount, gone) <= Sum(amount, S)
      /\ Sum(other, S') = Sum(amount, S) - Sum(amount, gone) + Sum(other, come)
  <2> DEFINE stay == S \ gone
  <2>1. /\ amount \in [Ids -> Nat] /\ other \in [Ids -> Nat] /\ IsFiniteSet(Ids)
        /\ stay \in SUBSET Ids /\ gone \in SUBSET Ids /\ come \in SUBSET Ids
        /\ stay \cap gone = {} /\ stay \cap come = {}
        /\ stay \cup gone = S /\ stay \cup come = S'
    BY <1>a, <1>b
  <2>2. Sum(other, stay) = Sum(amount, stay)
    BY <1>a, SumSame
  <2> HIDE DEF stay
  <2>3. Sum(other, stay \cup come) = Sum(amount, stay \cup gone) - Sum(amount, gone) + Sum(other, come)
    BY <2>1, <2>2, SumMoved
  <2>4. Sum(amount, stay) \in Nat /\ Sum(amount, gone) \in Nat /\ Sum(other, come) \in Nat
    BY <2>1, SumNat
  <2>5. Sum(amount, stay \cup gone) = Sum(amount, stay) + Sum(amount, gone)
    BY <2>1, SumApart
  <2>6. Sum(amount, stay \cup gone) \in Nat /\ Sum(amount, gone) <= Sum(amount, stay \cup gone)
    BY <2>4, <2>5
  <2> QED
    BY <2>1, <2>3, <2>4, <2>6, Zenon
<1>5. /\ Sum(amount, T) \in Nat /\ Sum(amount, back) \in Nat /\ Sum(other, sent) \in Nat
      /\ Sum(amount, back) <= Sum(amount, T)
      /\ Sum(other, T') = Sum(amount, T) - Sum(amount, back) + Sum(other, sent)
  <2> DEFINE stay == T \ back
  <2>1. /\ amount \in [Ids -> Nat] /\ other \in [Ids -> Nat] /\ IsFiniteSet(Ids)
        /\ stay \in SUBSET Ids /\ back \in SUBSET Ids /\ sent \in SUBSET Ids
        /\ stay \cap back = {} /\ stay \cap sent = {}
        /\ stay \cup back = T /\ stay \cup sent = T'
    BY <1>a, <1>b
  <2>2. Sum(other, stay) = Sum(amount, stay)
    BY <1>a, SumSame
  <2> HIDE DEF stay
  <2>3. Sum(other, stay \cup sent) = Sum(amount, stay \cup back) - Sum(amount, back) + Sum(other, sent)
    BY <2>1, <2>2, SumMoved
  <2>4. Sum(amount, stay) \in Nat /\ Sum(amount, back) \in Nat /\ Sum(other, sent) \in Nat
    BY <2>1, SumNat
  <2>5. Sum(amount, stay \cup back) = Sum(amount, stay) + Sum(amount, back)
    BY <2>1, SumApart
  <2>6. Sum(amount, stay \cup back) \in Nat /\ Sum(amount, back) <= Sum(amount, stay \cup back)
    BY <2>4, <2>5
  <2> QED
    BY <2>1, <2>3, <2>4, <2>6, Zenon
<1>6. /\ days[d].reserved = Sum(amount, S) /\ days[d].used = Sum(amount, T)
      /\ days'[d].reserved = days[d].reserved - Sum(amount, gone) + Sum(other, come)
      /\ days'[d].used = days[d].used - Sum(amount, back) + Sum(other, sent)
  BY DEF RowIsExact, amount, other, S, T
<1>7. days'[d].reserved = Sum(other, S') /\ days'[d].used = Sum(other, T')
  BY <1>4, <1>5, <1>6, Zenon
<1>8. days'[d].reserved \in Nat /\ days'[d].used \in Nat
  BY <1>4, <1>5, <1>6
<1>9. days'[d] \in DayRow
  BY <1>8 DEF DayRow
<1> QED
  BY <1>7, <1>9 DEF RowIsExact, other, S, T

\* The row of a day nothing was reserved on or paid from.
LEMMA RowStays ==
  ASSUME Rows, Rows', NEW d \in Days, RowIsExact(d), OpenOn(d)' = OpenOn(d), OutOn(d)' = OutOn(d),
         \A r \in OpenOn(d) \cup OutOn(d) : reservations'[r].amount = reservations[r].amount,
         days'[d] \in DayRow,
         days'[d].reserved = days[d].reserved, days'[d].used = days[d].used
  PROVE  RowIsExact(d)'
<1>1. Sum(AmountOf, {}) = 0 /\ Sum(AmountOf', {}) = 0
  BY SumEmpty
<1>2. days[d].reserved \in Nat /\ days[d].used \in Nat
  BY DEF RowIsExact, DayRow
<1>3. /\ days'[d].reserved = days[d].reserved - Sum(AmountOf, {}) + Sum(AmountOf', {})
      /\ days'[d].used = days[d].used - Sum(AmountOf, {}) + Sum(AmountOf', {})
  BY <1>1, <1>2
<1>4. days'[d] \in [open : BOOLEAN, capacity : Capacities \cup {0}, used : Int, reserved : Int]
  BY DEF DayRow
<1>5. OpenOn(d)' = (OpenOn(d) \ {}) \cup {} /\ OutOn(d)' = (OutOn(d) \ {}) \cup {}
  OBVIOUS
<1> QED
  BY <1>3, <1>4, <1>5, RowMoves

\* lockAccountDay leaves what is used and reserved as it is.
LEMMA OpenedKeeps ==
  ASSUME Inv, NEW d \in Days
  PROVE  /\ Opened(d) \in DayRow /\ Opened(d).open
         /\ Opened(d).used = days[d].used /\ Opened(d).reserved = days[d].reserved
<1>1. days[d] \in DayRow
  BY DEF Inv, Booked, RowIsExact
<1>2. CASE days[d].open
  BY <1>1, <1>2 DEF Opened
<1>3. CASE ~days[d].open
  <2>1. OpenOn(d) = {} /\ OutOn(d) = {}
    BY <1>3 DEF Inv, Booked, Linked, OpenOn, OutOn
  <2>2. days[d].used = 0 /\ days[d].reserved = 0
    BY <2>1, SumEmpty DEF Inv, Booked, RowIsExact
  <2>3. Opened(d) = [open |-> TRUE, capacity |-> default, used |-> 0, reserved |-> 0]
    BY <1>3 DEF Opened, NoDay
  <2>4. default \in Capacities
    BY DEF Inv, Rows
  <2> QED
    BY <2>2, <2>3, <2>4 DEF DayRow
<1> QED
  BY <1>2, <1>3

-----------------------------------------------------------------------------
(* The days after each kind of step. *)

\* reserveCapacity, for a payment that has not left.
LEMMA ReserveBooks ==
  ASSUME Inv, Rows', NEW r \in Ids, NEW day \in Days, NEW a \in Amounts, Reserve(r, day, a),
         reservations[r] = NoReservation, payments' = [payments EXCEPT ![r] = payments'[r]],
         payments'[r].status \notin Leaving
  PROVE  Booked'
<1>1. Rows /\ (\A d \in Days : RowIsExact(d))
  BY DEF Inv, Booked
<1>2. /\ \A q \in Ids \ {r} : reservations'[q] = reservations[q] /\ payments'[q] = payments[q]
      /\ reservations'[r] = [day |-> day, amount |-> a, status |-> "ACTIVE"]
      /\ reservations[r].status = "NONE" /\ payments[r].status \notin Leaving
  BY <1>1 DEF Reserve, Rows, NoReservation, Inv, Linked
<1>3. days' = [days EXCEPT ![day] = days'[day]] /\ days'[day] = [Opened(day) EXCEPT !.reserved = @ + a]
  BY DEF Reserve, Inv, Booked
<1>4. a \in Nat
  BY CapacityAssumption
<1>5. RowIsExact(day)'
  <2>1. OpenOn(day)' = (OpenOn(day) \ {}) \cup {r} /\ OutOn(day)' = (OutOn(day) \ {}) \cup {}
    BY <1>2 DEF OpenOn, OutOn
  <2>2. {r} \in SUBSET (Ids \ OpenOn(day)) /\ \A q \in OpenOn(day) \cup OutOn(day) : q # r /\ q \in Ids
    BY <1>2 DEF OpenOn, OutOn
  <2>3. Sum(AmountOf, {}) = 0 /\ Sum(AmountOf', {}) = 0
    BY SumEmpty
  <2>4. Sum(AmountOf', {r}) = a
    <3>1. Sum(AmountOf', {r}) = reservations'[r].amount
      BY AmountOfOne DEF Rows, AmountOf
    <3> QED
      BY <1>2, <3>1
  <2>5. /\ Opened(day) \in DayRow
        /\ Opened(day).used = days[day].used /\ Opened(day).reserved = days[day].reserved
    BY OpenedKeeps
  <2>6. /\ days'[day] \in [open : BOOLEAN, capacity : Capacities \cup {0}, used : Int, reserved : Int]
        /\ days'[day].reserved = Opened(day).reserved + a
        /\ days'[day].used = Opened(day).used
    <3> DEFINE row == Opened(day)
    <3>1. row \in DayRow /\ days'[day] = [row EXCEPT !.reserved = @ + a]
      BY <1>3, <2>5
    <3> HIDE DEF row
    <3>2. /\ days'[day] \in [open : BOOLEAN, capacity : Capacities \cup {0}, used : Int, reserved : Int]
          /\ days'[day].reserved = row.reserved + a
          /\ days'[day].used = row.used
      BY <1>4, <3>1 DEF DayRow
    <3> QED
      BY <3>2 DEF row
  <2>7. days[day].reserved \in Nat /\ days[day].used \in Nat
    BY <1>1 DEF RowIsExact, DayRow
  <2>8. /\ days'[day].reserved = days[day].reserved - Sum(AmountOf, {}) + Sum(AmountOf', {r})
        /\ days'[day].used = days[day].used - Sum(AmountOf, {}) + Sum(AmountOf', {})
    BY <1>4, <2>3, <2>4, <2>5, <2>6, <2>7
  <2> QED
    BY <1>1, <1>2, <2>1, <2>2, <2>6, <2>8, RowMoves
<1>6. ASSUME NEW d \in Days \ {day} PROVE RowIsExact(d)'
  <2>1. OpenOn(d)' = OpenOn(d) /\ OutOn(d)' = OutOn(d)
    BY <1>2 DEF OpenOn, OutOn
  <2>2. \A q \in OpenOn(d) \cup OutOn(d) : reservations'[q].amount = reservations[q].amount
    BY <1>2 DEF OpenOn, OutOn
  <2>3. days'[d] = days[d] /\ days[d] \in DayRow
    BY <1>1, <1>3 DEF RowIsExact, Inv, Booked
  <2> QED
    BY <1>1, <2>1, <2>2, <2>3, RowStays
<1>7. \A q \in Ids : reservations'[q].status \in {"ACTIVE", "CONSUMED"} => days'[reservations'[q].day].open
  <2>1. days'[day].open
    <3>1. Opened(day).open /\ Opened(day) \in DayRow
      BY OpenedKeeps
    <3> QED
      BY <1>3, <3>1 DEF DayRow
  <2>2. \A q \in Ids : reservations[q].day \in Days
    BY <1>1 DEF Rows, ReservationRow
  <2>3. \A d \in Days : days'[d].open \/ days'[d] = days[d]
    BY <1>3, <2>1 DEF Inv, Booked
  <2>4. \A q \in Ids \ {r} : reservations'[q] = reservations[q]
    BY <1>2
  <2>5. reservations'[r].day = day
    BY <1>2
  <2> QED
    BY <2>1, <2>2, <2>3, <2>4, <2>5 DEF Inv, Booked
<1>8. DOMAIN days' = Days /\ days' = [d \in Days |-> days'[d]]
  BY DEF Reserve, Inv, Booked
<1> QED
  BY <1>5, <1>6, <1>7, <1>8 DEF Booked

\* consumeReservation, with the payment that leaves.
LEMMA ConsumeBooks ==
  ASSUME Inv, Rows', NEW r \in Ids, Consume(r), payments' = [payments EXCEPT ![r] = payments'[r]],
         payments'[r].status \in Leaving
  PROVE  Booked'
<1>1. Rows /\ (\A d \in Days : RowIsExact(d))
  BY DEF Inv, Booked
<1>d. PICK day \in Days : day = reservations[r].day
  BY <1>1 DEF Rows, ReservationRow
<1>a. PICK a \in Nat : a = reservations[r].amount
  BY <1>1, AmountOfOne DEF Rows
<1>2. /\ \A q \in Ids \ {r} : reservations'[q] = reservations[q] /\ payments'[q] = payments[q]
      /\ reservations'[r].status = "CONSUMED" /\ reservations'[r].day = day /\ reservations'[r].amount = a
      /\ reservations[r].status = "ACTIVE" /\ payments[r].status \notin Leaving
  BY <1>1, <1>d, <1>a DEF Consume, Rows, ReservationRow, Inv, Linked
<1>3. /\ \A d \in Days \ {day} : days'[d] = days[d]
      /\ days'[day].reserved = days[day].reserved - a /\ days'[day].used = days[day].used + a
      /\ days'[day].open = days[day].open /\ days'[day].capacity = days[day].capacity
      /\ days'[day] \in [open : BOOLEAN, capacity : Capacities \cup {0}, used : Int, reserved : Int]
      /\ DOMAIN days' = Days /\ days' = [d \in Days |-> days'[d]]
  <2> DEFINE mid == [days EXCEPT ![day].reserved = @ - a]
  <2>1. /\ DOMAIN mid = Days /\ mid = [d \in Days |-> mid[d]]
        /\ \A d \in Days \ {day} : mid[d] = days[d]
        /\ mid[day] = [days[day] EXCEPT !.reserved = @ - a]
    BY <1>1 DEF Inv, Booked
  <2>2. days[day] \in DayRow
    BY <1>1 DEF RowIsExact
  <2>3. /\ mid[day] \in [open : BOOLEAN, capacity : Capacities \cup {0}, used : Int, reserved : Int]
        /\ mid[day].reserved = days[day].reserved - a /\ mid[day].used = days[day].used
        /\ mid[day].open = days[day].open /\ mid[day].capacity = days[day].capacity
    BY <2>1, <2>2 DEF DayRow
  <2>4. days' = [mid EXCEPT ![day].used = @ + a]
    BY <1>d, <1>a DEF Consume
  <2> HIDE DEF mid
  <2>5. /\ DOMAIN days' = Days /\ days' = [d \in Days |-> days'[d]]
        /\ \A d \in Days \ {day} : days'[d] = days[d]
        /\ days'[day] = [mid[day] EXCEPT !.used = @ + a]
    BY <1>1, <2>1, <2>4
  <2>6. /\ days'[day] \in [open : BOOLEAN, capacity : Capacities \cup {0}, used : Int, reserved : Int]
        /\ days'[day].reserved = mid[day].reserved /\ days'[day].used = mid[day].used + a
        /\ days'[day].open = mid[day].open /\ days'[day].capacity = mid[day].capacity
    BY <2>3, <2>5
  <2> QED
    BY <2>3, <2>5, <2>6
<1>4. RowIsExact(day)'
  <2>1. /\ OpenOn(day)' = (OpenOn(day) \ {r}) \cup {} /\ OutOn(day)' = (OutOn(day) \ {}) \cup {r}
        /\ {r} \in SUBSET OpenOn(day) /\ {r} \in SUBSET (Ids \ OutOn(day))
        /\ \A q \in OpenOn(day) \cup OutOn(day) : reservations'[q].amount = reservations[q].amount
    <3>1. /\ \A q \in Ids \ {r} : q \in OpenOn(day)' <=> q \in OpenOn(day)
          /\ \A q \in Ids \ {r} : q \in OutOn(day)' <=> q \in OutOn(day)
      BY <1>2 DEF OpenOn, OutOn
    <3>2. r \in OpenOn(day) /\ r \notin OpenOn(day)' /\ r \notin OutOn(day) /\ r \in OutOn(day)'
      BY <1>2, <1>d DEF OpenOn, OutOn
    <3>3. OpenOn(day) \cup OpenOn(day)' \cup OutOn(day) \cup OutOn(day)' \subseteq Ids
      BY DEF OpenOn, OutOn
    <3>4. \A q \in Ids : reservations'[q].amount = reservations[q].amount
      BY <1>2, <1>a
    <3> QED
      BY <3>1, <3>2, <3>3, <3>4
  <2>2. Sum(AmountOf, {}) = 0 /\ Sum(AmountOf', {}) = 0
    BY SumEmpty
  <2>3. Sum(AmountOf, {r}) = a
    BY <1>1, <1>a, AmountOfOne DEF Rows, AmountOf
  <2>4. Sum(AmountOf', {r}) = a
    <3>1. Sum(AmountOf', {r}) = reservations'[r].amount
      BY AmountOfOne DEF Rows, AmountOf
    <3> QED
      BY <1>2, <3>1
  <2>5. days[day].reserved \in Nat /\ days[day].used \in Nat
    BY <1>1 DEF RowIsExact, DayRow
  <2>6. /\ days'[day].reserved = days[day].reserved - Sum(AmountOf, {r}) + Sum(AmountOf', {})
        /\ days'[day].used = days[day].used - Sum(AmountOf, {}) + Sum(AmountOf', {r})
    BY <1>3, <2>2, <2>3, <2>4, <2>5
  <2> QED
    BY <1>1, <1>3, <2>1, <2>6, RowMoves
<1>5. ASSUME NEW d \in Days \ {day} PROVE RowIsExact(d)'
  <2>1. OpenOn(d)' = OpenOn(d) /\ OutOn(d)' = OutOn(d)
    BY <1>2, <1>d DEF OpenOn, OutOn
  <2>2. \A q \in OpenOn(d) \cup OutOn(d) : reservations'[q].amount = reservations[q].amount
    BY <1>2, <1>d DEF OpenOn, OutOn
  <2>3. days'[d] = days[d] /\ days[d] \in DayRow
    BY <1>1, <1>3 DEF RowIsExact
  <2> QED
    BY <1>1, <2>1, <2>2, <2>3, RowStays
<1>6. \A q \in Ids : reservations'[q].status \in {"ACTIVE", "CONSUMED"} => days'[reservations'[q].day].open
  <2>1. \A q \in Ids : reservations[q].day \in Days
    BY <1>1 DEF Rows, ReservationRow
  <2>2. \A d \in Days : days'[d].open = days[d].open
    BY <1>3
  <2>3. \A q \in Ids : reservations'[q].status \in {"ACTIVE", "CONSUMED"} =>
           reservations[q].status \in {"ACTIVE", "CONSUMED"} /\ reservations'[q].day = reservations[q].day
    BY <1>2, <1>d
  <2> QED
    BY <2>1, <2>2, <2>3 DEF Inv, Booked
<1> QED
  BY <1>3, <1>4, <1>5, <1>6 DEF Booked

\* The payments that have left the account are the same.
LeavingStays == \A q \in Ids : payments'[q].status \in Leaving <=> payments[q].status \in Leaving

\* releaseReservation of each of R.
LEMMA ReleaseBooks ==
  ASSUME Inv, Rows', NEW R \in SUBSET Ids, Release(R), LeavingStays
  PROVE  Booked'
<1>1. Rows /\ (\A d \in Days : RowIsExact(d))
  BY DEF Inv, Booked
<1>2. \A q \in Ids :
        /\ reservations'[q].day = reservations[q].day /\ reservations'[q].amount = reservations[q].amount
        /\ reservations'[q].status = IF q \in R THEN "RELEASED" ELSE reservations[q].status
  BY <1>1 DEF Release, Rows, ReservationRow
<1>3. ASSUME NEW d \in Days
      PROVE  RowIsExact(d)' /\ days'[d].open = days[d].open
  <2> DEFINE gone == OpenOn(d) \cap R
  <2>1. /\ OpenOn(d)' = (OpenOn(d) \ gone) \cup {} /\ OutOn(d)' = (OutOn(d) \ {}) \cup {}
        /\ \A q \in OpenOn(d) \cup OutOn(d) : reservations'[q].amount = reservations[q].amount
    BY <1>2 DEF OpenOn, OutOn, LeavingStays
  <2>2. Sum(AmountOf, {}) = 0 /\ Sum(AmountOf', {}) = 0
    BY SumEmpty
  <2>3. Held(d, R) = Sum(AmountOf, gone)
    BY HeldIsOpen
  <2>4. Sum(AmountOf, gone) \in Nat
    <3>1. gone \in SUBSET Ids /\ AmountOf \in [Ids -> Nat]
      BY <1>1, AmountsAreNumbers DEF Rows, AmountOf, OpenOn
    <3> HIDE DEF gone
    <3> QED
      BY <3>1, CapacityAssumption, SumNat
  <2>5. days[d] \in DayRow
    BY <1>1 DEF RowIsExact
  <2>6. days'[d] = [days[d] EXCEPT !.reserved = @ - Held(d, R)]
    BY DEF Release
  <2>7. /\ days'[d] \in [open : BOOLEAN, capacity : Capacities \cup {0}, used : Int, reserved : Int]
        /\ days'[d].reserved = days[d].reserved - Sum(AmountOf, gone) + Sum(AmountOf', {})
        /\ days'[d].used = days[d].used - Sum(AmountOf, {}) + Sum(AmountOf', {})
        /\ days'[d].open = days[d].open
    <3> HIDE DEF gone
    <3> DEFINE h == Held(d, R)
    <3>1. h \in Nat /\ h = Sum(AmountOf, gone) /\ days'[d] = [days[d] EXCEPT !.reserved = @ - h]
      BY <2>3, <2>4, <2>6
    <3> HIDE DEF h
    <3>2. /\ days'[d] \in [open : BOOLEAN, capacity : Capacities \cup {0}, used : Int, reserved : Int]
          /\ days'[d].reserved = days[d].reserved - h /\ days'[d].used = days[d].used
          /\ days'[d].open = days[d].open /\ days[d].reserved \in Nat /\ days[d].used \in Nat
      BY <2>5, <3>1 DEF DayRow
    <3> QED
      BY <2>2, <3>1, <3>2
  <2>8. gone \in SUBSET OpenOn(d)
    OBVIOUS
  <2> HIDE DEF gone
  <2> QED
    BY <1>1, <2>1, <2>7, <2>8, RowMoves
<1>4. \A q \in Ids : reservations'[q].status \in {"ACTIVE", "CONSUMED"} => days'[reservations'[q].day].open
  <2>1. \A q \in Ids : reservations[q].day \in Days
    BY <1>1 DEF Rows, ReservationRow
  <2> QED
    BY <1>2, <1>3, <2>1 DEF Inv, Booked
<1>5. DOMAIN days' = Days /\ days' = [d \in Days |-> days'[d]]
  BY DEF Release
<1> QED
  BY <1>3, <1>4, <1>5 DEF Booked

\* refundConsumedCapacity, with the payment that failed.
LEMMA RefundBooks ==
  ASSUME Inv, Rows', NEW r \in Ids, RefundConsumed(r), payments' = [payments EXCEPT ![r] = payments'[r]],
         payments[r].status \in Leaving, payments'[r].status \notin Leaving
  PROVE  Booked'
<1>1. Rows /\ (\A d \in Days : RowIsExact(d)) /\ reservations' = reservations
  BY DEF Inv, Booked, RefundConsumed
<1>d. PICK day \in Days : day = reservations[r].day
  BY <1>1 DEF Rows, ReservationRow
<1>a. PICK a \in Nat : a = reservations[r].amount
  BY <1>1, AmountOfOne DEF Rows
<1>2. \A q \in Ids \ {r} : payments'[q] = payments[q]
  BY <1>1 DEF Rows
<1>3. /\ DOMAIN days' = Days /\ days' = [d \in Days |-> days'[d]]
      /\ \A d \in Days \ {day} : days'[d] = days[d]
      /\ days'[day] = [days[day] EXCEPT !.used = @ - a]
  BY <1>d, <1>a DEF RefundConsumed, Inv, Booked
<1>4. days[day] \in DayRow
  BY <1>1 DEF RowIsExact
<1>5. /\ days'[day] \in [open : BOOLEAN, capacity : Capacities \cup {0}, used : Int, reserved : Int]
      /\ days'[day].reserved = days[day].reserved /\ days'[day].used = days[day].used - a
      /\ days'[day].open = days[day].open /\ days[day].reserved \in Nat /\ days[day].used \in Nat
  BY <1>3, <1>4 DEF DayRow
<1>6. RowIsExact(day)'
  <2>1. /\ OpenOn(day)' = (OpenOn(day) \ {}) \cup {} /\ OutOn(day)' = (OutOn(day) \ {r}) \cup {}
        /\ {r} \in SUBSET OutOn(day)
    BY <1>1, <1>2, <1>d DEF OpenOn, OutOn
  <2>2. \A q \in OpenOn(day) \cup OutOn(day) : reservations'[q].amount = reservations[q].amount
    BY <1>1
  <2>3. Sum(AmountOf, {}) = 0 /\ Sum(AmountOf', {}) = 0 /\ Sum(AmountOf, {r}) = a
    BY <1>1, <1>a, SumEmpty, AmountOfOne DEF Rows, AmountOf
  <2>4. /\ days'[day].reserved = days[day].reserved - Sum(AmountOf, {}) + Sum(AmountOf', {})
        /\ days'[day].used = days[day].used - Sum(AmountOf, {r}) + Sum(AmountOf', {})
    BY <1>5, <2>3
  <2> QED
    BY <1>1, <1>5, <2>1, <2>2, <2>4, RowMoves
<1>7. ASSUME NEW d \in Days \ {day} PROVE RowIsExact(d)'
  <2>1. OpenOn(d)' = OpenOn(d) /\ OutOn(d)' = OutOn(d)
    BY <1>1, <1>2, <1>d DEF OpenOn, OutOn
  <2>2. days'[d] = days[d] /\ days[d] \in DayRow
    BY <1>1, <1>3 DEF RowIsExact
  <2> QED
    BY <1>1, <2>1, <2>2, RowStays
<1>8. \A q \in Ids : reservations'[q].status \in {"ACTIVE", "CONSUMED"} => days'[reservations'[q].day].open
  <2>1. \A q \in Ids : reservations[q].day \in Days
    BY <1>1 DEF Rows, ReservationRow
  <2>2. \A d \in Days : days'[d].open = days[d].open
    BY <1>3, <1>5
  <2> QED
    BY <1>1, <2>1, <2>2 DEF Inv, Booked
<1> QED
  BY <1>3, <1>6, <1>7, <1>8 DEF Booked

\* No reservation changes and no payment leaves or comes back; a day may be opened.
LEMMA QuietBooks ==
  ASSUME Inv, Rows', reservations' = reservations, LeavingStays,
         \/ days' = days
         \/ \E d \in Days, c \in Capacities : days' = [days EXCEPT ![d] = [Opened(d) EXCEPT !.capacity = c]]
  PROVE  Booked'
<1>1. Rows /\ (\A d \in Days : RowIsExact(d))
  BY DEF Inv, Booked
<1>2. /\ DOMAIN days' = Days /\ days' = [d \in Days |-> days'[d]]
  BY DEF Inv, Booked
<1>3. ASSUME NEW d \in Days
      PROVE  /\ days'[d] \in DayRow /\ (days[d].open => days'[d].open)
             /\ days'[d].reserved = days[d].reserved /\ days'[d].used = days[d].used
  <2>1. CASE days'[d] = days[d]
    BY <1>1, <2>1 DEF RowIsExact
  <2>2. ASSUME NEW c \in Capacities, days'[d] = [Opened(d) EXCEPT !.capacity = c]
        PROVE  /\ days'[d] \in DayRow /\ (days[d].open => days'[d].open)
               /\ days'[d].reserved = days[d].reserved /\ days'[d].used = days[d].used
    <3> DEFINE row == Opened(d)
    <3>1. /\ row \in DayRow /\ row.open
          /\ row.used = days[d].used /\ row.reserved = days[d].reserved
      BY OpenedKeeps
    <3>2. days'[d] = [row EXCEPT !.capacity = c]
      BY <2>2
    <3> HIDE DEF row
    <3> QED
      BY <3>1, <3>2 DEF DayRow
  <2>3. days'[d] = days[d] \/ \E c \in Capacities : days'[d] = [Opened(d) EXCEPT !.capacity = c]
    BY DEF Inv, Booked
  <2> QED
    BY <2>1, <2>2, <2>3
<1>4. ASSUME NEW d \in Days PROVE RowIsExact(d)'
  <2>1. OpenOn(d)' = OpenOn(d) /\ OutOn(d)' = OutOn(d)
    BY DEF OpenOn, OutOn, LeavingStays
  <2> QED
    BY <1>1, <1>3, <2>1, RowStays
<1>5. \A q \in Ids : reservations'[q].status \in {"ACTIVE", "CONSUMED"} => days'[reservations'[q].day].open
  <2>1. \A q \in Ids : reservations[q].day \in Days
    BY <1>1 DEF Rows, ReservationRow
  <2> QED
    BY <1>3, <2>1 DEF Inv, Booked
<1> QED
  BY <1>2, <1>4, <1>5 DEF Booked

-----------------------------------------------------------------------------
(* The commands. *)

\* Plan and ReserveByHand.
LEMMA ReserveKeeps ==
  ASSUME Inv, NEW r \in Ids, NEW day \in Days, NEW a \in Amounts, NEW row \in PaymentRow,
         reservations[r] = NoReservation, Reserve(r, day, a), payments' = [payments EXCEPT ![r] = row],
         UNCHANGED <<today, account, default, trades, sweep>>,
         row.status \in {"NONE", "PENDING"},
         row.kind \in {"PAYOUT", "REFUND"} => row.trade \in Trades /\ trades[row.trade] = "OPEN"
  PROVE  Inv'
<1>1. Rows'
  <2>1. [day |-> day, amount |-> a, status |-> "ACTIVE"] \in ReservationRow
    BY DEF ReservationRow
  <2>2. payments' \in [Ids -> PaymentRow]
    BY DEF Inv, Rows
  <2>3. reservations' \in [Ids -> ReservationRow]
    BY <2>1 DEF Reserve, Inv, Rows
  <2> QED
    BY <2>2, <2>3 DEF Inv, Rows
<1>2. /\ \A q \in Ids \ {r} : reservations'[q] = reservations[q] /\ payments'[q] = payments[q]
      /\ payments'[r] = row /\ reservations[r].status = "NONE"
  BY DEF Reserve, Inv, Rows, NoReservation
<1>3. EndedHoldsNothing'
  BY <1>2 DEF EndedHoldsNothing, Inv
<1>4. Linked'
  BY <1>2 DEF Linked, Inv, Leaving
<1>5. Booked'
  <2>1. payments' = [payments EXCEPT ![r] = payments'[r]] /\ payments'[r].status \notin Leaving
    BY <1>2 DEF Leaving
  <2> QED
    BY <1>1, <2>1, ReserveBooks
<1> QED
  BY <1>1, <1>3, <1>4, <1>5 DEF Inv

\* A payment moves to a status.
LEMMA PaymentMoved ==
  ASSUME Inv, NEW r \in Ids, NEW s \in {"PROCESSING", "COMPLETED", "FAILED", "CANCELLED"},
         PaymentMoves(r, s)
  PROVE  /\ payments' \in [Ids -> PaymentRow] /\ payments' = [payments EXCEPT ![r] = payments'[r]]
         /\ payments'[r].status = s
         /\ \A q \in Ids : payments'[q].kind = payments[q].kind /\ payments'[q].trade = payments[q].trade
         /\ \A q \in Ids \ {r} : payments'[q] = payments[q]
<1>1. payments \in [Ids -> PaymentRow] /\ payments' = [payments EXCEPT ![r].status = s]
  BY DEF Inv, Rows, PaymentMoves
<1>2. [payments[r] EXCEPT !.status = s] \in PaymentRow
  BY <1>1 DEF PaymentRow
<1> QED
  BY <1>1, <1>2 DEF PaymentRow

\* SendLeg, ConfirmRefund and ConfirmRecorded.
LEMMA ConsumeKeeps ==
  ASSUME Inv, NEW r \in Ids, NEW s \in Leaving, Consume(r), PaymentMoves(r, s),
         UNCHANGED <<today, account, default, trades, sweep>>
  PROVE  Inv'
<1>1. /\ payments' \in [Ids -> PaymentRow] /\ payments' = [payments EXCEPT ![r] = payments'[r]]
      /\ payments'[r].status = s
      /\ \A q \in Ids : payments'[q].kind = payments[q].kind /\ payments'[q].trade = payments[q].trade
      /\ \A q \in Ids \ {r} : payments'[q] = payments[q]
  BY PaymentMoved DEF Leaving
<1>2. /\ reservations' \in [Ids -> ReservationRow] /\ reservations'[r].status = "CONSUMED"
      /\ \A q \in Ids \ {r} : reservations'[q] = reservations[q]
  BY DEF Consume, Inv, Rows, ReservationRow
<1>3. Rows'
  BY <1>1, <1>2 DEF Inv, Rows
<1>4. EndedHoldsNothing'
  BY <1>1, <1>2 DEF EndedHoldsNothing, Inv
<1>5. Linked'
  BY <1>1, <1>2 DEF Linked, Inv
<1>6. Booked'
  BY <1>1, <1>3, ConsumeBooks
<1> QED
  BY <1>3, <1>4, <1>5, <1>6 DEF Inv

\* CancelLeg and FailRecorded.
LEMMA ReleaseOneKeeps ==
  ASSUME Inv, NEW r \in Ids, NEW s \in {"FAILED", "CANCELLED"}, Release({r}), PaymentMoves(r, s),
         payments[r].status = "PENDING", UNCHANGED <<today, account, default, trades, sweep>>
  PROVE  Inv'
<1>1. /\ payments' \in [Ids -> PaymentRow]
      /\ payments'[r].status = s
      /\ \A q \in Ids : payments'[q].kind = payments[q].kind /\ payments'[q].trade = payments[q].trade
      /\ \A q \in Ids \ {r} : payments'[q] = payments[q]
  BY PaymentMoved
<1>2. /\ reservations' \in [Ids -> ReservationRow] /\ reservations'[r].status = "RELEASED"
      /\ \A q \in Ids \ {r} : reservations'[q] = reservations[q]
  BY DEF Release, Inv, Rows, ReservationRow
<1>3. Rows'
  BY <1>1, <1>2 DEF Inv, Rows
<1>4. EndedHoldsNothing'
  BY <1>1, <1>2 DEF EndedHoldsNothing, Inv
<1>5. Linked'
  BY <1>1, <1>2 DEF Linked, Inv, Leaving
<1>6. LeavingStays
  BY <1>1 DEF LeavingStays, Leaving
<1>7. Booked'
  BY <1>3, <1>6, ReleaseBooks
<1> QED
  BY <1>3, <1>4, <1>5, <1>7 DEF Inv

LEMMA ConfirmPayoutKeeps ==
  ASSUME Inv, NEW r \in Ids, ConfirmPayout(r)
  PROVE  Inv'
<1>1. /\ payments' \in [Ids -> PaymentRow] /\ payments'[r].status = "COMPLETED"
      /\ \A q \in Ids : payments'[q].kind = payments[q].kind /\ payments'[q].trade = payments[q].trade
      /\ \A q \in Ids \ {r} : payments'[q] = payments[q]
      /\ payments[r].status = "PROCESSING"
      /\ UNCHANGED <<today, account, default, days, reservations, trades, sweep>>
  BY PaymentMoved DEF ConfirmPayout
<1>2. Rows'
  BY <1>1 DEF Inv, Rows
<1>3. EndedHoldsNothing' /\ Linked' /\ LeavingStays
  BY <1>1 DEF EndedHoldsNothing, Linked, LeavingStays, Inv, Leaving
<1>4. Booked'
  BY <1>1, <1>2, <1>3, QuietBooks
<1> QED
  BY <1>2, <1>3, <1>4 DEF Inv

LEMMA FailLegKeeps ==
  ASSUME Inv, NEW r \in Ids, FailLeg(r)
  PROVE  Inv'
<1>1. /\ payments' \in [Ids -> PaymentRow] /\ payments' = [payments EXCEPT ![r] = payments'[r]]
      /\ payments'[r].status = "FAILED"
      /\ \A q \in Ids : payments'[q].kind = payments[q].kind /\ payments'[q].trade = payments[q].trade
      /\ \A q \in Ids \ {r} : payments'[q] = payments[q]
      /\ payments[r].status = "PROCESSING" /\ reservations[r].status = "CONSUMED"
      /\ UNCHANGED <<today, account, default, reservations, trades, sweep>>
  BY PaymentMoved DEF FailLeg, RefundConsumed
<1>2. Rows'
  BY <1>1 DEF Inv, Rows
<1>3. EndedHoldsNothing' /\ Linked'
  BY <1>1 DEF EndedHoldsNothing, Linked, Inv, Leaving
<1>4. Booked'
  BY <1>1, <1>2, RefundBooks DEF FailLeg, Leaving
<1> QED
  BY <1>2, <1>3, <1>4 DEF Inv

\* completeTrade and releaseCommitments.
LEMMA TradeEnds ==
  ASSUME Inv, NEW t \in Trades, NEW s \in {"COMPLETED", "CANCELLED"},
         trades' = [trades EXCEPT ![t] = s], Release(ActiveOf(t)),
         \/ payments' = payments
         \/ payments' = [r \in Ids |->
              IF payments[r].trade = t /\ payments[r].status = "PENDING"
              THEN [payments[r] EXCEPT !.status = "CANCELLED"] ELSE payments[r]],
         UNCHANGED <<today, account, default, sweep>>
  PROVE  Inv'
<1>1. /\ payments' \in [Ids -> PaymentRow]
      /\ \A q \in Ids : payments'[q].kind = payments[q].kind /\ payments'[q].trade = payments[q].trade
      /\ \A q \in Ids : \/ payments'[q].status = payments[q].status
                       \/ /\ payments[q].status = "PENDING" /\ payments'[q].status = "CANCELLED"
                          /\ payments[q].trade = t
  <2>1. payments \in [Ids -> PaymentRow]
    BY DEF Inv, Rows
  <2>2. CASE payments' = payments
    BY <2>1, <2>2
  <2>3. CASE payments' = [r \in Ids |->
              IF payments[r].trade = t /\ payments[r].status = "PENDING"
              THEN [payments[r] EXCEPT !.status = "CANCELLED"] ELSE payments[r]]
    BY <2>1, <2>3 DEF PaymentRow
  <2> QED
    BY <2>2, <2>3
<1>2. /\ reservations' \in [Ids -> ReservationRow]
      /\ \A q \in Ids : IF payments[q].trade = t /\ reservations[q].status = "ACTIVE"
                        THEN reservations'[q].status = "RELEASED"
                        ELSE reservations'[q].status = reservations[q].status
  BY DEF Release, ActiveOf, Inv, Rows, ReservationRow
<1>3. /\ trades' \in [Trades -> {"OPEN", "COMPLETED", "CANCELLED"}]
      /\ \A u \in Trades \ {t} : trades'[u] = trades[u]
  BY DEF Inv, Rows
<1>4. Rows'
  BY <1>1, <1>2, <1>3 DEF Inv, Rows
<1>5. EndedHoldsNothing'
  BY <1>1, <1>2, <1>3 DEF EndedHoldsNothing, Inv, Linked
<1>6. Linked' /\ LeavingStays
  BY <1>1, <1>2 DEF Linked, LeavingStays, Inv, Leaving
<1>7. Booked'
  <2>1. ActiveOf(t) \in SUBSET Ids
    BY DEF ActiveOf
  <2> QED
    BY <1>4, <1>6, <2>1, ReleaseBooks
<1> QED
  BY <1>4, <1>5, <1>6, <1>7 DEF Inv

\* The settings, midnight, and a rollover that reads or gives up.
LEMMA QuietKeeps ==
  ASSUME Inv, Rows', UNCHANGED <<payments, reservations, trades>>,
         \/ days' = days
         \/ \E d \in Days, c \in Capacities : days' = [days EXCEPT ![d] = [Opened(d) EXCEPT !.capacity = c]]
  PROVE  Inv'
<1>1. LeavingStays
  BY DEF LeavingStays
<1>2. EndedHoldsNothing' /\ Linked'
  BY DEF EndedHoldsNothing, Linked, Inv
<1> QED
  BY <1>1, <1>2, QuietBooks DEF Inv

LEMMA RolloverKeeps ==
  ASSUME Inv, ReadStale \/ ReleaseStale
  PROVE  Inv'
<1>1. CASE ReadStale
  <2>1. Rows'
    BY <1>1 DEF ReadStale, Stale, Inv, Rows
  <2> QED
    BY <1>1, <2>1, QuietKeeps DEF ReadStale
<1>2. CASE ReleaseStale /\ UNCHANGED <<days, reservations>>
  <2>1. Rows'
    BY <1>2 DEF ReleaseStale, Inv, Rows
  <2> QED
    BY <1>2, <2>1, QuietKeeps DEF ReleaseStale
<1>3. CASE ReleaseStale /\ Release(sweep)
  <2>1. /\ sweep \in SUBSET Ids /\ sweep' = {}
        /\ UNCHANGED <<today, account, default, payments, trades>>
    BY <1>3 DEF ReleaseStale, Inv, Rows
  <2>2. /\ reservations' \in [Ids -> ReservationRow]
        /\ \A q \in Ids : \/ reservations'[q] = reservations[q]
                         \/ (reservations[q].status # "CONSUMED" /\ reservations'[q].status = "RELEASED")
    BY <1>3, <2>1 DEF Release, Inv, Rows, ReservationRow
  <2>3. Rows'
    BY <2>1, <2>2 DEF Inv, Rows
  <2>4. EndedHoldsNothing' /\ Linked' /\ LeavingStays
    BY <2>1, <2>2 DEF EndedHoldsNothing, Linked, LeavingStays, Inv
  <2>5. Booked'
    BY <1>3, <2>1, <2>3, <2>4, ReleaseBooks
  <2> QED
    BY <2>3, <2>4, <2>5 DEF Inv
<1> QED
  BY <1>1, <1>2, <1>3 DEF ReleaseStale

LEMMA PaymentKeeps ==
  ASSUME Inv, NEW r \in Ids, PaymentCommand(r)
  PROVE  Inv'
<1>1. ASSUME NEW a \in Amounts, PlanPayout(r, a) \/ PlanRefund(r, a) \/ RecordPayment(r, a)
      PROVE  Inv'
  <2>1. ASSUME NEW kind \in Kinds, NEW t \in Trades \cup {"NONE"}, Plan(r, kind, t, a),
               kind \in {"PAYOUT", "REFUND"} => t \in Trades
        PROVE  Inv'
    <3> DEFINE row == [kind |-> kind, trade |-> t, status |-> "PENDING"]
    <3>1. row \in PaymentRow
      BY DEF PaymentRow
    <3>2. today \in Days
      BY DEF Inv, Rows
    <3>3. row.status = "PENDING" /\ row.kind = kind /\ row.trade = t
      OBVIOUS
    <3>4. /\ Reserve(r, today, a) /\ payments' = [payments EXCEPT ![r] = row]
          /\ reservations[r] = NoReservation /\ (t \in Trades => trades[t] = "OPEN")
          /\ UNCHANGED <<today, account, default, trades, sweep>>
      BY <2>1 DEF Plan
    <3> HIDE DEF row
    <3> QED
      BY <2>1, <3>1, <3>2, <3>3, <3>4, ReserveKeeps
  <2> QED
    BY <1>1, <2>1 DEF PlanPayout, PlanRefund, RecordPayment, Kinds, Trades
<1>2. ASSUME NEW a \in Amounts, NEW d \in Days, NEW t \in Trades \cup {"NONE"}, ReserveByHand(r, t, d, a)
      PROVE  Inv'
  <2> DEFINE row == [kind |-> "MANUAL", trade |-> t, status |-> "NONE"]
  <2>1. row \in PaymentRow
    BY DEF PaymentRow, Kinds
  <2>2. row.status = "NONE" /\ row.kind = "MANUAL"
    OBVIOUS
  <2>3. /\ Reserve(r, d, a) /\ payments' = [payments EXCEPT ![r] = row]
        /\ reservations[r] = NoReservation /\ UNCHANGED <<today, account, default, trades, sweep>>
    BY <1>2 DEF ReserveByHand
  <2> HIDE DEF row
  <2> QED
    BY <2>1, <2>2, <2>3, ReserveKeeps
<1>3. CASE SendLeg(r) \/ ConfirmRefund(r) \/ ConfirmRecorded(r)
  BY <1>3, ConsumeKeeps DEF SendLeg, ConfirmRefund, ConfirmRecorded, Leaving
<1>4. CASE CancelLeg(r) \/ FailRecorded(r)
  BY <1>4, ReleaseOneKeeps DEF CancelLeg, FailRecorded
<1> QED
  BY <1>1, <1>2, <1>3, <1>4, ConfirmPayoutKeeps, FailLegKeeps DEF PaymentCommand

LEMMA InvInit == Init => Inv
<1> SUFFICES ASSUME Init PROVE Inv
  OBVIOUS
<1>1. Rows
  <2>1. NoPayment \in PaymentRow /\ NoReservation \in ReservationRow /\ 1 \in Days
    BY CapacityAssumption DEF NoPayment, NoReservation, PaymentRow, ReservationRow, Kinds, Trades, Days
  <2> QED
    BY <2>1 DEF Init, Rows, Trades
<1>2. EndedHoldsNothing /\ Linked
  BY DEF Init, EndedHoldsNothing, Linked, NoPayment, NoReservation, Leaving
<1>3. ASSUME NEW d \in Days PROVE RowIsExact(d)
  <2>1. OpenOn(d) = {} /\ OutOn(d) = {}
    BY DEF Init, OpenOn, OutOn, NoPayment, NoReservation, Leaving
  <2>2. Sum(AmountOf, {}) = 0
    BY SumEmpty
  <2>3. days[d] = [open |-> FALSE, capacity |-> 0, used |-> 0, reserved |-> 0]
    BY DEF Init, NoDay
  <2> QED
    BY <2>1, <2>2, <2>3 DEF RowIsExact, DayRow
<1>4. DOMAIN days = Days /\ days = [d \in Days |-> days[d]]
  BY DEF Init
<1>5. \A r \in Ids : reservations[r].status \notin {"ACTIVE", "CONSUMED"}
  BY DEF Init, NoReservation
<1> QED
  BY <1>1, <1>2, <1>3, <1>4, <1>5 DEF Inv, Booked

LEMMA InvNext == Inv /\ [Next]_vars => Inv'
<1> SUFFICES ASSUME Inv, [Next]_vars PROVE Inv'
  OBVIOUS
<1>1. CASE \E r \in Ids : PaymentCommand(r)
  BY <1>1, PaymentKeeps
<1>2. ASSUME NEW t \in Trades, CompleteTrade(t) \/ CancelTrade(t)
      PROVE  Inv'
  BY <1>2, TradeEnds DEF CompleteTrade, CancelTrade
<1>3. CASE \/ \E d \in Days, c \in Capacities : SetDay(d, c)
           \/ \E c \in Capacities : SetDefault(c)
           \/ \E s \in {"ACTIVE", "PAUSED"} : SetStatus(s)
           \/ NextDay \/ UNCHANGED vars
  <2>1. Rows'
    BY <1>3, CapacityAssumption DEF SetDay, SetDefault, SetStatus, NextDay, vars, Inv, Rows, Days
  <2>2. /\ UNCHANGED <<payments, reservations, trades>>
        /\ \/ days' = days
           \/ \E d \in Days, c \in Capacities : days' = [days EXCEPT ![d] = [Opened(d) EXCEPT !.capacity = c]]
    BY <1>3 DEF SetDay, SetDefault, SetStatus, NextDay, vars
  <2> QED
    BY <2>1, <2>2, QuietKeeps
<1> QED
  BY <1>1, <1>2, <1>3, RolloverKeeps DEF Next

LEMMA InvHolds == Spec => []Inv
BY InvInit, InvNext, PTL DEF Spec

LEMMA InvExact == Inv => DayIsExact
<1> SUFFICES ASSUME Inv PROVE DayIsExact
  OBVIOUS
<1>1. \A d \in Days : days[d] \in DayRow
  BY DEF Inv, Booked, RowIsExact
<1>2. TypeOK
  BY <1>1 DEF TypeOK, Inv, Rows, Booked, DayRow, PaymentRow, ReservationRow
<1>3. ASSUME NEW d \in Days
      PROVE  /\ days[d].reserved = Held(d, Ids)
             /\ days[d].used = SumOn(d, {r \in Ids : payments[r].status \in Leaving})
  <2>1. OpenOn(d) \cap Ids = OpenOn(d) /\ Ids \in SUBSET Ids
    BY DEF OpenOn
  <2>2. /\ Held(d, Ids) = Sum(AmountOf, OpenOn(d) \cap Ids)
        /\ SumOn(d, {r \in Ids : payments[r].status \in Leaving}) = Sum(AmountOf, OutOn(d))
    BY <2>1, HeldIsOpen, Zenon
  <2>3. days[d].reserved = Sum(AmountOf, OpenOn(d)) /\ days[d].used = Sum(AmountOf, OutOn(d))
    BY DEF Inv, Booked, RowIsExact
  <2> QED
    BY <2>1, <2>2, <2>3, Zenon
<1> QED
  BY <1>2, <1>3 DEF DayIsExact, Inv

\* What a day has reserved is what its open reservations hold, what it has used is
\* what its payments took, and what ended holds nothing, for every reservation,
\* amount, capacity, rollover limit and number of days (accountday.ts, inrcapacity.ts).
THEOREM DayIsExactHolds == Spec => []DayIsExact
BY InvHolds, InvExact, PTL

-----------------------------------------------------------------------------
(* A day grows only within its capacity. *)

\* What is used and reserved on a day.
Committed(d) == days[d].used + days[d].reserved

\* No command but a reservation makes a day fuller.
LEMMA OnlyReserveGrows ==
  ASSUME Inv, [Next]_vars, NEW d \in Days
  PROVE  \/ Committed(d)' <= Committed(d)
         \/ \E r \in Ids, a \in Amounts : Reserve(r, d, a)
<1>1. /\ days[d] \in DayRow /\ days[d].used \in Nat /\ days[d].reserved \in Nat /\ DOMAIN days = Days
      /\ \A r \in Ids : reservations[r].day \in Days /\ reservations[r].amount \in Nat
  <2>1. \A r \in Ids : reservations[r].day \in Days /\ reservations[r].amount \in Nat
    BY AmountOfOne DEF Inv, Rows, ReservationRow
  <2> QED
    BY <2>1 DEF Inv, Booked, RowIsExact, DayRow
<1>2. ASSUME days' = days PROVE Committed(d)' <= Committed(d)
  BY <1>1, <1>2 DEF Committed
<1>3. ASSUME NEW r \in Ids, Consume(r) PROVE Committed(d)' <= Committed(d)
  <2>1. PICK day \in Days, a \in Nat : day = reservations[r].day /\ a = reservations[r].amount
    BY <1>1
  <2> DEFINE mid == [days EXCEPT ![day].reserved = @ - a]
  <2>2. days' = [mid EXCEPT ![day].used = @ + a]
    BY <1>3, <2>1 DEF Consume
  <2>3. /\ DOMAIN mid = Days /\ mid[d].used = days[d].used
        /\ mid[d].reserved = IF d = day THEN days[d].reserved - a ELSE days[d].reserved
        /\ "used" \in DOMAIN mid[d]
    BY <1>1 DEF DayRow
  <2> HIDE DEF mid
  <2>4. /\ days'[d].reserved = mid[d].reserved
        /\ days'[d].used = IF d = day THEN mid[d].used + a ELSE mid[d].used
    BY <2>2, <2>3
  <2> QED
    BY <1>1, <2>3, <2>4 DEF Committed
<1>4. ASSUME NEW R \in SUBSET Ids, Release(R) PROVE Committed(d)' <= Committed(d)
  <2>1. Held(d, R) \in Nat
    <3>1. OpenOn(d) \cap R \in SUBSET Ids /\ AmountOf \in [Ids -> Nat]
      BY AmountsAreNumbers DEF Inv, Rows, AmountOf
    <3>2. Sum(AmountOf, OpenOn(d) \cap R) \in Nat
      BY <3>1, CapacityAssumption, SumNat
    <3> QED
      BY <3>2, HeldIsOpen
  <2> DEFINE h == Held(d, R)
  <2>2. days'[d] = [days[d] EXCEPT !.reserved = @ - h]
    BY <1>4 DEF Release
  <2>3. h \in Nat
    BY <2>1
  <2> HIDE DEF h
  <2> QED
    BY <1>1, <2>2, <2>3 DEF Committed, DayRow
<1>5. ASSUME NEW r \in Ids, RefundConsumed(r) PROVE Committed(d)' <= Committed(d)
  <2>1. PICK day \in Days, a \in Nat : day = reservations[r].day /\ a = reservations[r].amount
    BY <1>1
  <2>2. days' = [days EXCEPT ![day].used = @ - a]
    BY <1>5, <2>1 DEF RefundConsumed
  <2>3. /\ days'[d].reserved = days[d].reserved
        /\ days'[d].used = IF d = day THEN days[d].used - a ELSE days[d].used
    BY <1>1, <2>2 DEF DayRow
  <2> QED
    BY <1>1, <2>3 DEF Committed
<1>6. ASSUME NEW e \in Days, NEW c \in Capacities, SetDay(e, c) PROVE Committed(d)' <= Committed(d)
  <2> DEFINE row == Opened(e)
  <2>1. /\ row \in DayRow /\ row.used = days[e].used /\ row.reserved = days[e].reserved
    BY OpenedKeeps
  <2>2. days' = [days EXCEPT ![e] = [row EXCEPT !.capacity = c]]
    BY <1>6 DEF SetDay
  <2> HIDE DEF row
  <2>3. days'[d].used = days[d].used /\ days'[d].reserved = days[d].reserved
    BY <1>1, <2>1, <2>2 DEF DayRow
  <2> QED
    BY <1>1, <2>3 DEF Committed
<1>7. ASSUME NEW r \in Ids, NEW e \in Days, NEW a \in Amounts, Reserve(r, e, a)
      PROVE  Committed(d)' <= Committed(d) \/ Reserve(r, d, a)
  <2>1. CASE e = d
    BY <1>7, <2>1
  <2>2. CASE e # d
    <3>1. days'[d] = days[d]
      BY <1>1, <1>7, <2>2 DEF Reserve
    <3> QED
      BY <1>1, <3>1 DEF Committed
  <2> QED
    BY <2>1, <2>2
<1>8. /\ sweep \in SUBSET Ids /\ today \in Days
      /\ \A t \in Trades : ActiveOf(t) \in SUBSET Ids
      /\ \A r \in Ids : {r} \in SUBSET Ids
  BY DEF Inv, Rows, ActiveOf
<1>9. \/ days' = days
      \/ \E r \in Ids : Consume(r) \/ RefundConsumed(r)
      \/ \E R \in SUBSET Ids : Release(R)
      \/ \E e \in Days, c \in Capacities : SetDay(e, c)
      \/ \E r \in Ids, e \in Days, a \in Amounts : Reserve(r, e, a)
  <2>1. CASE \E r \in Ids : PaymentCommand(r)
    BY <1>8, <2>1 DEF PaymentCommand, PlanPayout, PlanRefund, RecordPayment, Plan, ReserveByHand, SendLeg,
                      ConfirmPayout, ConfirmRefund, CancelLeg, FailLeg, ConfirmRecorded, FailRecorded
  <2>2. CASE \E t \in Trades : CompleteTrade(t) \/ CancelTrade(t)
    BY <1>8, <2>2 DEF CompleteTrade, CancelTrade
  <2>3. CASE \/ \E c \in Capacities : SetDefault(c)
             \/ \E s \in {"ACTIVE", "PAUSED"} : SetStatus(s)
             \/ NextDay \/ ReadStale \/ ReleaseStale \/ UNCHANGED vars
    BY <1>8, <2>3 DEF SetDefault, SetStatus, NextDay, ReadStale, ReleaseStale, vars
  <2> QED
    BY <2>1, <2>2, <2>3 DEF Next
<1> QED
  BY <1>2, <1>3, <1>4, <1>5, <1>6, <1>7, <1>9

\* A reservation is only made when it fits.
LEMMA ReserveFits ==
  ASSUME Inv, NEW r \in Ids, NEW d \in Days, NEW a \in Amounts, Reserve(r, d, a)
  PROVE  Committed(d)' <= days'[d].capacity
<1> DEFINE row == Opened(d)
<1>1. row \in DayRow /\ DOMAIN days = Days
  BY OpenedKeeps DEF Inv, Booked
<1>2. a <= row.capacity - row.used - row.reserved /\ days'[d] = [row EXCEPT !.reserved = @ + a]
  BY <1>1 DEF Reserve, Remaining
<1>3. a \in Nat /\ Capacities \cup {0} \subseteq Nat
  BY CapacityAssumption
<1> HIDE DEF row
<1>4. row.capacity \in Nat /\ row.used \in Nat /\ row.reserved \in Nat
  <2>1. row.capacity \in Capacities \cup {0} /\ row.used \in Nat /\ row.reserved \in Nat
    BY <1>1 DEF DayRow
  <2> QED
    BY <1>3, <2>1
<1>5. days'[d].used = row.used /\ days'[d].reserved = row.reserved + a /\ days'[d].capacity = row.capacity
  BY <1>1, <1>2 DEF DayRow
<1> QED
  BY <1>2, <1>3, <1>4, <1>5 DEF Committed

\* What is used and reserved on a day grows only within its capacity, whatever was
\* sent, failed, released or lowered before (reserveCapacity, setDayCapacity).
THEOREM GrowsWithinCapacityHolds == Spec => GrowsWithinCapacity
<1>1. Inv /\ [Next]_vars =>
        [\A d \in Days :
           days'[d].used + days'[d].reserved > days[d].used + days[d].reserved =>
             days'[d].used + days'[d].reserved <= days'[d].capacity]_vars
  <2> SUFFICES ASSUME Inv, [Next]_vars, NEW d \in Days,
                      days'[d].used + days'[d].reserved > days[d].used + days[d].reserved
               PROVE  days'[d].used + days'[d].reserved <= days'[d].capacity
    OBVIOUS
  <2>1. Inv'
    BY InvNext
  <2>2. days[d].used \in Nat /\ days[d].reserved \in Nat /\ days'[d].used \in Nat /\ days'[d].reserved \in Nat
    BY <2>1 DEF Inv, Booked, RowIsExact, DayRow
  <2>3. ~(Committed(d)' <= Committed(d))
    BY <2>2 DEF Committed
  <2>4. PICK r \in Ids, a \in Amounts : Reserve(r, d, a)
    BY <2>3, OnlyReserveGrows
  <2>5. Committed(d)' <= days'[d].capacity
    BY <2>4, ReserveFits
  <2> QED
    BY <2>5 DEF Committed
<1> QED
  BY <1>1, InvHolds, PTL DEF Spec, GrowsWithinCapacity
-------------------------------------------------------------------------------

(***************************************************************************)
(* Funding. `Priced` gives the amount of every use; `MarkSound` says of    *)
(* one use what its earmark is in each state of its row, and the invariant *)
(* adds that no money is earmarked twice over and that what was handed to  *)
(* the exchange or undone is on the record of the trade.                   *)
(***************************************************************************)
Priced == [u \in Uses |-> IF u \in Sends THEN send[u].amount ELSE Amount(u)]
Funds == ClientFunds \cup CounterpartyFunds
Avail(s) == IF s \in Funds THEN Amount(s) ELSE 0
FundsOf(u) == IF u \in Legs /\ leg[u].kind = "PAYOUT" THEN CounterpartyFunds ELSE ClientFunds
Takers == {u \in Uses : mark[u].state \in {"ACTIVE", "CONSUMED"}}

\* A row that was never written, and one whose money is gone.
Fresh(u) == \/ u \in Legs /\ leg[u].state = "NONE"
            \/ u \in Settlements /\ sett[u].state = "NONE"
            \/ u \in Sends /\ send[u].state = "NONE"
Spent(u) == \/ u \in Legs /\ leg[u].state = "DONE" /\ leg[u].kind \in {"PAYOUT", "UNWIND", "EXCESS"}
            \/ u \in Sends /\ send[u].state = "CONFIRMED"

\* The earmark of one use, live or not.
MarkSound(u) ==
  /\ Live(u) <=> mark[u].state = "ACTIVE"
  /\ Fresh(u) => mark[u].state = "NONE"
  /\ Spent(u) => mark[u].state = "CONSUMED"
  /\ u \in Settlements /\ sett[u].state = "CONFIRMED" /\ sett[u].flow = "TO_ROUTE" =>
       mark[u].state \in {"NONE", "CONSUMED"}
  /\ mark[u].state = "NONE" => \A s \in Sources : mark[u].of[s] = 0
  /\ mark[u].state # "NONE" => Sum(mark[u].of, Sources) = Priced[u]
  /\ \A s \in Sources : mark[u].of[s] > 0 => s \in FundsOf(u)
  /\ u \in Sends /\ ~Fresh(u) => send[u].amount > 0
Marked == \A u \in Uses : MarkSound(u)

\* No source gives more than it brought.
Within == \A s \in Sources : Taken(s) <= Avail(s)

\* The settlements that no earmark of their own paid for are those of the signer's payments.
GoneOut == {s \in Settlements : sett[s].state = "CONFIRMED" /\ sett[s].flow = "TO_ROUTE"}
BySend == {s \in GoneOut : mark[s].state = "NONE"}
Signed == {x \in Sends : send[x].state = "CONFIRMED"}
HandedOver == Sum(Priced, BySend) = Sum(Priced, Signed)

\* A cancelled obligation has no payment of the signer behind it.
Undone == obligation = "CANCELLED" => \A x \in Sends : send[x].state \in {"NONE", "CANCELLED"}


FundInv == FundingTypeOK /\ Marked /\ Within /\ HandedOver /\ Undone /\ AllocationExact

LegRow  == [state : {"NONE", "LIVE", "DONE", "DEAD"}, kind : LegKinds, amount : Nat]
SettRow == [state : {"NONE", "RECORDED", "CONFIRMED", "FAILED"}, flow : {"FROM_ROUTE", "TO_ROUTE"}, amount : Nat]
SendRow == [state : {"NONE", "PLANNED", "LANDED", "CONFIRMED", "CANCELLED"}, amount : Nat]
MarkRow == [state : {"NONE", "ACTIVE", "CONSUMED", "RELEASED"}, of : [Sources -> Nat]]

-----------------------------------------------------------------------------
LEMMA UsesAreFinite ==
  /\ IsFiniteSet(Uses) /\ IsFiniteSet(Sources) /\ IsFiniteSet(Legs)
  /\ IsFiniteSet(Settlements) /\ IsFiniteSet(Sends)
<1>1. IsFiniteSet(Uses)
  BY FundingAssumption DEF Uses
<1>2. /\ Sources \in SUBSET Uses /\ Legs \in SUBSET Uses
      /\ Settlements \in SUBSET Uses /\ Sends \in SUBSET Uses
  BY DEF Uses, Sources
<1> QED
  BY <1>1, <1>2, FS_Subset

\* The types of the rows, as the lemmas below take them.
LEMMA RowsTyped ==
  ASSUME FundingTypeOK
  PROVE  /\ leg \in [Legs -> LegRow] /\ sett \in [Settlements -> SettRow]
         /\ send \in [Sends -> SendRow] /\ mark \in [Uses -> MarkRow]
BY DEF FundingTypeOK, LegRow, SettRow, SendRow, MarkRow

LEMMA RowsTypedNext ==
  ASSUME FundingTypeOK'
  PROVE  /\ leg' \in [Legs -> LegRow] /\ sett' \in [Settlements -> SettRow]
         /\ send' \in [Sends -> SendRow] /\ mark' \in [Uses -> MarkRow]
BY DEF FundingTypeOK, LegRow, SettRow, SendRow, MarkRow

LEMMA PriceOf ==
  ASSUME leg \in [Legs -> LegRow], sett \in [Settlements -> SettRow], send \in [Sends -> SendRow]
  PROVE  /\ Priced \in [Uses -> Nat]
         /\ \A l \in Legs : Priced[l] = leg[l].amount
         /\ \A s \in Settlements : Priced[s] = sett[s].amount
         /\ \A x \in Sends : Priced[x] = send[x].amount
         /\ \A s \in Sources : Priced[s] = Amount(s)
<1>1. \A u \in Uses : Priced[u] = IF u \in Sends THEN send[u].amount
                                  ELSE IF u \in Legs THEN leg[u].amount ELSE sett[u].amount
  BY DEF Priced, Amount
<1>2. Priced = [u \in Uses |-> Priced[u]]
  BY DEF Priced
<1>3. \A u \in Uses : u \in Legs \/ u \in Settlements \/ u \in Sends
  BY DEF Uses
<1>4. Legs \cap Settlements = {} /\ Legs \cap Sends = {} /\ Settlements \cap Sends = {}
  BY FundingAssumption
<1>5. \A l \in Legs : l \in Uses /\ leg[l].amount \in Nat
  BY DEF Uses, LegRow
<1>6. \A s \in Settlements : s \in Uses /\ sett[s].amount \in Nat
  BY DEF Uses, SettRow
<1>7. \A x \in Sends : x \in Uses /\ send[x].amount \in Nat
  BY DEF Uses, SendRow
<1>8. \A u \in Uses : Priced[u] \in Nat
  BY <1>1, <1>3, <1>5, <1>6, <1>7
<1>9. /\ \A l \in Legs : Priced[l] = leg[l].amount
      /\ \A s \in Settlements : Priced[s] = sett[s].amount
      /\ \A x \in Sends : Priced[x] = send[x].amount
  BY <1>1, <1>4, <1>5, <1>6, <1>7
<1>10. \A s \in Sources : Priced[s] = Amount(s)
  BY <1>4, <1>9 DEF Sources, Amount
<1>11. Priced \in [Uses -> Nat]
  BY <1>2, <1>8
<1> QED
  BY <1>9, <1>10, <1>11

LEMMA PriceOfNext ==
  ASSUME leg' \in [Legs -> LegRow], sett' \in [Settlements -> SettRow], send' \in [Sends -> SendRow]
  PROVE  /\ Priced' \in [Uses -> Nat]
         /\ \A l \in Legs : Priced'[l] = leg'[l].amount
         /\ \A s \in Settlements : Priced'[s] = sett'[s].amount
         /\ \A x \in Sends : Priced'[x] = send'[x].amount
         /\ \A s \in Sources : Priced'[s] = Amount(s)'
<1>1. \A u \in Uses : Priced'[u] = IF u \in Sends THEN send'[u].amount
                                  ELSE IF u \in Legs THEN leg'[u].amount ELSE sett'[u].amount
  BY DEF Priced, Amount
<1>2. Priced' = [u \in Uses |-> Priced'[u]]
  BY DEF Priced
<1>3. \A u \in Uses : u \in Legs \/ u \in Settlements \/ u \in Sends
  BY DEF Uses
<1>4. Legs \cap Settlements = {} /\ Legs \cap Sends = {} /\ Settlements \cap Sends = {}
  BY FundingAssumption
<1>5. \A l \in Legs : l \in Uses /\ leg'[l].amount \in Nat
  BY DEF Uses, LegRow
<1>6. \A s \in Settlements : s \in Uses /\ sett'[s].amount \in Nat
  BY DEF Uses, SettRow
<1>7. \A x \in Sends : x \in Uses /\ send'[x].amount \in Nat
  BY DEF Uses, SendRow
<1>8. \A u \in Uses : Priced'[u] \in Nat
  BY <1>1, <1>3, <1>5, <1>6, <1>7
<1>9. /\ \A l \in Legs : Priced'[l] = leg'[l].amount
      /\ \A s \in Settlements : Priced'[s] = sett'[s].amount
      /\ \A x \in Sends : Priced'[x] = send'[x].amount
  BY <1>1, <1>4, <1>5, <1>6, <1>7
<1>10. \A s \in Sources : Priced'[s] = Amount(s)'
  BY <1>4, <1>9 DEF Sources, Amount
<1>11. Priced' \in [Uses -> Nat]
  BY <1>2, <1>8
<1> QED
  BY <1>9, <1>10, <1>11

\* What a total says of the rows it counts.
LEMMA TotalIs ==
  ASSUME NEW rows, NEW amount, NEW S, \A r \in S : amount[r] = rows[r].amount
  PROVE  Total(rows, S) = Sum(amount, S)
<1>1. \A r \in S : [q \in S |-> rows[q].amount][r] = amount[r]
  OBVIOUS
<1> QED
  BY <1>1, SumSame DEF Total
-----------------------------------------------------------------------------
(* What the earmarks take of the sources. *)

LEMMA TakesAre ==
  ASSUME NEW m \in [Uses -> MarkRow], NEW s \in Sources
  PROVE  [u \in Uses |-> m[u].of[s]] \in [Uses -> Nat]
BY DEF MarkRow

LEMMA TakenIsNat ==
  ASSUME mark \in [Uses -> MarkRow], NEW s \in Sources
  PROVE  Taken(s) \in Nat
<1> DEFINE a == [u \in Uses |-> mark[u].of[s]]
           T == {u \in Uses : mark[u].state \in {"ACTIVE", "CONSUMED"}}
<1>1. a \in [Uses -> Nat]
  BY TakesAre
<1>2. Taken(s) = Sum(a, T)
  BY DEF Taken, TakenBy
<1>3. T \in SUBSET Uses
  OBVIOUS
<1> HIDE DEF a, T
<1> QED
  BY <1>1, <1>2, <1>3, UsesAreFinite, SumNat

LEMMA TakenIsNatNext ==
  ASSUME mark' \in [Uses -> MarkRow], NEW s \in Sources
  PROVE  Taken(s)' \in Nat
<1> DEFINE a == [u \in Uses |-> mark'[u].of[s]]
           T == {u \in Uses : mark'[u].state \in {"ACTIVE", "CONSUMED"}}
<1>1. a \in [Uses -> Nat]
  BY TakesAre
<1>2. Taken(s)' = Sum(a, T)
  BY DEF Taken, TakenBy
<1>3. T \in SUBSET Uses
  OBVIOUS
<1> HIDE DEF a, T
<1> QED
  BY <1>1, <1>2, <1>3, UsesAreFinite, SumNat

\* Earmarks that end, and those that only become consumed, take no more than before.
LEMMA EndedTakesLess ==
  ASSUME mark \in [Uses -> MarkRow], mark' \in [Uses -> MarkRow],
         \A u \in Uses : mark'[u].of = mark[u].of,
         \A u \in Uses : mark'[u].state \in {"ACTIVE", "CONSUMED"} => mark[u].state \in {"ACTIVE", "CONSUMED"},
         NEW s \in Sources
  PROVE  Taken(s)' <= Taken(s)
<1>1. PICK a : a = [u \in Uses |-> mark[u].of[s]]
  OBVIOUS
<1>2. PICK b : b = [u \in Uses |-> mark'[u].of[s]]
  OBVIOUS
<1>3. PICK R : R = {u \in Uses : mark[u].state \in {"ACTIVE", "CONSUMED"}}
  OBVIOUS
<1>4. PICK S : S = {u \in Uses : mark'[u].state \in {"ACTIVE", "CONSUMED"}}
  OBVIOUS
<1>5. a \in [Uses -> Nat] /\ b \in [Uses -> Nat]
  BY <1>1, <1>2, TakesAre
<1>6. S \in SUBSET R /\ R \in SUBSET Uses
  BY <1>3, <1>4
<1>7. \A u \in S : b[u] <= a[u]
  BY <1>1, <1>2, <1>5, <1>6
<1>8. Sum(b, S) <= Sum(a, R)
  BY <1>5, <1>6, <1>7, UsesAreFinite, SumBelow
<1>9. Taken(s) = Sum(a, R) /\ Taken(s)' = Sum(b, S)
  BY <1>1, <1>2, <1>3, <1>4 DEF Taken, TakenBy
<1> QED
  BY <1>8, <1>9

\* The outcome of an earmark.
Earmarked(u, S, n, of) ==
  /\ mark' = [mark EXCEPT ![u] = [state |-> "ACTIVE", of |-> of]]
  /\ Sum(of, Sources) = n
  /\ \A s \in Sources : of[s] > 0 => s \in S
  /\ mark' \in [Uses -> MarkRow]
  /\ \A s \in Sources : Taken(s)' <= Avail(s)

\* A new earmark takes what it says, and finds it free.
LEMMA EarmarkTakes ==
  ASSUME FundingTypeOK, Within, NEW u \in Uses, mark[u].state = "NONE",
         NEW S \in SUBSET Funds, NEW n \in Nat, Earmark(u, S, n)
  PROVE  \E of \in [Sources -> Nat] : Earmarked(u, S, n, of)
<1>1. PICK f \in Splits(S, n) :
        mark' = [mark EXCEPT ![u] = [state |-> "ACTIVE", of |-> [s \in Sources |-> IF s \in S THEN f[s] ELSE 0]]]
  BY DEF Earmark
<1>2. f \in [S -> 0 .. n] /\ (\A s \in S : f[s] <= Amount(s) - Taken(s)) /\ Sum(f, S) = n
  BY DEF Splits
<1>3. PICK of : of = [s \in Sources |-> IF s \in S THEN f[s] ELSE 0]
  OBVIOUS
<1>4. Funds \subseteq Sources
  BY DEF Funds, ClientFunds, CounterpartyFunds, LegsOf, Sources
<1>5. of \in [Sources -> Nat]
  BY <1>2, <1>3
<1>6. mark' = [mark EXCEPT ![u] = [state |-> "ACTIVE", of |-> of]]
  BY <1>1, <1>3
<1>7. \A s \in Sources : of[s] > 0 => s \in S
  BY <1>3
<1>8. Sum(of, Sources) = n
  <2>1. \A s \in S : of[s] = f[s]
    BY <1>3, <1>4
  <2>2. \A s \in Sources \ S : of[s] = 0
    BY <1>3
  <2> QED
    BY <1>2, <1>4, <2>1, <2>2, SumPadded
<1>9. mark \in [Uses -> MarkRow]
  BY RowsTyped
<1>10. mark' \in [Uses -> MarkRow]
  <2>1. [state |-> "ACTIVE", of |-> of] \in MarkRow
    BY <1>5 DEF MarkRow
  <2> QED
    BY <1>6, <1>9, <2>1
<1>11. ASSUME NEW s \in Sources PROVE Taken(s)' <= Avail(s)
  <2>1. PICK a : a = [v \in Uses |-> mark[v].of[s]]
    OBVIOUS
  <2>2. PICK b : b = [v \in Uses |-> mark'[v].of[s]]
    OBVIOUS
  <2>3. PICK R : R = {v \in Uses : mark[v].state \in {"ACTIVE", "CONSUMED"}}
    OBVIOUS
  <2>4. a \in [Uses -> Nat] /\ b \in [Uses -> Nat]
    BY <1>9, <1>10, <2>1, <2>2, TakesAre
  <2>5. mark'[u] = [state |-> "ACTIVE", of |-> of] /\ \A v \in Uses : v # u => mark'[v] = mark[v]
    BY <1>6, <1>9
  <2>6. {v \in Uses : mark'[v].state \in {"ACTIVE", "CONSUMED"}} = R \cup {u}
    BY <2>3, <2>5
  <2>7. u \notin R /\ R \in SUBSET Uses
    BY <2>3
  <2>8. Sum(b, R) = Sum(a, R)
    <3>1. \A v \in R : b[v] = a[v]
      BY <2>1, <2>2, <2>5, <2>7
    <3> QED
      BY <3>1, SumSame
  <2>9. b[u] = of[s]
    BY <2>2, <2>5
  <2>10. Sum(b, {u}) = of[s]
    BY <2>4, <2>9, UsesAreFinite, SumOne
  <2>11. Sum(b, R \cup {u}) = Sum(b, R) + Sum(b, {u})
    <3>1. {u} \in SUBSET Uses /\ R \cap {u} = {}
      BY <2>7
    <3> QED
      BY <2>4, <2>7, <3>1, UsesAreFinite, SumApart
  <2>12. Taken(s) = Sum(a, R) /\ Taken(s)' = Sum(b, R \cup {u})
    BY <2>1, <2>2, <2>3, <2>6 DEF Taken, TakenBy
  <2>13. Taken(s) \in Nat /\ of[s] \in Nat
    BY <1>5, <1>9, TakenIsNat
  <2>14. Taken(s)' = Taken(s) + of[s]
    BY <2>8, <2>10, <2>11, <2>12
  <2>15. CASE s \in S
    <3>1. of[s] = f[s] /\ f[s] \in 0 .. n /\ f[s] <= Amount(s) - Taken(s) /\ Avail(s) = Amount(s)
      BY <1>2, <1>3, <2>15 DEF Avail
    <3>2. Amount(s) \in Nat
      BY RowsTyped, PriceOf DEF Sources, Uses
    <3> QED
      BY <2>13, <2>14, <3>1, <3>2
  <2>16. CASE s \notin S
    <3>1. of[s] = 0 /\ Taken(s) <= Avail(s)
      BY <1>3, <2>16 DEF Within
    <3> QED
      BY <2>13, <2>14, <3>1
  <2> QED
    BY <2>15, <2>16
<1> QED
  BY <1>5, <1>6, <1>7, <1>8, <1>10, <1>11 DEF Earmarked

\* What uses took of some funds is no more than those funds are: their earmarks add up to
\* their amounts by use, and to what the sources gave by source.
LEMMA PaidFromFunds ==
  ASSUME FundingTypeOK, Marked, Within, NEW P \in SUBSET Takers, NEW F \in SUBSET Funds,
         \A u \in P, s \in Sources : mark[u].of[s] > 0 => s \in F
  PROVE  Sum(Priced, P) <= Sum(Priced, F)
<1>1. PICK m : m = [u \in P |-> mark[u].of]
  OBVIOUS
<1>a. PICK w : w = [s \in Sources |-> [u \in P |-> m[u][s]]]
  OBVIOUS
<1>2. PICK down : down = [s \in Sources |-> Sum(w[s], P)]
  OBVIOUS
<1>3. PICK avail : avail = [s \in Sources |-> IF s \in F THEN Priced[s] ELSE 0]
  OBVIOUS
<1>4. PICK across : across = [u \in P |-> Priced[u]]
  OBVIOUS
<1>5. P \in SUBSET Uses /\ IsFiniteSet(P) /\ IsFiniteSet(Sources)
  <2>1. P \in SUBSET Uses
    BY DEF Takers
  <2> QED
    BY <2>1, UsesAreFinite, FS_Subset
<1>6. mark \in [Uses -> MarkRow] /\ Priced \in [Uses -> Nat]
  BY RowsTyped, PriceOf
<1>7. F \in SUBSET Sources /\ Sources \in SUBSET Uses
  BY DEF Funds, ClientFunds, CounterpartyFunds, LegsOf, Sources, Uses
<1>8. m \in [P -> [Sources -> Nat]]
  BY <1>1, <1>5, <1>6 DEF MarkRow
<1>9. across \in [P -> Nat] /\ \A u \in P : across[u] = Priced[u]
  BY <1>4, <1>5, <1>6
<1>10. w \in [Sources -> [P -> Nat]] /\ \A u \in P, s \in Sources : w[s][u] = m[u][s]
  BY <1>a, <1>8
<1>11. down \in [Sources -> Nat]
  <2>1. \A s \in Sources : Sum(w[s], P) \in Nat
    BY <1>5, <1>10, SumNat
  <2> QED
    BY <1>2, <2>1
<1>12. \A u \in P : across[u] = Sum(m[u], Sources)
  <2> SUFFICES ASSUME NEW u \in P PROVE across[u] = Sum(m[u], Sources)
    OBVIOUS
  <2>1. MarkSound(u) /\ mark[u].state # "NONE"
    BY <1>5 DEF Marked, Takers
  <2>2. Sum(mark[u].of, Sources) = Priced[u]
    BY <2>1 DEF MarkSound
  <2> QED
    BY <1>1, <1>9, <2>2
<1>13. Sum(across, P) = Sum(down, Sources)
  <2>1. \A s \in Sources : down[s] = Sum(w[s], P)
    BY <1>2
  <2>2. Adds(m, P, Sources, across)
    BY <1>8, <1>9, <1>12 DEF Adds
  <2>3. Adds(w, Sources, P, down)
    BY <1>10, <1>11, <2>1 DEF Adds
  <2> QED
    BY <1>5, <1>10, <2>2, <2>3, SumExchange
<1>14. Sum(Priced, P) = Sum(across, P)
  BY <1>9, SumSame
<1>15. avail \in [Sources -> Nat]
  BY <1>3, <1>6, <1>7
<1>16. ASSUME NEW s \in Sources PROVE down[s] <= avail[s]
  <2>1. PICK a : a = w[s]
    OBVIOUS
  <2>2. down[s] = Sum(a, P)
    BY <1>2, <2>1
  <2>3. \A u \in P : a[u] = mark[u].of[s]
    BY <1>1, <1>10, <2>1
  <2>4. CASE s \in F
    <3>1. PICK b : b = [u \in Uses |-> mark[u].of[s]]
      OBVIOUS
    <3>2. b \in [Uses -> Nat]
      BY <1>6, <3>1, TakesAre
    <3>3. Sum(a, P) = Sum(b, P)
      <4>1. \A u \in P : a[u] = b[u]
        BY <1>5, <2>3, <3>1
      <4> QED
        BY <4>1, SumSame
    <3>4. Sum(b, P) <= Sum(b, Takers)
      <4>1. Takers \in SUBSET Uses
        BY DEF Takers
      <4>2. \A u \in P : b[u] <= b[u]
        BY <1>5, <3>2
      <4> QED
        BY <3>2, <4>1, <4>2, UsesAreFinite, SumBelow
    <3>5. Sum(b, Takers) = Taken(s)
      BY <3>1 DEF Taken, TakenBy, Takers
    <3>6. Taken(s) <= Avail(s) /\ Avail(s) = Amount(s) /\ Priced[s] = Amount(s) /\ avail[s] = Priced[s]
      BY <1>3, <2>4, RowsTyped, PriceOf DEF Within, Avail
    <3> QED
      BY <1>11, <1>15, <2>2, <3>3, <3>4, <3>5, <3>6, TakenIsNat, <1>6
  <2>5. CASE s \notin F
    <3>1. \A u \in P : mark[u].of[s] \in Nat
      BY <1>5, <1>6 DEF MarkRow
    <3>2. \A u \in P : a[u] = 0
      BY <2>3, <2>5, <3>1
    <3>3. Sum(a, P) = Sum(a, {})
      BY <3>2, SumPadded
    <3>4. Sum(a, {}) = 0
      BY SumEmpty
    <3>5. avail[s] = 0
      BY <1>3, <2>5
    <3> QED
      BY <2>2, <3>3, <3>4, <3>5
  <2> QED
    BY <2>4, <2>5
<1>17. Sum(down, Sources) <= Sum(avail, Sources)
  <2>1. Sources \in SUBSET Sources /\ \A s \in Sources : down[s] <= avail[s]
    BY <1>16
  <2> QED
    BY <1>5, <1>11, <1>15, <2>1, SumBelow
<1>18. Sum(avail, Sources) = Sum(Priced, F)
  <2>1. (\A s \in F : avail[s] = Priced[s]) /\ (\A s \in Sources \ F : avail[s] = 0)
    BY <1>3, <1>7
  <2> QED
    BY <1>7, <2>1, SumPadded
<1> QED
  BY <1>13, <1>14, <1>17, <1>18

-----------------------------------------------------------------------------
(* What a command leaves as it was. *)

\* Confirmed money stays where it is, whatever else is written.
FundsStand ==
  /\ ClientFunds \subseteq ClientFunds' /\ CounterpartyFunds \subseteq CounterpartyFunds'
  /\ \A s \in Sources : Avail(s) <= Avail(s)'

LEMMA FundsLast ==
  ASSUME leg \in [Legs -> LegRow], sett \in [Settlements -> SettRow], send \in [Sends -> SendRow],
         leg' \in [Legs -> LegRow], sett' \in [Settlements -> SettRow], send' \in [Sends -> SendRow],
         \A l \in Legs : leg[l].state = "DONE" /\ leg[l].kind = "CLIENT" => leg'[l] = leg[l],
         \A s \in Settlements : sett[s].state = "CONFIRMED" /\ sett[s].flow = "FROM_ROUTE" => sett'[s] = sett[s]
  PROVE  FundsStand
<1>1. ClientFunds \subseteq ClientFunds' /\ CounterpartyFunds \subseteq CounterpartyFunds'
  BY DEF ClientFunds, CounterpartyFunds, LegsOf
<1>2. ASSUME NEW s \in Sources PROVE Avail(s) <= Avail(s)'
  <2>1. Amount(s) \in Nat /\ Amount(s)' \in Nat
    BY PriceOf, PriceOfNext DEF Sources, Uses
  <2>2. CASE s \in Funds
    <3>1. s \in Funds'
      BY <1>1, <2>2 DEF Funds
    <3>2. Amount(s)' = Amount(s)
      BY <2>2, FundingAssumption DEF Funds, ClientFunds, CounterpartyFunds, LegsOf, Amount
    <3> QED
      BY <2>1, <2>2, <3>1, <3>2 DEF Avail
  <2>3. CASE s \notin Funds
    BY <2>1, <2>3 DEF Avail
  <2> QED
    BY <2>2, <2>3
<1> QED
  BY <1>1, <1>2 DEF FundsStand

LEMMA StillWithin ==
  ASSUME FundingTypeOK, FundingTypeOK', FundsStand, \A s \in Sources : Taken(s)' <= Avail(s)
  PROVE  Within'
<1>1. ASSUME NEW s \in Sources PROVE Taken(s)' <= Avail(s)'
  <2>1. Amount(s) \in Nat /\ Amount(s)' \in Nat
    BY RowsTyped, RowsTypedNext, PriceOf, PriceOfNext DEF Sources, Uses
  <2>2. Avail(s) \in Nat /\ Avail(s)' \in Nat
    BY <2>1 DEF Avail
  <2>3. Taken(s)' \in Nat
    <3>1. PICK b : b = [v \in Uses |-> mark'[v].of[s]]
      OBVIOUS
    <3>2. PICK S : S = {v \in Uses : mark'[v].state \in {"ACTIVE", "CONSUMED"}}
      OBVIOUS
    <3>3. b \in [Uses -> Nat] /\ S \in SUBSET Uses
      BY <3>1, <3>2, RowsTypedNext, TakesAre
    <3>4. Taken(s)' = Sum(b, S)
      BY <3>1, <3>2 DEF Taken, TakenBy
    <3> QED
      BY <3>3, <3>4, UsesAreFinite, SumNat
  <2>4. Avail(s) <= Avail(s)' /\ Taken(s)' <= Avail(s)
    BY DEF FundsStand
  <2> QED
    BY <2>2, <2>3, <2>4
<1> QED
  BY <1>1 DEF Within

\* A use whose row and earmark are not written is as sound as before.
LEMMA MarkStays ==
  ASSUME FundingTypeOK, FundingTypeOK', FundsStand, NEW u \in Uses, MarkSound(u), mark'[u] = mark[u],
         u \in Legs => leg'[u] = leg[u], u \in Settlements => sett'[u] = sett[u],
         u \in Sends => send'[u] = send[u]
  PROVE  MarkSound(u)'
<1>1. Live(u)' <=> Live(u)
  BY DEF Live
<1>2. Fresh(u)' <=> Fresh(u)
  BY DEF Fresh
<1>3. Spent(u)' <=> Spent(u)
  BY DEF Spent
<1>4. Priced'[u] = Priced[u]
  BY DEF Priced, Amount, Uses
<1>5. \A s \in Sources : s \in FundsOf(u) => s \in FundsOf(u)'
  BY DEF FundsOf, FundsStand
<1> QED
  BY <1>1, <1>2, <1>3, <1>4, <1>5 DEF MarkSound
\* The totals are sums over the amounts of the uses.
AllocatedRows(flow) == {s \in allocated : sett[s].flow = flow}

LEMMA TotalsAre ==
  ASSUME FundingTypeOK
  PROVE  /\ \A flow \in {"FROM_ROUTE", "TO_ROUTE"} :
              AllocatedTo(flow) = Sum(Priced, AllocatedRows(flow)) /\ AllocatedTo(flow) \in Nat
         /\ \A kinds, states : Come(kinds, states) = Sum(Priced, LegsOf(kinds, states)) /\ Come(kinds, states) \in Nat
<1>1. /\ Priced \in [Uses -> Nat]
      /\ (\A l \in Legs : Priced[l] = leg[l].amount) /\ (\A s \in Settlements : Priced[s] = sett[s].amount)
  BY RowsTyped, PriceOf
<1>2. ASSUME NEW flow PROVE AllocatedTo(flow) = Sum(Priced, AllocatedRows(flow)) /\ AllocatedTo(flow) \in Nat
  <2>1. AllocatedRows(flow) \in SUBSET Uses /\ \A s \in AllocatedRows(flow) : Priced[s] = sett[s].amount
    BY <1>1 DEF AllocatedRows, FundingTypeOK, Uses
  <2>2. AllocatedTo(flow) = Sum(Priced, AllocatedRows(flow))
    BY <2>1, TotalIs DEF AllocatedTo, AllocatedRows
  <2>3. Sum(Priced, AllocatedRows(flow)) \in Nat
    BY <1>1, <2>1, UsesAreFinite, SumNat
  <2> QED
    BY <2>2, <2>3
<1>3. ASSUME NEW kinds, NEW states
      PROVE  Come(kinds, states) = Sum(Priced, LegsOf(kinds, states)) /\ Come(kinds, states) \in Nat
  <2>1. LegsOf(kinds, states) \in SUBSET Uses /\ \A l \in LegsOf(kinds, states) : Priced[l] = leg[l].amount
    BY <1>1 DEF LegsOf, Uses
  <2>2. Come(kinds, states) = Sum(Priced, LegsOf(kinds, states))
    BY <2>1, TotalIs DEF Come
  <2>3. Sum(Priced, LegsOf(kinds, states)) \in Nat
    BY <1>1, <2>1, UsesAreFinite, SumNat
  <2> QED
    BY <2>2, <2>3
<1> QED
  BY <1>2, <1>3

LEMMA TotalsAreNext ==
  ASSUME FundingTypeOK'
  PROVE  /\ \A flow \in {"FROM_ROUTE", "TO_ROUTE"} :
              AllocatedTo(flow)' = Sum(Priced', AllocatedRows(flow)') /\ AllocatedTo(flow)' \in Nat
         /\ \A kinds, states :
              Come(kinds, states)' = Sum(Priced', LegsOf(kinds, states)') /\ Come(kinds, states)' \in Nat
<1>1. /\ Priced' \in [Uses -> Nat]
      /\ (\A l \in Legs : Priced'[l] = leg'[l].amount) /\ (\A s \in Settlements : Priced'[s] = sett'[s].amount)
  BY RowsTypedNext, PriceOfNext
<1>2. ASSUME NEW flow PROVE AllocatedTo(flow)' = Sum(Priced', AllocatedRows(flow)') /\ AllocatedTo(flow)' \in Nat
  <2>1. AllocatedRows(flow)' \in SUBSET Uses /\ \A s \in AllocatedRows(flow)' : Priced'[s] = sett'[s].amount
    BY <1>1 DEF AllocatedRows, FundingTypeOK, Uses
  <2>2. AllocatedTo(flow)' = Sum(Priced', AllocatedRows(flow)')
    BY <2>1, TotalIs DEF AllocatedTo, AllocatedRows
  <2>3. Sum(Priced', AllocatedRows(flow)') \in Nat
    BY <1>1, <2>1, UsesAreFinite, SumNat
  <2> QED
    BY <2>2, <2>3
<1>3. ASSUME NEW kinds, NEW states
      PROVE  Come(kinds, states)' = Sum(Priced', LegsOf(kinds, states)') /\ Come(kinds, states)' \in Nat
  <2>1. LegsOf(kinds, states)' \in SUBSET Uses /\ \A l \in LegsOf(kinds, states)' : Priced'[l] = leg'[l].amount
    BY <1>1 DEF LegsOf, Uses
  <2>2. Come(kinds, states)' = Sum(Priced', LegsOf(kinds, states)')
    BY <2>1, TotalIs DEF Come
  <2>3. Sum(Priced', LegsOf(kinds, states)') \in Nat
    BY <1>1, <2>1, UsesAreFinite, SumNat
  <2> QED
    BY <2>2, <2>3
<1> QED
  BY <1>2, <1>3

\* A total over the same rows with the same amounts is the same, one row more adds its amount.
LEMMA SumLasts ==
  ASSUME FundingTypeOK, FundingTypeOK', NEW S \in SUBSET Uses, \A u \in S : Priced'[u] = Priced[u]
  PROVE  Sum(Priced', S) = Sum(Priced, S)
BY SumSame

LEMMA SumGains ==
  ASSUME FundingTypeOK, FundingTypeOK', NEW S \in SUBSET Uses, \A u \in S : Priced'[u] = Priced[u],
         NEW v \in Uses, v \notin S
  PROVE  Sum(Priced', S \cup {v}) = Sum(Priced, S) + Priced'[v]
<1>1. Priced' \in [Uses -> Nat]
  BY RowsTypedNext, PriceOfNext
<1>2. {v} \in SUBSET Uses /\ S \cap {v} = {}
  OBVIOUS
<1>3. Sum(Priced', S \cup {v}) = Sum(Priced', S) + Sum(Priced', {v})
  BY <1>1, <1>2, UsesAreFinite, SumApart
<1>4. Sum(Priced', {v}) = Priced'[v]
  BY <1>1, UsesAreFinite, SumOne
<1> QED
  BY <1>3, <1>4, SumLasts

LEMMA HandedStays ==
  ASSUME FundingTypeOK, FundingTypeOK', HandedOver, BySend' = BySend, Signed' = Signed,
         \A s \in BySend : sett'[s] = sett[s], \A x \in Signed : send'[x] = send[x]
  PROVE  HandedOver'
<1>1. BySend \in SUBSET Uses /\ Signed \in SUBSET Uses
  BY DEF BySend, GoneOut, Signed, Uses
<1>2. (\A u \in BySend : Priced'[u] = Priced[u]) /\ (\A u \in Signed : Priced'[u] = Priced[u])
  BY RowsTyped, RowsTypedNext, PriceOf, PriceOfNext DEF BySend, GoneOut, Signed
<1>3. Sum(Priced', BySend) = Sum(Priced, BySend) /\ Sum(Priced', Signed) = Sum(Priced, Signed)
  BY <1>1, <1>2, SumLasts
<1> QED
  BY <1>3 DEF HandedOver

\* A step that confirms nothing and leaves the terms leaves both sides as they are.
LEMMA AllocationStays ==
  ASSUME FundingTypeOK, FundingTypeOK', AllocationExact,
         mode' = mode, dir' = dir, terms' = terms, allocated' = allocated,
         obligation' = obligation \/ (obligation = "OPEN" /\ obligation' = "CANCELLED"),
         \A s \in Settlements : sett[s].state = "CONFIRMED" => sett'[s] = sett[s],
         \A s \in Settlements : sett'[s].state = "CONFIRMED" => sett[s].state = "CONFIRMED",
         \A l \in Legs : leg[l].state = "DONE" => leg'[l] = leg[l],
         \A l \in Legs : leg'[l].state = "DONE" /\ leg'[l].kind = "DIRECT" => leg[l].state = "DONE"
  PROVE  AllocationExact'
<1>1. allocated = {s \in Settlements : sett[s].state = "CONFIRMED"}
  BY DEF AllocationExact
<1>2. allocated' = {s \in Settlements : sett'[s].state = "CONFIRMED"}
  BY <1>1
<1>3. \A flow : AllocatedRows(flow)' = AllocatedRows(flow)
  BY <1>1 DEF AllocatedRows
<1>4. LegsOf({"DIRECT"}, {"DONE"})' = LegsOf({"DIRECT"}, {"DONE"})
  BY DEF LegsOf
<1>5. \A s \in allocated : Priced'[s] = Priced[s]
  BY <1>1, RowsTyped, RowsTypedNext, PriceOf, PriceOfNext
<1>6. \A l \in LegsOf({"DIRECT"}, {"DONE"}) : Priced'[l] = Priced[l]
  BY RowsTyped, RowsTypedNext, PriceOf, PriceOfNext DEF LegsOf
<1>7. ASSUME NEW flow \in {"FROM_ROUTE", "TO_ROUTE"} PROVE AllocatedTo(flow)' = AllocatedTo(flow)
  <2>1. AllocatedRows(flow) \in SUBSET Uses /\ AllocatedRows(flow) \subseteq allocated
    BY DEF AllocatedRows, FundingTypeOK, Uses
  <2>2. Sum(Priced', AllocatedRows(flow)) = Sum(Priced, AllocatedRows(flow))
    BY <1>5, <2>1, SumLasts
  <2> QED
    BY <1>3, <2>2, TotalsAre, TotalsAreNext
<1>8. Come({"DIRECT"}, {"DONE"})' = Come({"DIRECT"}, {"DONE"})
  <2>1. LegsOf({"DIRECT"}, {"DONE"}) \in SUBSET Uses
    BY DEF LegsOf, Uses
  <2>2. Sum(Priced', LegsOf({"DIRECT"}, {"DONE"})) = Sum(Priced, LegsOf({"DIRECT"}, {"DONE"}))
    BY <1>6, <2>1, SumLasts
  <2> QED
    BY <1>4, <2>2, TotalsAre, TotalsAreNext
<1>9. RouteSide' = RouteSide /\ ExchangeSide' = ExchangeSide
  BY DEF RouteSide, ExchangeSide
<1>10. RouteLeft' = RouteLeft /\ ExchangeLeft' = ExchangeLeft
  BY <1>7, <1>8, <1>9 DEF RouteLeft, ExchangeLeft
<1> QED
  BY <1>2, <1>8, <1>10 DEF AllocationExact

\* What fits a side and is allocated to it brings the status the sides then call for.
LEMMA AllocationFollows ==
  ASSUME AllocationExact, obligation # "CANCELLED", obligation' = AfterAllocation,
         allocated' = {s \in Settlements : sett'[s].state = "CONFIRMED"},
         RouteLeft' >= 0, ExchangeLeft' >= 0
  PROVE  AllocationExact'
<1>1. obligation' = IF RouteLeft' = 0 /\ ExchangeLeft' = 0 THEN "SETTLED" ELSE "PARTIALLY_SETTLED"
  BY DEF AfterAllocation
<1> QED
  BY <1>1 DEF AllocationExact
\* Earmarks that are not written, and one that is settled.
LEMMA SameMarks ==
  ASSUME FundingTypeOK, Within, mark' = mark
  PROVE  mark' \in [Uses -> MarkRow] /\ \A s \in Sources : Taken(s)' <= Avail(s)
<1>1. \A s \in Sources : Taken(s)' = Taken(s)
  BY DEF Taken, TakenBy
<1> QED
  BY <1>1, RowsTyped DEF Within

LEMMA SettledMarks ==
  ASSUME FundingTypeOK, Within, NEW u \in Uses, NEW outcome \in {"CONSUMED", "RELEASED"},
         mark' = Settled(u, outcome)
  PROVE  /\ mark' \in [Uses -> MarkRow]
         /\ \A v \in Uses : v # u => mark'[v] = mark[v]
         /\ mark'[u].of = mark[u].of
         /\ mark'[u].state = IF mark[u].state = "ACTIVE" THEN outcome ELSE mark[u].state
         /\ \A s \in Sources : Taken(s)' <= Avail(s)
<1>1. mark \in [Uses -> MarkRow]
  BY RowsTyped
<1>2. PICK c \in {"NONE", "ACTIVE", "CONSUMED", "RELEASED"} :
        c = IF mark[u].state = "ACTIVE" THEN outcome ELSE mark[u].state
  BY <1>1 DEF MarkRow
<1>3. mark' = [mark EXCEPT ![u] = [mark[u] EXCEPT !.state = c]]
  BY <1>1, <1>2 DEF Settled
<1>4. [mark[u] EXCEPT !.state = c] \in MarkRow
  BY <1>1, <1>2 DEF MarkRow
<1>5. mark' \in [Uses -> MarkRow]
  BY <1>1, <1>3, <1>4
<1>6. /\ mark'[u] = [mark[u] EXCEPT !.state = c]
      /\ \A v \in Uses : v # u => mark'[v] = mark[v]
  BY <1>1, <1>3
<1>7. mark'[u].of = mark[u].of /\ mark'[u].state = c
  BY <1>1, <1>6 DEF MarkRow
<1>8. \A v \in Uses : mark'[v].of = mark[v].of
  BY <1>6, <1>7
<1>9. \A v \in Uses : mark'[v].state \in {"ACTIVE", "CONSUMED"} => mark[v].state \in {"ACTIVE", "CONSUMED"}
  BY <1>2, <1>6, <1>7
<1>10. ASSUME NEW s \in Sources PROVE Taken(s)' <= Avail(s)
  <2>1. Taken(s)' <= Taken(s)
    BY <1>1, <1>5, <1>8, <1>9, EndedTakesLess
  <2>2. Taken(s) <= Avail(s)
    BY DEF Within
  <2>3. Taken(s) \in Nat /\ Taken(s)' \in Nat
    BY <1>1, <1>5, TakenIsNat, TakenIsNatNext
  <2>4. Avail(s) \in Nat
    BY RowsTyped, PriceOf DEF Avail, Sources, Uses
  <2> QED
    BY <2>1, <2>2, <2>3, <2>4
<1> QED
  BY <1>2, <1>5, <1>6, <1>7, <1>10

\* The earmark of a use that starts.
LEMMA MarkStarts ==
  ASSUME FundingTypeOK', NEW u \in Uses, NEW of \in [Sources -> Nat], NEW n \in Nat, NEW S,
         mark'[u] = [state |-> "ACTIVE", of |-> of], Sum(of, Sources) = n,
         \A s \in Sources : of[s] > 0 => s \in S, S \subseteq FundsOf(u)',
         Live(u)', ~Fresh(u)', ~Spent(u)', Priced'[u] = n, u \in Sends => send'[u].amount > 0,
         u \in Settlements => sett'[u].state # "CONFIRMED"
  PROVE  MarkSound(u)'
<1>1. mark'[u].state = "ACTIVE" /\ mark'[u].of = of
  OBVIOUS
<1> QED
  BY <1>1 DEF MarkSound

-----------------------------------------------------------------------------
(* The commands, one by one. *)

LEMMA ClientPaysKeeps ==
  ASSUME FundInv, NEW l \in Legs, NEW n \in Movements, ClientPays(l, n)
  PROVE  FundInv'
<1>1. /\ FundingTypeOK /\ Marked /\ Within /\ HandedOver /\ Undone /\ AllocationExact
  BY DEF FundInv
<1>2. leg \in [Legs -> LegRow] /\ leg[l] = NoLeg /\ n \in Nat
  BY <1>1, RowsTyped, FundingAssumption DEF ClientPays
<1>3. /\ leg'[l] = [state |-> "DONE", kind |-> "CLIENT", amount |-> n]
      /\ \A k \in Legs : k # l => leg'[k] = leg[k]
      /\ leg' \in [Legs -> LegRow]
  BY <1>2 DEF ClientPays, LegRow, LegKinds
<1>4. UNCHANGED <<mode, dir, terms, adjusts, obligation, sett, allocated, send, mark>>
  BY DEF ClientPays, frozen
<1>5. FundingTypeOK'
  <2>1. trade' \in {"LIVE", "COMPLETED", "CANCELLED"}
    BY <1>1 DEF ClientPays, Advance, FundingTypeOK
  <2> QED
    BY <1>1, <1>3, <1>4, <2>1 DEF FundingTypeOK, LegRow, Sources, Uses
<1>6. FundsStand
  <2>1. \A k \in Legs : leg[k].state = "DONE" => leg'[k] = leg[k]
    BY <1>2, <1>3 DEF NoLeg
  <2> QED
    BY <1>1, <1>4, <1>5, <2>1, RowsTyped, RowsTypedNext, FundsLast
<1>7. Marked'
  <2> SUFFICES ASSUME NEW u \in Uses PROVE MarkSound(u)'
    BY DEF Marked
  <2>1. MarkSound(u)
    BY <1>1 DEF Marked
  <2>2. CASE u = l
    <3>1. l \notin Settlements /\ l \notin Sends
      BY FundingAssumption
    <3>2. mark[u].state = "NONE" /\ mark' = mark
      BY <1>2, <1>4, <2>1, <2>2 DEF MarkSound, Fresh, NoLeg
    <3>3. ~Live(u)' /\ ~Fresh(u)' /\ ~Spent(u)'
      BY <1>3, <2>2, <3>1 DEF Live, Fresh, Spent
    <3>4. \A s \in Sources : mark'[u].of[s] = 0
      BY <2>1, <3>2 DEF MarkSound
    <3> QED
      BY <2>2, <3>1, <3>2, <3>3, <3>4 DEF MarkSound
  <2>3. CASE u # l
    BY <1>1, <1>3, <1>4, <1>5, <1>6, <2>1, <2>3, MarkStays
  <2> QED
    BY <2>2, <2>3
<1>8. Within'
  BY <1>1, <1>4, <1>5, <1>6, SameMarks, StillWithin
<1>9. HandedOver'
  BY <1>1, <1>4, <1>5, HandedStays DEF BySend, GoneOut, Signed
<1>10. Undone'
  BY <1>1, <1>4 DEF Undone
<1>11. AllocationExact'
  <2>1. \A k \in Legs : leg[k].state = "DONE" => leg'[k] = leg[k]
    BY <1>2, <1>3 DEF NoLeg
  <2>2. \A k \in Legs : leg'[k].state = "DONE" /\ leg'[k].kind = "DIRECT" => leg[k].state = "DONE"
    BY <1>3
  <2> QED
    BY <1>1, <1>4, <1>5, <2>1, <2>2, AllocationStays
<1> QED
  BY <1>5, <1>7, <1>8, <1>9, <1>10, <1>11 DEF FundInv
\* A planned leg: earmarked on the money of its side, unless the route pays it directly.
LEMMA NewLegKeeps ==
  ASSUME FundInv, NEW l \in Legs, NEW n \in Movements, NEW k \in {"PAYOUT", "DIRECT", "UNWIND", "EXCESS"},
         AddLeg(l, k, n),
         k = "DIRECT" => mark' = mark,
         k # "DIRECT" => Earmark(l, IF k = "PAYOUT" THEN CounterpartyFunds ELSE ClientFunds, n),
         UNCHANGED <<mode, dir, terms, adjusts, trade, obligation, sett, allocated, send>>
  PROVE  FundInv'
<1>1. /\ FundingTypeOK /\ Marked /\ Within /\ HandedOver /\ Undone /\ AllocationExact
  BY DEF FundInv
<1>2. leg \in [Legs -> LegRow] /\ leg[l] = NoLeg /\ n \in Nat /\ l \in Uses
  BY <1>1, RowsTyped, FundingAssumption DEF AddLeg, Uses
<1>3. /\ leg'[l] = [state |-> "LIVE", kind |-> k, amount |-> n]
      /\ \A q \in Legs : q # l => leg'[q] = leg[q]
      /\ leg' \in [Legs -> LegRow]
  BY <1>2 DEF AddLeg, LegRow, LegKinds
<1>4. MarkSound(l) /\ mark[l].state = "NONE"
  BY <1>1, <1>2 DEF Marked, MarkSound, Fresh, NoLeg
<1>5. l \notin Settlements /\ l \notin Sends
  BY FundingAssumption
<1> DEFINE S == IF k = "PAYOUT" THEN CounterpartyFunds ELSE ClientFunds
<1>6. \/ k = "DIRECT" /\ mark' = mark
      \/ k # "DIRECT" /\ \E of \in [Sources -> Nat] : Earmarked(l, S, n, of)
  <2>1. CASE k = "DIRECT"
    BY <2>1
  <2>2. CASE k # "DIRECT"
    <3>1. S \in SUBSET Funds /\ Earmark(l, S, n)
      BY <2>2 DEF Funds
    <3> HIDE DEF S
    <3> QED
      BY <1>1, <1>2, <1>4, <2>2, <3>1, EarmarkTakes
  <2> QED
    BY <2>1, <2>2
<1>7. /\ mark' \in [Uses -> MarkRow] /\ \A s \in Sources : Taken(s)' <= Avail(s)
      /\ \A u \in Uses : u # l => mark'[u] = mark[u]
  <2>1. mark \in [Uses -> MarkRow]
    BY <1>1, RowsTyped
  <2>2. CASE mark' = mark
    BY <1>1, <2>2, SameMarks
  <2>3. CASE mark' # mark
    BY <1>6, <2>1, <2>3 DEF Earmarked
  <2> QED
    BY <2>2, <2>3
<1>8. FundingTypeOK'
  BY <1>1, <1>3, <1>7 DEF FundingTypeOK, LegRow, MarkRow
<1>9. \A q \in Legs : leg[q].state = "DONE" => leg'[q] = leg[q]
  BY <1>2, <1>3 DEF NoLeg
<1>10. FundsStand
  BY <1>1, <1>8, <1>9, RowsTyped, RowsTypedNext, FundsLast
<1>11. Marked'
  <2> SUFFICES ASSUME NEW u \in Uses PROVE MarkSound(u)'
    BY DEF Marked
  <2>1. MarkSound(u)
    BY <1>1 DEF Marked
  <2>2. CASE u = l /\ k = "DIRECT"
    <3>1. mark' = mark
      BY <2>2
    <3>2. ~Live(u)' /\ ~Fresh(u)' /\ ~Spent(u)'
      BY <1>3, <1>5, <2>2 DEF Live, Fresh, Spent
    <3>3. \A s \in Sources : mark'[u].of[s] = 0
      BY <1>4, <2>2, <3>1 DEF MarkSound
    <3> QED
      BY <1>4, <1>5, <2>2, <3>1, <3>2, <3>3 DEF MarkSound
  <2>3. CASE u = l /\ k # "DIRECT"
    <3>1. PICK of \in [Sources -> Nat] : Earmarked(l, S, n, of)
      BY <1>6, <2>3
    <3>2. mark'[u] = [state |-> "ACTIVE", of |-> of]
      BY <1>1, <1>2, <2>3, <3>1, RowsTyped DEF Earmarked
    <3>3. Live(u)' /\ ~Fresh(u)' /\ ~Spent(u)'
      BY <1>3, <1>5, <2>3 DEF Live, Fresh, Spent
    <3>4. Priced'[u] = n
      BY <1>3, <1>8, <2>3, RowsTypedNext, PriceOfNext
    <3>5. S \subseteq FundsOf(u)'
      <4>1. FundsOf(u)' = IF k = "PAYOUT" THEN CounterpartyFunds' ELSE ClientFunds'
        BY <1>3, <2>3 DEF FundsOf
      <4> QED
        BY <1>10, <4>1 DEF FundsStand
    <3> HIDE DEF S
    <3> QED
      BY <1>2, <1>5, <1>8, <2>3, <3>1, <3>2, <3>3, <3>4, <3>5, MarkStarts DEF Earmarked
  <2>4. CASE u # l
    BY <1>1, <1>3, <1>7, <1>8, <1>10, <2>1, <2>4, MarkStays
  <2> QED
    BY <2>2, <2>3, <2>4
<1>12. Within'
  BY <1>1, <1>7, <1>8, <1>10, StillWithin
<1>13. HandedOver'
  <2>1. \A s \in Settlements : s \in Uses /\ s # l
    BY <1>5 DEF Uses
  <2>2. BySend' = BySend /\ Signed' = Signed
    BY <1>7, <2>1 DEF BySend, GoneOut, Signed
  <2> QED
    BY <1>1, <1>8, <2>2, HandedStays
<1>14. Undone'
  BY <1>1 DEF Undone
<1>15. AllocationExact'
  <2>1. \A q \in Legs : leg'[q].state = "DONE" /\ leg'[q].kind = "DIRECT" => leg[q].state = "DONE"
    BY <1>3
  <2> QED
    BY <1>1, <1>8, <1>9, <2>1, AllocationStays
<1> QED
  BY <1>8, <1>11, <1>12, <1>13, <1>14, <1>15 DEF FundInv

LEMMA CreatePayoutLegKeeps ==
  ASSUME FundInv, NEW l \in Legs, NEW n \in Movements, NEW k \in {"PAYOUT", "DIRECT"}, CreatePayoutLeg(l, k, n)
  PROVE  FundInv'
<1>1. /\ k \in {"PAYOUT", "DIRECT", "UNWIND", "EXCESS"} /\ AddLeg(l, k, n)
      /\ UNCHANGED <<mode, dir, terms, adjusts, trade, obligation, sett, allocated, send>>
      /\ k = "DIRECT" => mark' = mark
      /\ k # "DIRECT" => Earmark(l, IF k = "PAYOUT" THEN CounterpartyFunds ELSE ClientFunds, n)
  BY DEF CreatePayoutLeg, frozen
<1> QED
  BY <1>1, NewLegKeeps

LEMMA CreateRefundLegKeeps ==
  ASSUME FundInv, NEW l \in Legs, NEW n \in Movements, NEW k \in {"UNWIND", "EXCESS"}, CreateRefundLeg(l, k, n)
  PROVE  FundInv'
<1>1. /\ k \in {"PAYOUT", "DIRECT", "UNWIND", "EXCESS"} /\ AddLeg(l, k, n) /\ Earmark(l, ClientFunds, n)
      /\ UNCHANGED <<mode, dir, terms, adjusts, trade, obligation, sett, allocated, send>>
  BY DEF CreateRefundLeg, frozen
<1>2. Earmark(l, IF k = "PAYOUT" THEN CounterpartyFunds ELSE ClientFunds, n)
  BY <1>1
<1> QED
  BY <1>1, <1>2, NewLegKeeps
LEMMA ConfirmLegKeeps ==
  ASSUME FundInv, NEW l \in Legs, ConfirmLeg(l)
  PROVE  FundInv'
<1>1. /\ FundingTypeOK /\ Marked /\ Within /\ HandedOver /\ Undone /\ AllocationExact
  BY DEF FundInv
<1>2. leg \in [Legs -> LegRow] /\ leg[l] \in LegRow /\ leg[l].state = "LIVE" /\ l \in Uses
  BY <1>1, RowsTyped DEF ConfirmLeg, Uses
<1>3. /\ leg'[l].state = "DONE" /\ leg'[l].kind = leg[l].kind /\ leg'[l].amount = leg[l].amount
      /\ \A q \in Legs : q # l => leg'[q] = leg[q]
      /\ leg' \in [Legs -> LegRow]
  BY <1>2 DEF ConfirmLeg, LegRow
<1>4. UNCHANGED <<mode, dir, terms, adjusts, sett, allocated, send>> /\ mark' = Settled(l, "CONSUMED")
  BY DEF ConfirmLeg, frozen
<1>5. /\ mark' \in [Uses -> MarkRow]
      /\ \A v \in Uses : v # l => mark'[v] = mark[v]
      /\ mark'[l].of = mark[l].of
      /\ mark'[l].state = IF mark[l].state = "ACTIVE" THEN "CONSUMED" ELSE mark[l].state
      /\ \A s \in Sources : Taken(s)' <= Avail(s)
  BY <1>1, <1>2, <1>4, SettledMarks
<1>6. l \notin Settlements /\ l \notin Sends
  BY FundingAssumption
<1>7. FundingTypeOK'
  <2>1. trade' \in {"LIVE", "COMPLETED", "CANCELLED"}
    BY <1>1 DEF ConfirmLeg, Advance, FundingTypeOK
  <2>2. obligation' \in {"OPEN", "PARTIALLY_SETTLED", "SETTLED", "CANCELLED"}
    BY <1>1 DEF ConfirmLeg, AfterAllocation, FundingTypeOK
  <2> QED
    BY <1>1, <1>3, <1>4, <1>5, <2>1, <2>2 DEF FundingTypeOK, LegRow, MarkRow
<1>8. \A q \in Legs : leg[q].state = "DONE" => leg'[q] = leg[q]
  BY <1>2, <1>3
<1>9. FundsStand
  BY <1>1, <1>4, <1>7, <1>8, RowsTyped, RowsTypedNext, FundsLast
<1>10. \A u \in Uses : Priced'[u] = Priced[u]
  BY <1>1, <1>3, <1>4, <1>7, RowsTyped, RowsTypedNext, PriceOf, PriceOfNext DEF Uses
<1>11. Marked'
  <2> SUFFICES ASSUME NEW u \in Uses PROVE MarkSound(u)'
    BY DEF Marked
  <2>1. MarkSound(u)
    BY <1>1 DEF Marked
  <2>2. CASE u = l
    <3>1. ~Live(u)' /\ ~Fresh(u)'
      BY <1>3, <1>6, <2>2 DEF Live, Fresh
    <3>2. mark'[u].state # "ACTIVE"
      BY <1>5, <2>2
    <3>3. Spent(u)' => mark'[u].state = "CONSUMED"
      <4>1. Spent(u)' => Live(u)
        BY <1>2, <1>3, <1>6, <2>2 DEF Spent, Live
      <4> QED
        BY <1>5, <2>1, <2>2, <4>1 DEF MarkSound
    <3>4. mark'[u].state = "NONE" <=> mark[u].state = "NONE"
      BY <1>5, <2>2
    <3>5. \A s \in Sources : s \in FundsOf(u) => s \in FundsOf(u)'
      BY <1>3, <1>9, <2>2 DEF FundsOf, FundsStand
    <3> QED
      BY <1>5, <1>6, <1>10, <2>1, <2>2, <3>1, <3>2, <3>3, <3>4, <3>5 DEF MarkSound
  <2>3. CASE u # l
    BY <1>1, <1>3, <1>4, <1>5, <1>7, <1>9, <2>1, <2>3, MarkStays
  <2> QED
    BY <2>2, <2>3
<1>12. Within'
  BY <1>1, <1>5, <1>7, <1>9, StillWithin
<1>13. HandedOver'
  <2>1. \A s \in Settlements : s \in Uses /\ s # l
    BY <1>6 DEF Uses
  <2>2. BySend' = BySend /\ Signed' = Signed
    BY <1>4, <1>5, <2>1 DEF BySend, GoneOut, Signed
  <2> QED
    BY <1>1, <1>4, <1>7, <2>2, HandedStays
<1>14. CASE leg[l].kind # "DIRECT"
  <2>1. obligation' = obligation
    BY <1>14 DEF ConfirmLeg
  <2>2. \A q \in Legs : leg'[q].state = "DONE" /\ leg'[q].kind = "DIRECT" => leg[q].state = "DONE"
    BY <1>3, <1>14
  <2>3. AllocationExact'
    BY <1>1, <1>4, <1>7, <1>8, <2>1, <2>2, AllocationStays
  <2>4. Undone'
    BY <1>1, <1>4, <2>1 DEF Undone
  <2> QED
    BY <1>7, <1>11, <1>12, <1>13, <2>3, <2>4 DEF FundInv
<1>15. CASE leg[l].kind = "DIRECT"
  <2>1. /\ leg[l].amount <= RouteLeft /\ obligation # "CANCELLED" /\ obligation' = AfterAllocation
    BY <1>15 DEF ConfirmLeg
  <2>2. LegsOf({"DIRECT"}, {"DONE"})' = LegsOf({"DIRECT"}, {"DONE"}) \cup {l} /\ l \notin LegsOf({"DIRECT"}, {"DONE"})
    BY <1>2, <1>3, <1>15 DEF LegsOf
  <2>3. Come({"DIRECT"}, {"DONE"})' = Come({"DIRECT"}, {"DONE"}) + leg[l].amount
    <3>1. LegsOf({"DIRECT"}, {"DONE"}) \in SUBSET Uses
      BY DEF LegsOf, Uses
    <3>2. Sum(Priced', LegsOf({"DIRECT"}, {"DONE"}) \cup {l}) = Sum(Priced, LegsOf({"DIRECT"}, {"DONE"})) + Priced'[l]
      BY <1>1, <1>2, <1>7, <1>10, <2>2, <3>1, SumGains
    <3>3. Priced'[l] = leg[l].amount
      BY <1>1, <1>2, <1>10, RowsTyped, PriceOf
    <3> QED
      BY <1>1, <1>7, <2>2, <3>2, <3>3, TotalsAre, TotalsAreNext
  <2>4. ASSUME NEW flow \in {"FROM_ROUTE", "TO_ROUTE"} PROVE AllocatedTo(flow)' = AllocatedTo(flow)
    BY <1>4 DEF AllocatedTo, Total
  <2>5. RouteSide' = RouteSide /\ ExchangeSide' = ExchangeSide /\ RouteSide \in Nat /\ ExchangeSide \in Nat
    BY <1>1, <1>4 DEF RouteSide, ExchangeSide, FundingTypeOK
  <2>6. RouteLeft' = RouteLeft - leg[l].amount /\ ExchangeLeft' = ExchangeLeft /\ RouteLeft \in Int
    <3>1. AllocatedTo("FROM_ROUTE") \in Nat /\ Come({"DIRECT"}, {"DONE"}) \in Nat /\ leg[l].amount \in Nat
      BY <1>1, <1>2, TotalsAre DEF LegRow
    <3> QED
      BY <2>3, <2>4, <2>5, <3>1 DEF RouteLeft, ExchangeLeft
  <2>7. RouteLeft' >= 0 /\ ExchangeLeft' >= 0
    BY <1>1, <1>2, <2>1, <2>6 DEF AllocationExact, LegRow
  <2>8. allocated' = {s \in Settlements : sett'[s].state = "CONFIRMED"}
    BY <1>1, <1>4 DEF AllocationExact
  <2>9. AllocationExact'
    BY <1>1, <2>1, <2>7, <2>8, AllocationFollows
  <2>10. Undone'
    BY <2>1 DEF Undone, AfterAllocation
  <2> QED
    BY <1>7, <1>11, <1>12, <1>13, <2>9, <2>10 DEF FundInv
<1> QED
  BY <1>14, <1>15
\* Planned legs that end give back what they held.
LEMMA DroppedLegs ==
  ASSUME FundInv, NEW D, \A l \in D : l \in Legs /\ leg[l].state = "LIVE",
         leg' = [l \in Legs |-> IF l \in D THEN [leg[l] EXCEPT !.state = "DEAD"] ELSE leg[l]],
         mark' = [u \in Uses |-> IF u \in D THEN Settled(u, "RELEASED")[u] ELSE mark[u]],
         UNCHANGED <<mode, dir, terms, adjusts, sett, allocated, send>>,
         trade' \in {"LIVE", "COMPLETED", "CANCELLED"},
         obligation' = obligation \/ (obligation = "OPEN" /\ obligation' = "CANCELLED")
  PROVE  FundingTypeOK' /\ Marked' /\ Within' /\ HandedOver' /\ AllocationExact'
<1>1. /\ FundingTypeOK /\ Marked /\ Within /\ HandedOver /\ Undone /\ AllocationExact
  BY DEF FundInv
<1>2. leg \in [Legs -> LegRow] /\ mark \in [Uses -> MarkRow]
  BY <1>1, RowsTyped
<1>3. /\ \A l \in Legs : /\ leg'[l].kind = leg[l].kind /\ leg'[l].amount = leg[l].amount
                         /\ leg'[l].state = IF l \in D THEN "DEAD" ELSE leg[l].state
      /\ \A l \in Legs : l \notin D => leg'[l] = leg[l]
      /\ leg' \in [Legs -> LegRow]
  BY <1>2 DEF LegRow
<1>4. ASSUME NEW u \in Uses
      PROVE  /\ mark'[u].of = mark[u].of
             /\ u \notin D => mark'[u] = mark[u]
             /\ u \in D => mark'[u].state = IF mark[u].state = "ACTIVE" THEN "RELEASED" ELSE mark[u].state
             /\ mark'[u] \in MarkRow
  <2>1. CASE u \in D
    <3>1. PICK c \in {"NONE", "ACTIVE", "CONSUMED", "RELEASED"} :
            c = IF mark[u].state = "ACTIVE" THEN "RELEASED" ELSE mark[u].state
      BY <1>2 DEF MarkRow
    <3>2. mark'[u] = Settled(u, "RELEASED")[u]
      BY <2>1
    <3>3. Settled(u, "RELEASED") = [mark EXCEPT ![u] = [mark[u] EXCEPT !.state = c]]
      BY <1>2, <3>1 DEF Settled
    <3>4. mark'[u] = [mark[u] EXCEPT !.state = c]
      BY <1>2, <3>2, <3>3
    <3> QED
      BY <1>2, <2>1, <3>1, <3>4 DEF MarkRow
  <2>2. CASE u \notin D
    BY <1>2, <2>2
  <2> QED
    BY <2>1, <2>2
<1>5. mark' \in [Uses -> MarkRow]
  <2>1. mark' = [u \in Uses |-> mark'[u]]
    OBVIOUS
  <2> QED
    BY <1>4, <2>1
<1>6. \A s \in Sources : Taken(s)' <= Avail(s)
  <2> SUFFICES ASSUME NEW s \in Sources PROVE Taken(s)' <= Avail(s)
    OBVIOUS
  <2>1. \A u \in Uses : mark'[u].of = mark[u].of
    BY <1>4
  <2>2. \A u \in Uses : mark'[u].state \in {"ACTIVE", "CONSUMED"} => mark[u].state \in {"ACTIVE", "CONSUMED"}
    BY <1>4
  <2>3. Taken(s)' <= Taken(s)
    BY <1>2, <1>5, <2>1, <2>2, EndedTakesLess
  <2>4. Taken(s) <= Avail(s) /\ Taken(s) \in Nat /\ Taken(s)' \in Nat
    BY <1>1, <1>2, <1>5, TakenIsNat, TakenIsNatNext DEF Within
  <2>5. Avail(s) \in Nat
    BY <1>1, RowsTyped, PriceOf DEF Avail, Sources, Uses
  <2> QED
    BY <2>3, <2>4, <2>5
<1>7. FundingTypeOK'
  BY <1>1, <1>3, <1>5 DEF FundingTypeOK, LegRow, MarkRow
<1>8. \A l \in Legs : leg[l].state = "DONE" => leg'[l] = leg[l]
  BY <1>3
<1>9. FundsStand
  BY <1>1, <1>7, <1>8, RowsTyped, RowsTypedNext, FundsLast
<1>10. \A u \in Uses : Priced'[u] = Priced[u]
  BY <1>1, <1>3, <1>7, RowsTyped, RowsTypedNext, PriceOf, PriceOfNext DEF Uses
<1>11. \A u \in D : u \in Legs /\ u \in Uses /\ u \notin Settlements /\ u \notin Sends
  BY FundingAssumption DEF Uses
<1>12. ASSUME NEW u \in Uses PROVE MarkSound(u)'
  <2>1. MarkSound(u)
    BY <1>1 DEF Marked
  <2>2. CASE u \in D
    <3>1. ~Live(u)' /\ ~Fresh(u)' /\ ~Spent(u)'
      BY <1>3, <1>11, <2>2 DEF Live, Fresh, Spent
    <3>2. mark'[u].state # "ACTIVE" /\ (mark'[u].state = "NONE" <=> mark[u].state = "NONE")
      BY <1>4, <2>2
    <3>3. \A s \in Sources : s \in FundsOf(u) => s \in FundsOf(u)'
      BY <1>3, <1>9, <1>11, <2>2 DEF FundsOf, FundsStand
    <3> QED
      BY <1>4, <1>10, <1>11, <2>1, <2>2, <3>1, <3>2, <3>3 DEF MarkSound
  <2>3. CASE u \notin D
    BY <1>1, <1>3, <1>4, <1>7, <1>9, <2>1, <2>3, MarkStays
  <2> QED
    BY <2>2, <2>3
<1>13. HandedOver'
  <2>1. \A s \in Settlements : s \in Uses /\ s \notin D
    BY <1>11 DEF Uses
  <2>2. \A s \in Settlements : mark'[s] = mark[s]
    BY <1>4, <2>1
  <2>3. BySend' = BySend /\ Signed' = Signed
    BY <2>2 DEF BySend, GoneOut, Signed
  <2> QED
    BY <1>1, <1>7, <2>3, HandedStays
<1>14. AllocationExact'
  <2>1. \A l \in Legs : leg'[l].state = "DONE" /\ leg'[l].kind = "DIRECT" => leg[l].state = "DONE"
    BY <1>3
  <2> QED
    BY <1>1, <1>7, <1>8, <2>1, AllocationStays
<1> QED
  BY <1>1, <1>6, <1>7, <1>9, <1>12, <1>13, <1>14, StillWithin DEF Marked

LEMMA DropLegKeeps ==
  ASSUME FundInv, NEW l \in Legs, DropLeg(l)
  PROVE  FundInv'
<1>1. /\ FundingTypeOK /\ Undone
  BY DEF FundInv
<1>2. leg \in [Legs -> LegRow] /\ mark \in [Uses -> MarkRow] /\ l \in Uses
  BY <1>1, RowsTyped DEF Uses
<1>3. leg' = [q \in Legs |-> IF q \in {l} THEN [leg[q] EXCEPT !.state = "DEAD"] ELSE leg[q]]
  BY <1>2 DEF DropLeg
<1>4. mark' = [u \in Uses |-> IF u \in {l} THEN Settled(u, "RELEASED")[u] ELSE mark[u]]
  <2>1. mark' = Settled(l, "RELEASED")
    BY DEF DropLeg
  <2>2. \A u \in Uses : u # l => Settled(l, "RELEASED")[u] = mark[u]
    BY <1>2 DEF Settled
  <2>3. Settled(l, "RELEASED") = [u \in Uses |-> Settled(l, "RELEASED")[u]]
    BY <1>2 DEF Settled
  <2> QED
    BY <2>1, <2>2, <2>3
<1>5. /\ UNCHANGED <<mode, dir, terms, adjusts, trade, obligation, sett, allocated, send>>
      /\ \A q \in {l} : q \in Legs /\ leg[q].state = "LIVE"
  BY DEF DropLeg, frozen
<1>6. trade' \in {"LIVE", "COMPLETED", "CANCELLED"}
  BY <1>1, <1>5 DEF FundingTypeOK
<1>7. FundingTypeOK' /\ Marked' /\ Within' /\ HandedOver' /\ AllocationExact'
  <2>1. PICK D : D = {l}
    OBVIOUS
  <2> QED
    BY <1>3, <1>4, <1>5, <1>6, <2>1, DroppedLegs
<1>8. Undone'
  BY <1>1, <1>5 DEF Undone
<1> QED
  BY <1>7, <1>8 DEF FundInv

\* The client has nothing left here when a trade is cancelled, so none of its money is with
\* the signer or with the counterparty.
LEMMA CancelTradeKeeps ==
  ASSUME FundInv, CancelTradeInTx
  PROVE  FundInv'
<1>1. /\ FundingTypeOK /\ Marked /\ Within /\ HandedOver /\ Undone /\ AllocationExact
  BY DEF FundInv
<1> DEFINE D == LegsOf(LegKinds, {"LIVE"})
<1>2. \A l \in D : l \in Legs /\ leg[l].state = "LIVE"
  BY DEF LegsOf
<1>3. leg' = [l \in Legs |-> IF l \in D THEN [leg[l] EXCEPT !.state = "DEAD"] ELSE leg[l]]
  <2>1. \A l \in Legs : l \in D <=> leg[l].state = "LIVE"
    BY <1>1, RowsTyped DEF LegsOf, LegRow
  <2> HIDE DEF D
  <2> QED
    BY <2>1 DEF CancelTradeInTx
<1>4. mark' = [u \in Uses |-> IF u \in D THEN Settled(u, "RELEASED")[u] ELSE mark[u]]
  BY DEF CancelTradeInTx
<1>5. /\ UNCHANGED <<mode, dir, terms, adjusts, sett, allocated, send>>
      /\ trade' = "CANCELLED" /\ obligation = "OPEN" /\ obligation' = "CANCELLED"
      /\ Come({"CLIENT"}, {"DONE"}) = Come({"UNWIND", "EXCESS"}, {"DONE"})
  BY DEF CancelTradeInTx, frozen
<1>6. FundingTypeOK' /\ Marked' /\ Within' /\ HandedOver' /\ AllocationExact'
  <2> HIDE DEF D
  <2> QED
    BY <1>2, <1>3, <1>4, <1>5, DroppedLegs
<1>7. ASSUME NEW x \in Sends PROVE send[x].state \in {"NONE", "CANCELLED"}
  <2> DEFINE R == LegsOf({"UNWIND", "EXCESS"}, {"DONE"})
  <2>1. SUFFICES ASSUME send[x].state \notin {"NONE", "CANCELLED"} PROVE FALSE
    OBVIOUS
  <2>2. /\ x \in Uses /\ x \notin Legs /\ x \notin Settlements /\ send[x] \in SendRow
    BY <1>1, FundingAssumption, RowsTyped DEF Uses
  <2>3. MarkSound(x)
    BY <1>1, <2>2 DEF Marked
  <2>4. x \in Takers
    BY <2>1, <2>2, <2>3 DEF MarkSound, Live, Spent, Takers, SendRow
  <2>5. ASSUME NEW u \in R PROVE u \in Takers /\ FundsOf(u) = ClientFunds /\ u \in Uses
    <3>1. u \in Legs /\ leg[u].state = "DONE" /\ leg[u].kind \in {"UNWIND", "EXCESS"} /\ u \in Uses
      BY DEF LegsOf, Uses
    <3>2. MarkSound(u)
      BY <1>1, <3>1 DEF Marked
    <3> QED
      BY <3>1, <3>2 DEF MarkSound, Spent, Takers, FundsOf
  <2>6. FundsOf(x) = ClientFunds
    BY <2>2 DEF FundsOf
  <2>7. x \notin R /\ R \in SUBSET Uses /\ R \cup {x} \in SUBSET Takers
    BY <2>2, <2>4, <2>5 DEF LegsOf
  <2>8. \A u \in R \cup {x}, s \in Sources : mark[u].of[s] > 0 => s \in ClientFunds
    BY <1>1, <2>2, <2>5, <2>6 DEF Marked, MarkSound
  <2> HIDE DEF R
  <2>9. ClientFunds \in SUBSET Funds
    BY DEF Funds
  <2>10. Sum(Priced, R \cup {x}) <= Sum(Priced, ClientFunds)
    BY <1>1, <2>7, <2>8, <2>9, PaidFromFunds
  <2>11. Priced \in [Uses -> Nat] /\ Priced[x] = send[x].amount
    BY <1>1, RowsTyped, PriceOf
  <2>12. Sum(Priced, R \cup {x}) = Sum(Priced, R) + Priced[x]
    <3>1. {x} \in SUBSET Uses /\ R \cap {x} = {}
      BY <2>2, <2>7
    <3>2. Sum(Priced, R \cup {x}) = Sum(Priced, R) + Sum(Priced, {x})
      BY <2>7, <2>11, <3>1, UsesAreFinite, SumApart
    <3>3. Sum(Priced, {x}) = Priced[x]
      BY <2>2, <2>11, UsesAreFinite, SumOne
    <3> QED
      BY <3>2, <3>3
  <2>13. Sum(Priced, ClientFunds) = Come({"CLIENT"}, {"DONE"}) /\ Sum(Priced, R) = Come({"UNWIND", "EXCESS"}, {"DONE"})
    BY <1>1, TotalsAre DEF ClientFunds, R
  <2>14. Come({"UNWIND", "EXCESS"}, {"DONE"}) \in Nat
    BY <1>1, TotalsAre
  <2>15. send[x].amount > 0 /\ send[x].amount \in Nat
    BY <2>1, <2>2, <2>3, <2>11, FundingAssumption DEF MarkSound, Fresh
  <2> QED
    BY <1>5, <2>10, <2>11, <2>12, <2>13, <2>14, <2>15
<1>8. Undone'
  BY <1>5, <1>7 DEF Undone
<1> QED
  BY <1>6, <1>8 DEF FundInv
LEMMA RecordKeeps ==
  ASSUME FundInv, NEW s \in Settlements, NEW flow \in {"FROM_ROUTE", "TO_ROUTE"}, NEW n \in Movements,
         Record(s, flow, n)
  PROVE  FundInv'
<1>1. /\ FundingTypeOK /\ Marked /\ Within /\ HandedOver /\ Undone /\ AllocationExact
  BY DEF FundInv
<1>2. sett \in [Settlements -> SettRow] /\ sett[s] = NoSett /\ n \in Nat /\ s \in Uses
  BY <1>1, RowsTyped, FundingAssumption DEF Record, Uses
<1>3. /\ sett'[s] = [state |-> "RECORDED", flow |-> flow, amount |-> n]
      /\ \A q \in Settlements : q # s => sett'[q] = sett[q]
      /\ sett' \in [Settlements -> SettRow]
  BY <1>2 DEF Record, SettRow
<1>4. UNCHANGED <<mode, dir, terms, adjusts, trade, obligation, leg, allocated, send>>
  BY DEF Record, frozen
<1>5. MarkSound(s) /\ mark[s].state = "NONE"
  BY <1>1, <1>2 DEF Marked, MarkSound, Fresh, NoSett
<1>6. s \notin Legs /\ s \notin Sends
  BY FundingAssumption
<1>7. \/ flow = "FROM_ROUTE" /\ mark' = mark
      \/ flow = "TO_ROUTE" /\ \E of \in [Sources -> Nat] : Earmarked(s, ClientFunds, n, of)
  <2>1. CASE flow = "FROM_ROUTE"
    BY <2>1 DEF Record
  <2>2. CASE flow = "TO_ROUTE"
    <3>1. ClientFunds \in SUBSET Funds /\ Earmark(s, ClientFunds, n)
      BY <2>2 DEF Funds, Record
    <3> QED
      BY <1>1, <1>2, <1>5, <2>2, <3>1, EarmarkTakes
  <2> QED
    BY <2>1, <2>2
<1>8. /\ mark' \in [Uses -> MarkRow] /\ \A q \in Sources : Taken(q)' <= Avail(q)
      /\ \A u \in Uses : u # s => mark'[u] = mark[u]
  <2>1. mark \in [Uses -> MarkRow]
    BY <1>1, RowsTyped
  <2>2. CASE mark' = mark
    BY <1>1, <2>2, SameMarks
  <2>3. CASE mark' # mark
    BY <1>7, <2>1, <2>3 DEF Earmarked
  <2> QED
    BY <2>2, <2>3
<1>9. FundingTypeOK'
  BY <1>1, <1>3, <1>4, <1>8 DEF FundingTypeOK, SettRow, MarkRow
<1>10. \A q \in Settlements : sett[q].state = "CONFIRMED" => sett'[q] = sett[q]
  BY <1>2, <1>3 DEF NoSett
<1>11. FundsStand
  BY <1>1, <1>4, <1>9, <1>10, RowsTyped, RowsTypedNext, FundsLast
<1>12. ASSUME NEW u \in Uses PROVE MarkSound(u)'
  <2>1. MarkSound(u)
    BY <1>1 DEF Marked
  <2>2. CASE u = s /\ flow = "FROM_ROUTE"
    <3>1. mark' = mark
      BY <1>7, <2>2
    <3>2. ~Live(u)' /\ ~Fresh(u)' /\ ~Spent(u)'
      BY <1>3, <1>6, <2>2 DEF Live, Fresh, Spent
    <3>3. \A q \in Sources : mark'[u].of[q] = 0
      BY <1>5, <2>2, <3>1 DEF MarkSound
    <3> QED
      BY <1>5, <1>6, <2>2, <3>1, <3>2, <3>3 DEF MarkSound
  <2>3. CASE u = s /\ flow = "TO_ROUTE"
    <3>1. PICK of \in [Sources -> Nat] : Earmarked(s, ClientFunds, n, of)
      BY <1>7, <2>3
    <3>2. mark'[u] = [state |-> "ACTIVE", of |-> of]
      BY <1>1, <1>2, <2>3, <3>1, RowsTyped DEF Earmarked
    <3>3. Live(u)' /\ ~Fresh(u)' /\ ~Spent(u)' /\ sett'[u].state # "CONFIRMED"
      BY <1>3, <1>6, <2>3 DEF Live, Fresh, Spent
    <3>4. Priced'[u] = n
      BY <1>3, <1>9, <2>3, RowsTypedNext, PriceOfNext
    <3>5. ClientFunds \subseteq FundsOf(u)'
      BY <1>6, <1>11, <2>3 DEF FundsOf, FundsStand
    <3> QED
      BY <1>2, <1>6, <1>9, <2>3, <3>1, <3>2, <3>3, <3>4, <3>5, MarkStarts DEF Earmarked
  <2>4. CASE u # s
    BY <1>1, <1>3, <1>4, <1>8, <1>9, <1>11, <2>1, <2>4, MarkStays
  <2> QED
    BY <2>2, <2>3, <2>4
<1>13. HandedOver'
  <2>1. \A q \in Settlements : q \in Uses
    BY DEF Uses
  <2>2. GoneOut' = GoneOut /\ s \notin GoneOut
    BY <1>2, <1>3, <1>10 DEF GoneOut, NoSett
  <2>3. BySend' = BySend /\ Signed' = Signed
    BY <1>4, <1>8, <2>1, <2>2 DEF BySend, GoneOut, Signed
  <2>4. \A q \in BySend : sett'[q] = sett[q]
    BY <1>10 DEF BySend, GoneOut
  <2> QED
    BY <1>1, <1>4, <1>9, <2>3, <2>4, HandedStays
<1>14. Undone'
  BY <1>1, <1>4 DEF Undone
<1>15. AllocationExact'
  <2>1. \A q \in Settlements : sett'[q].state = "CONFIRMED" => sett[q].state = "CONFIRMED"
    BY <1>3
  <2> QED
    BY <1>1, <1>4, <1>9, <1>10, <2>1, AllocationStays
<1> QED
  BY <1>1, <1>8, <1>9, <1>11, <1>12, <1>13, <1>14, <1>15, StillWithin DEF FundInv, Marked

LEMMA FailKeeps ==
  ASSUME FundInv, NEW s \in Settlements, Fail(s)
  PROVE  FundInv'
<1>1. /\ FundingTypeOK /\ Marked /\ Within /\ HandedOver /\ Undone /\ AllocationExact
  BY DEF FundInv
<1>2. sett \in [Settlements -> SettRow] /\ sett[s] \in SettRow /\ sett[s].state = "RECORDED" /\ s \in Uses
  BY <1>1, RowsTyped DEF Fail, Transition, Uses
<1>3. /\ sett'[s].state = "FAILED" /\ sett'[s].flow = sett[s].flow /\ sett'[s].amount = sett[s].amount
      /\ \A q \in Settlements : q # s => sett'[q] = sett[q]
      /\ sett' \in [Settlements -> SettRow]
  BY <1>2 DEF Fail, SettRow
<1>4. UNCHANGED <<mode, dir, terms, adjusts, trade, obligation, leg, allocated, send>>
  BY DEF Fail, frozen
<1>5. MarkSound(s) /\ (sett[s].flow = "TO_ROUTE" <=> mark[s].state = "ACTIVE")
  BY <1>1, <1>2, FundingAssumption DEF Marked, MarkSound, Live
<1>6. s \notin Legs /\ s \notin Sends
  BY FundingAssumption
<1>7. /\ mark' \in [Uses -> MarkRow]
      /\ \A v \in Uses : v # s => mark'[v] = mark[v]
      /\ mark'[s].of = mark[s].of
      /\ mark'[s].state = IF mark[s].state = "ACTIVE" THEN "RELEASED" ELSE mark[s].state
      /\ \A q \in Sources : Taken(q)' <= Avail(q)
  <2>1. CASE sett[s].flow = "TO_ROUTE"
    <3>1. mark' = Settled(s, "RELEASED")
      BY <2>1 DEF Fail, FailMarks
    <3> QED
      BY <1>1, <1>2, <3>1, SettledMarks
  <2>2. CASE sett[s].flow # "TO_ROUTE"
    <3>1. mark' = mark
      BY <2>2 DEF Fail, FailMarks
    <3> QED
      BY <1>1, <1>5, <2>2, <3>1, SameMarks
  <2> QED
    BY <2>1, <2>2
<1>8. FundingTypeOK'
  BY <1>1, <1>3, <1>4, <1>7 DEF FundingTypeOK, SettRow, MarkRow
<1>9. \A q \in Settlements : sett[q].state = "CONFIRMED" => sett'[q] = sett[q]
  BY <1>2, <1>3
<1>10. FundsStand
  BY <1>1, <1>4, <1>8, <1>9, RowsTyped, RowsTypedNext, FundsLast
<1>11. \A u \in Uses : Priced'[u] = Priced[u]
  BY <1>1, <1>3, <1>4, <1>8, RowsTyped, RowsTypedNext, PriceOf, PriceOfNext DEF Uses
<1>12. ASSUME NEW u \in Uses PROVE MarkSound(u)'
  <2>1. MarkSound(u)
    BY <1>1 DEF Marked
  <2>2. CASE u = s
    <3>1. ~Live(u)' /\ ~Fresh(u)' /\ ~Spent(u)' /\ sett'[u].state # "CONFIRMED"
      BY <1>3, <1>6, <2>2 DEF Live, Fresh, Spent
    <3>2. mark'[u].state # "ACTIVE" /\ (mark'[u].state = "NONE" <=> mark[u].state = "NONE")
      BY <1>7, <2>2
    <3>3. \A q \in Sources : q \in FundsOf(u) => q \in FundsOf(u)'
      BY <1>6, <1>10, <2>2 DEF FundsOf, FundsStand
    <3> QED
      BY <1>6, <1>7, <1>11, <2>1, <2>2, <3>1, <3>2, <3>3 DEF MarkSound
  <2>3. CASE u # s
    BY <1>1, <1>3, <1>4, <1>7, <1>8, <1>10, <2>1, <2>3, MarkStays
  <2> QED
    BY <2>2, <2>3
<1>13. HandedOver'
  <2>1. \A q \in Settlements : q \in Uses
    BY DEF Uses
  <2>2. GoneOut' = GoneOut /\ s \notin GoneOut
    BY <1>2, <1>3, <1>9 DEF GoneOut
  <2>3. BySend' = BySend /\ Signed' = Signed
    BY <1>4, <1>7, <2>1, <2>2 DEF BySend, GoneOut, Signed
  <2>4. \A q \in BySend : sett'[q] = sett[q]
    BY <1>9 DEF BySend, GoneOut
  <2> QED
    BY <1>1, <1>4, <1>8, <2>3, <2>4, HandedStays
<1>14. Undone'
  BY <1>1, <1>4 DEF Undone
<1>15. AllocationExact'
  <2>1. \A q \in Settlements : sett'[q].state = "CONFIRMED" => sett[q].state = "CONFIRMED"
    BY <1>3
  <2> QED
    BY <1>1, <1>4, <1>8, <1>9, <2>1, AllocationStays
<1> QED
  BY <1>1, <1>7, <1>8, <1>10, <1>12, <1>13, <1>14, <1>15, StillWithin DEF FundInv, Marked
\* A confirmed settlement takes its amount from what is left of its side.
LEMMA SideGives ==
  ASSUME FundingTypeOK, FundingTypeOK', AllocationExact, NEW s \in Settlements, s \notin allocated,
         allocated' = allocated \cup {s}, sett'[s].state = "CONFIRMED",
         NEW side \in {"FROM_ROUTE", "TO_ROUTE"}, NEW n \in Nat, sett'[s].flow = side, sett'[s].amount = n,
         \A q \in Settlements : q # s => sett'[q] = sett[q],
         UNCHANGED <<mode, dir, terms, leg>>, n <= Left(side),
         obligation # "CANCELLED", obligation' = AfterAllocation
  PROVE  AllocationExact'
<1>1. n \in Nat /\ side \in {"FROM_ROUTE", "TO_ROUTE"} /\ s \in Uses
  BY DEF Uses
<1>2. allocated \subseteq Settlements /\ allocated \in SUBSET Uses
  BY DEF FundingTypeOK, Uses
<1>3. \A q \in allocated : Priced'[q] = Priced[q] /\ sett'[q] = sett[q]
  BY <1>2, RowsTyped, RowsTypedNext, PriceOf, PriceOfNext
<1>4. Priced'[s] = n
  BY RowsTypedNext, PriceOfNext
<1>5. AllocatedTo(side)' = AllocatedTo(side) + n
  <2>1. AllocatedRows(side)' = AllocatedRows(side) \cup {s} /\ s \notin AllocatedRows(side)
    BY <1>3 DEF AllocatedRows
  <2>2. AllocatedRows(side) \in SUBSET Uses /\ AllocatedRows(side) \subseteq allocated
    BY <1>2 DEF AllocatedRows
  <2>3. Sum(Priced', AllocatedRows(side) \cup {s}) = Sum(Priced, AllocatedRows(side)) + Priced'[s]
    BY <1>1, <1>3, <2>1, <2>2, SumGains
  <2> QED
    BY <1>1, <1>4, <2>1, <2>3, TotalsAre, TotalsAreNext
<1>6. ASSUME NEW other \in {"FROM_ROUTE", "TO_ROUTE"}, other # side
      PROVE  AllocatedTo(other)' = AllocatedTo(other)
  <2>1. AllocatedRows(other)' = AllocatedRows(other)
    BY <1>3, <1>6 DEF AllocatedRows
  <2>2. AllocatedRows(other) \in SUBSET Uses /\ AllocatedRows(other) \subseteq allocated
    BY <1>2 DEF AllocatedRows
  <2>3. Sum(Priced', AllocatedRows(other)) = Sum(Priced, AllocatedRows(other))
    BY <1>3, <2>2, SumLasts
  <2> QED
    BY <2>1, <2>3, TotalsAre, TotalsAreNext
<1>7. Come({"DIRECT"}, {"DONE"})' = Come({"DIRECT"}, {"DONE"})
  BY DEF Come, LegsOf, Total
<1>8. RouteSide' = RouteSide /\ ExchangeSide' = ExchangeSide /\ RouteSide \in Nat /\ ExchangeSide \in Nat
  BY DEF RouteSide, ExchangeSide, FundingTypeOK
<1>9. /\ AllocatedTo("FROM_ROUTE") \in Nat /\ AllocatedTo("TO_ROUTE") \in Nat
      /\ Come({"DIRECT"}, {"DONE"}) \in Nat
  BY TotalsAre
<1>10. RouteLeft >= 0 /\ ExchangeLeft >= 0 /\ n <= Left(side)
  BY DEF AllocationExact
<1>11. ASSUME side = "FROM_ROUTE" PROVE RouteLeft' >= 0 /\ ExchangeLeft' >= 0
  <2>1. RouteLeft' = RouteLeft - n /\ RouteLeft \in Int
    BY <1>1, <1>5, <1>7, <1>8, <1>9, <1>11 DEF RouteLeft
  <2>2. ExchangeLeft' = ExchangeLeft
    BY <1>6, <1>8, <1>11 DEF ExchangeLeft
  <2> QED
    BY <1>1, <1>10, <1>11, <2>1, <2>2 DEF Left
<1>12. ASSUME side = "TO_ROUTE" PROVE RouteLeft' >= 0 /\ ExchangeLeft' >= 0
  <2>1. ExchangeLeft' = ExchangeLeft - n /\ ExchangeLeft \in Int
    BY <1>1, <1>5, <1>8, <1>9, <1>12 DEF ExchangeLeft
  <2>2. RouteLeft' = RouteLeft
    BY <1>6, <1>7, <1>8, <1>12 DEF RouteLeft
  <2> QED
    BY <1>1, <1>10, <1>12, <2>1, <2>2 DEF Left
<1>13. RouteLeft' >= 0 /\ ExchangeLeft' >= 0
  BY <1>1, <1>11, <1>12
<1>14. allocated' = {q \in Settlements : sett'[q].state = "CONFIRMED"}
  BY <1>2, <1>3 DEF AllocationExact
<1> QED
  BY <1>13, <1>14, AllocationFollows

LEMMA ConfirmKeeps ==
  ASSUME FundInv, NEW s \in Settlements, Confirm(s)
  PROVE  FundInv'
<1>1. /\ FundingTypeOK /\ Marked /\ Within /\ HandedOver /\ Undone /\ AllocationExact
  BY DEF FundInv
<1>2. sett \in [Settlements -> SettRow] /\ sett[s] \in SettRow /\ sett[s].state = "RECORDED" /\ s \in Uses
  BY <1>1, RowsTyped DEF Confirm, Transition, Uses
<1>3. /\ sett'[s].state = "CONFIRMED" /\ sett'[s].flow = sett[s].flow /\ sett'[s].amount = sett[s].amount
      /\ \A q \in Settlements : q # s => sett'[q] = sett[q]
      /\ sett' \in [Settlements -> SettRow]
  BY <1>2 DEF Confirm, SettRow
<1>4. /\ UNCHANGED <<mode, dir, terms, adjusts, trade, leg, send>>
      /\ allocated' = allocated \cup {s} /\ obligation # "CANCELLED" /\ obligation' = AfterAllocation
      /\ sett[s].amount <= Left(sett[s].flow)
  BY DEF Confirm, frozen
<1>5. MarkSound(s) /\ (sett[s].flow = "TO_ROUTE" <=> mark[s].state = "ACTIVE")
  BY <1>1, <1>2, FundingAssumption DEF Marked, MarkSound, Live
<1>6. s \notin Legs /\ s \notin Sends
  BY FundingAssumption
<1>7. /\ mark' \in [Uses -> MarkRow]
      /\ \A v \in Uses : v # s => mark'[v] = mark[v]
      /\ mark'[s].of = mark[s].of
      /\ mark'[s].state = IF mark[s].state = "ACTIVE" THEN "CONSUMED" ELSE mark[s].state
      /\ \A q \in Sources : Taken(q)' <= Avail(q)
  <2>1. CASE sett[s].flow = "TO_ROUTE"
    <3>1. mark' = Settled(s, "CONSUMED")
      BY <2>1 DEF Confirm
    <3> QED
      BY <1>1, <1>2, <3>1, SettledMarks
  <2>2. CASE sett[s].flow # "TO_ROUTE"
    <3>1. mark' = mark
      BY <2>2 DEF Confirm
    <3> QED
      BY <1>1, <1>5, <2>2, <3>1, SameMarks
  <2> QED
    BY <2>1, <2>2
<1>8. FundingTypeOK'
  <2>1. obligation' \in {"OPEN", "PARTIALLY_SETTLED", "SETTLED", "CANCELLED"}
    BY <1>4 DEF AfterAllocation
  <2> QED
    BY <1>1, <1>3, <1>4, <1>7, <2>1 DEF FundingTypeOK, SettRow, MarkRow
<1>9. \A q \in Settlements : sett[q].state = "CONFIRMED" => sett'[q] = sett[q]
  BY <1>2, <1>3
<1>10. FundsStand
  BY <1>1, <1>4, <1>8, <1>9, RowsTyped, RowsTypedNext, FundsLast
<1>11. \A u \in Uses : Priced'[u] = Priced[u]
  BY <1>1, <1>3, <1>4, <1>8, RowsTyped, RowsTypedNext, PriceOf, PriceOfNext DEF Uses
<1>12. ASSUME NEW u \in Uses PROVE MarkSound(u)'
  <2>1. MarkSound(u)
    BY <1>1 DEF Marked
  <2>2. CASE u = s
    <3>1. ~Live(u)' /\ ~Fresh(u)' /\ ~Spent(u)'
      BY <1>3, <1>6, <2>2 DEF Live, Fresh, Spent
    <3>2. mark'[u].state # "ACTIVE" /\ (mark'[u].state = "NONE" <=> mark[u].state = "NONE")
      BY <1>7, <2>2
    <3>3. \A q \in Sources : q \in FundsOf(u) => q \in FundsOf(u)'
      BY <1>6, <1>10, <2>2 DEF FundsOf, FundsStand
    <3>4. sett'[u].flow = "TO_ROUTE" => mark'[u].state = "CONSUMED"
      BY <1>3, <1>5, <1>7, <2>2
    <3> QED
      BY <1>6, <1>7, <1>11, <2>1, <2>2, <3>1, <3>2, <3>3, <3>4 DEF MarkSound
  <2>3. CASE u # s
    BY <1>1, <1>3, <1>4, <1>7, <1>8, <1>10, <2>1, <2>3, MarkStays
  <2> QED
    BY <2>2, <2>3
<1>13. HandedOver'
  <2>1. \A q \in Settlements : q \in Uses
    BY DEF Uses
  <2>2. sett'[s].flow = "TO_ROUTE" => mark'[s].state = "CONSUMED"
    BY <1>3, <1>5, <1>7
  <2>3. s \notin BySend' /\ s \notin BySend
    BY <1>2, <2>2 DEF BySend, GoneOut
  <2>4. BySend' = BySend /\ Signed' = Signed
    BY <1>3, <1>4, <1>7, <2>1, <2>3 DEF BySend, GoneOut, Signed
  <2>5. \A q \in BySend : sett'[q] = sett[q]
    BY <1>9 DEF BySend, GoneOut
  <2> QED
    BY <1>1, <1>4, <1>8, <2>4, <2>5, HandedStays
<1>14. Undone'
  BY <1>4 DEF Undone, AfterAllocation
<1>15. AllocationExact'
  <2>1. s \notin allocated
    BY <1>1, <1>2 DEF AllocationExact
  <2>2. sett[s].flow \in {"FROM_ROUTE", "TO_ROUTE"} /\ sett[s].amount \in Nat
    BY <1>2 DEF SettRow
  <2> QED
    BY <1>1, <1>3, <1>4, <1>8, <2>1, <2>2, SideGives
<1> QED
  BY <1>1, <1>7, <1>8, <1>10, <1>12, <1>13, <1>14, <1>15, StillWithin DEF FundInv, Marked
LEMMA SettleSendKeeps ==
  ASSUME FundInv, NEW x \in Sends, NEW s \in Settlements, SettleSend(x, s)
  PROVE  FundInv'
<1>1. /\ FundingTypeOK /\ Marked /\ Within /\ HandedOver /\ Undone /\ AllocationExact
  BY DEF FundInv
<1>2. /\ sett \in [Settlements -> SettRow] /\ sett[s] = NoSett /\ s \in Uses /\ x \in Uses
      /\ send \in [Sends -> SendRow] /\ send[x] \in SendRow /\ send[x].state = "LANDED"
  BY <1>1, RowsTyped DEF SettleSend, Uses
<1>3. send[x].amount \in Nat
  BY <1>2 DEF SendRow
<1>4. /\ sett'[s] = [state |-> "CONFIRMED", flow |-> "TO_ROUTE", amount |-> send[x].amount]
      /\ \A q \in Settlements : q # s => sett'[q] = sett[q]
      /\ sett' \in [Settlements -> SettRow]
  BY <1>2, <1>3 DEF SettleSend, SettRow
<1>5. /\ send'[x].state = "CONFIRMED" /\ send'[x].amount = send[x].amount
      /\ \A y \in Sends : y # x => send'[y] = send[y]
      /\ send' \in [Sends -> SendRow]
  BY <1>2 DEF SettleSend, SendRow
<1>6. /\ UNCHANGED <<mode, dir, terms, adjusts, trade, leg>>
      /\ allocated' = allocated \cup {s} /\ obligation' = AfterAllocation /\ mark' = Settled(x, "CONSUMED")
      /\ obligation # "CANCELLED" /\ send[x].amount <= ExchangeLeft
  BY DEF SettleSend, Settleable, MayPayRoute, frozen
<1>7. /\ mark' \in [Uses -> MarkRow]
      /\ \A v \in Uses : v # x => mark'[v] = mark[v]
      /\ mark'[x].of = mark[x].of
      /\ mark'[x].state = IF mark[x].state = "ACTIVE" THEN "CONSUMED" ELSE mark[x].state
      /\ \A q \in Sources : Taken(q)' <= Avail(q)
  BY <1>1, <1>2, <1>6, SettledMarks
<1>8. s \notin Legs /\ s \notin Sends /\ x \notin Legs /\ x \notin Settlements /\ s # x
  BY FundingAssumption
<1>9. FundingTypeOK'
  <2>1. obligation' \in {"OPEN", "PARTIALLY_SETTLED", "SETTLED", "CANCELLED"}
    BY <1>6 DEF AfterAllocation
  <2> QED
    BY <1>1, <1>4, <1>5, <1>6, <1>7, <2>1 DEF FundingTypeOK, SettRow, SendRow, MarkRow
<1>10. \A q \in Settlements : sett[q].state = "CONFIRMED" => sett'[q] = sett[q]
  BY <1>2, <1>4 DEF NoSett
<1>11. FundsStand
  BY <1>1, <1>6, <1>9, <1>10, RowsTyped, RowsTypedNext, FundsLast
<1>12. \A u \in Uses : u # s => Priced'[u] = Priced[u]
  <2>1. \A u \in Legs : Priced'[u] = Priced[u]
    BY <1>1, <1>6, <1>9, RowsTyped, RowsTypedNext, PriceOf, PriceOfNext
  <2>2. \A u \in Settlements : u # s => Priced'[u] = Priced[u]
    BY <1>1, <1>4, <1>9, RowsTyped, RowsTypedNext, PriceOf, PriceOfNext
  <2>3. \A u \in Sends : Priced'[u] = Priced[u]
    BY <1>1, <1>5, <1>9, RowsTyped, RowsTypedNext, PriceOf, PriceOfNext
  <2> QED
    BY <2>1, <2>2, <2>3 DEF Uses
<1>13. MarkSound(s) /\ mark[s].state = "NONE"
  BY <1>1, <1>2 DEF Marked, MarkSound, Fresh, NoSett
<1>14. MarkSound(x) /\ mark[x].state = "ACTIVE"
  BY <1>1, <1>2 DEF Marked, MarkSound, Live
<1>15. ASSUME NEW u \in Uses PROVE MarkSound(u)'
  <2>1. MarkSound(u)
    BY <1>1 DEF Marked
  <2>2. CASE u = x
    <3>1. ~Live(u)' /\ ~Fresh(u)' /\ mark'[u].state = "CONSUMED"
      BY <1>5, <1>7, <1>8, <1>14, <2>2 DEF Live, Fresh
    <3>2. \A q \in Sources : q \in FundsOf(u) => q \in FundsOf(u)'
      BY <1>8, <1>11, <2>2 DEF FundsOf, FundsStand
    <3>3. ~Fresh(u)
      BY <1>2, <1>8, <2>2 DEF Fresh
    <3> QED
      BY <1>5, <1>7, <1>8, <1>12, <1>14, <2>2, <3>1, <3>2, <3>3 DEF MarkSound
  <2>3. CASE u = s
    <3>1. ~Live(u)' /\ ~Fresh(u)' /\ ~Spent(u)'
      BY <1>4, <1>8, <2>3 DEF Live, Fresh, Spent
    <3>2. mark'[u] = mark[u]
      BY <1>7, <1>8, <2>3
    <3>3. \A q \in Sources : mark'[u].of[q] = 0
      BY <1>13, <2>3, <3>2 DEF MarkSound
    <3> QED
      BY <1>8, <1>13, <2>3, <3>1, <3>2, <3>3 DEF MarkSound
  <2>4. CASE u # x /\ u # s
    BY <1>1, <1>4, <1>5, <1>6, <1>7, <1>9, <1>11, <2>1, <2>4, MarkStays
  <2> QED
    BY <2>2, <2>3, <2>4
<1>16. HandedOver'
  <2>1. \A q \in Settlements : q \in Uses /\ mark'[q] = mark[q]
    BY <1>7, <1>8 DEF Uses
  <2>2. BySend' = BySend \cup {s} /\ s \notin BySend
    BY <1>2, <1>4, <1>13, <2>1 DEF BySend, GoneOut, NoSett
  <2>3. Signed' = Signed \cup {x} /\ x \notin Signed
    BY <1>2, <1>5 DEF Signed
  <2>4. BySend \in SUBSET Uses /\ Signed \in SUBSET Uses
    BY DEF BySend, GoneOut, Signed, Uses
  <2>5. Priced'[s] = send[x].amount /\ Priced'[x] = send[x].amount
    BY <1>4, <1>5, <1>9, RowsTypedNext, PriceOfNext
  <2>6. Sum(Priced', BySend \cup {s}) = Sum(Priced, BySend) + Priced'[s]
    <3>1. \A u \in BySend : Priced'[u] = Priced[u]
      BY <1>12, <2>2, <2>4
    <3> QED
      BY <1>1, <1>2, <1>9, <2>2, <2>4, <3>1, SumGains
  <2>7. Sum(Priced', Signed \cup {x}) = Sum(Priced, Signed) + Priced'[x]
    <3>1. \A u \in Signed : Priced'[u] = Priced[u]
      BY <1>8, <1>12, <2>4 DEF Signed
    <3> QED
      BY <1>1, <1>2, <1>9, <2>3, <2>4, <3>1, SumGains
  <2>8. Sum(Priced, BySend) = Sum(Priced, Signed)
    BY <1>1 DEF HandedOver
  <2> QED
    BY <2>2, <2>3, <2>5, <2>6, <2>7, <2>8 DEF HandedOver
<1>17. Undone'
  BY <1>6 DEF Undone, AfterAllocation
<1>18. AllocationExact'
  <2>1. s \notin allocated
    BY <1>1, <1>2 DEF AllocationExact, NoSett
  <2>2. sett'[s].state = "CONFIRMED" /\ sett'[s].flow = "TO_ROUTE" /\ sett'[s].amount = send[x].amount
    BY <1>4
  <2>3. send[x].amount <= Left("TO_ROUTE")
    BY <1>6 DEF Left
  <2> QED
    BY <1>1, <1>3, <1>4, <1>6, <1>9, <2>1, <2>2, <2>3, SideGives
<1> QED
  BY <1>1, <1>7, <1>9, <1>11, <1>15, <1>16, <1>17, <1>18, StillWithin DEF FundInv, Marked

\* What the signer does to a send before it is settled: nothing else of the trade moves.
LEMMA SendMoves ==
  ASSUME FundInv, NEW x \in Sends, send' \in [Sends -> SendRow], mark' \in [Uses -> MarkRow],
         \A y \in Sends : y # x => send'[y] = send[y],
         send[x].state # "CONFIRMED", send'[x].state # "CONFIRMED",
         UNCHANGED <<mode, dir, terms, adjusts, trade, obligation, leg, sett, allocated>>,
         \A v \in Uses : v # x => mark'[v] = mark[v],
         \A q \in Sources : Taken(q)' <= Avail(q),
         obligation = "CANCELLED" => send'[x].state \in {"NONE", "CANCELLED"},
         FundingTypeOK' /\ FundsStand => MarkSound(x)'
  PROVE  FundInv'
<1>1. /\ FundingTypeOK /\ Marked /\ Within /\ HandedOver /\ Undone /\ AllocationExact
  BY DEF FundInv
<1>2. FundingTypeOK'
  BY <1>1 DEF FundingTypeOK, SendRow, MarkRow
<1>3. FundsStand
  BY <1>1, <1>2, RowsTyped, RowsTypedNext, FundsLast
<1>4. x \notin Legs /\ x \notin Settlements
  BY FundingAssumption
<1>5. ASSUME NEW u \in Uses PROVE MarkSound(u)'
  <2>1. MarkSound(u)
    BY <1>1 DEF Marked
  <2>2. CASE u = x
    BY <1>2, <1>3, <2>2
  <2>3. CASE u # x
    BY <1>1, <1>2, <1>3, <2>1, <2>3, MarkStays
  <2> QED
    BY <2>2, <2>3
<1>6. HandedOver'
  <2>1. \A q \in Settlements : q \in Uses /\ mark'[q] = mark[q]
    BY <1>4 DEF Uses
  <2>2. BySend' = BySend /\ Signed' = Signed
    BY <2>1 DEF BySend, GoneOut, Signed
  <2>3. \A y \in Signed : send'[y] = send[y]
    BY DEF Signed
  <2> QED
    BY <1>1, <1>2, <2>2, <2>3, HandedStays
<1>7. Undone'
  BY <1>1 DEF Undone
<1>8. AllocationExact'
  BY <1>1, <1>2, AllocationStays
<1> QED
  BY <1>1, <1>2, <1>3, <1>5, <1>6, <1>7, <1>8, StillWithin DEF FundInv, Marked

LEMMA PlanSendKeeps ==
  ASSUME FundInv, NEW x \in Sends, NEW n \in Movements, PlanSend(x, n)
  PROVE  FundInv'
<1>1. /\ FundingTypeOK /\ Marked /\ Within
  BY DEF FundInv
<1>2. send \in [Sends -> SendRow] /\ send[x] = NoSend /\ n \in Nat /\ n > 0 /\ x \in Uses /\ obligation # "CANCELLED"
  BY <1>1, RowsTyped, FundingAssumption DEF PlanSend, MayPayRoute, Uses
<1>3. /\ send'[x] = [state |-> "PLANNED", amount |-> n]
      /\ \A y \in Sends : y # x => send'[y] = send[y]
      /\ send' \in [Sends -> SendRow]
  BY <1>2 DEF PlanSend, SendRow
<1>4. UNCHANGED <<mode, dir, terms, adjusts, trade, obligation, leg, sett, allocated>>
  BY DEF PlanSend, frozen
<1>5. MarkSound(x) /\ mark[x].state = "NONE"
  BY <1>1, <1>2 DEF Marked, MarkSound, Fresh, NoSend
<1>6. x \notin Legs /\ x \notin Settlements
  BY FundingAssumption
<1>a. PICK of \in [Sources -> Nat] : Earmarked(x, ClientFunds, n, of)
  <2>1. ClientFunds \in SUBSET Funds /\ Earmark(x, ClientFunds, n)
    BY DEF Funds, PlanSend
  <2>2. FundingTypeOK /\ Within /\ x \in Uses /\ mark[x].state = "NONE" /\ n \in Nat
    BY <1>1, <1>2, <1>5
  <2> QED
    BY <2>1, <2>2, EarmarkTakes
<1>7. /\ mark' = [mark EXCEPT ![x] = [state |-> "ACTIVE", of |-> of]]
      /\ Sum(of, Sources) = n
      /\ \A q \in Sources : of[q] > 0 => q \in ClientFunds
      /\ mark' \in [Uses -> MarkRow]
      /\ \A q \in Sources : Taken(q)' <= Avail(q)
  BY <1>a DEF Earmarked
<1>8. /\ mark'[x] = [state |-> "ACTIVE", of |-> of]
      /\ \A v \in Uses : v # x => mark'[v] = mark[v]
  BY <1>1, <1>2, <1>7, RowsTyped
<1>9. ASSUME FundingTypeOK', FundsStand PROVE MarkSound(x)'
  <2>1. Live(x)' /\ ~Fresh(x)' /\ ~Spent(x)'
    BY <1>3, <1>6 DEF Live, Fresh, Spent
  <2>2. Priced'[x] = n
    BY <1>3, <1>9, RowsTypedNext, PriceOfNext
  <2>3. ClientFunds \subseteq FundsOf(x)'
    BY <1>6, <1>9 DEF FundsOf, FundsStand
  <2>4. send'[x].amount > 0
    BY <1>2, <1>3
  <2> QED
    BY <1>2, <1>6, <1>7, <1>8, <1>9, <2>1, <2>2, <2>3, <2>4, MarkStarts
<1>10. send[x].state # "CONFIRMED" /\ send'[x].state # "CONFIRMED"
  BY <1>2, <1>3 DEF NoSend
<1> QED
  BY <1>2, <1>3, <1>4, <1>7, <1>8, <1>9, <1>10, SendMoves

LEMMA LandKeeps ==
  ASSUME FundInv, NEW x \in Sends, Land(x)
  PROVE  FundInv'
<1>1. /\ FundingTypeOK /\ Marked /\ Within /\ Undone
  BY DEF FundInv
<1>2. send \in [Sends -> SendRow] /\ send[x] \in SendRow /\ send[x].state = "PLANNED" /\ x \in Uses
  BY <1>1, RowsTyped DEF Land, Uses
<1>3. /\ send'[x].state = "LANDED" /\ send'[x].amount = send[x].amount
      /\ \A y \in Sends : y # x => send'[y] = send[y]
      /\ send' \in [Sends -> SendRow]
  BY <1>2 DEF Land, SendRow
<1>4. UNCHANGED <<mode, dir, terms, adjusts, trade, obligation, leg, sett, allocated, mark>>
  BY DEF Land, frozen
<1>5. x \notin Legs /\ x \notin Settlements
  BY FundingAssumption
<1>6. MarkSound(x)
  BY <1>1, <1>2 DEF Marked
<1>7. mark' \in [Uses -> MarkRow] /\ \A q \in Sources : Taken(q)' <= Avail(q)
  BY <1>1, <1>4, SameMarks
<1>8. ASSUME FundingTypeOK', FundsStand PROVE MarkSound(x)'
  <2>1. Live(x)' /\ Live(x) /\ ~Fresh(x)' /\ ~Fresh(x) /\ ~Spent(x)'
    BY <1>2, <1>3, <1>5 DEF Live, Fresh, Spent
  <2>2. Priced'[x] = Priced[x]
    BY <1>1, <1>3, <1>8, RowsTyped, RowsTypedNext, PriceOf, PriceOfNext
  <2>3. \A q \in Sources : q \in FundsOf(x) => q \in FundsOf(x)'
    BY <1>5, <1>8 DEF FundsOf, FundsStand
  <2> QED
    BY <1>3, <1>4, <1>5, <1>6, <2>1, <2>2, <2>3 DEF MarkSound
<1>9. obligation # "CANCELLED"
  BY <1>1, <1>2 DEF Undone
<1>10. send[x].state # "CONFIRMED" /\ send'[x].state # "CONFIRMED"
  BY <1>2, <1>3
<1> QED
  BY <1>3, <1>4, <1>7, <1>8, <1>9, <1>10, SendMoves

LEMMA CancelSendKeeps ==
  ASSUME FundInv, NEW x \in Sends, CancelSend(x)
  PROVE  FundInv'
<1>1. /\ FundingTypeOK /\ Marked /\ Within /\ Undone
  BY DEF FundInv
<1>2. send \in [Sends -> SendRow] /\ send[x] \in SendRow /\ send[x].state = "PLANNED" /\ x \in Uses
  BY <1>1, RowsTyped DEF CancelSend, Uses
<1>3. /\ send'[x].state = "CANCELLED" /\ send'[x].amount = send[x].amount
      /\ \A y \in Sends : y # x => send'[y] = send[y]
      /\ send' \in [Sends -> SendRow]
  BY <1>2 DEF CancelSend, SendRow
<1>4. /\ UNCHANGED <<mode, dir, terms, adjusts, trade, obligation, leg, sett, allocated>>
      /\ mark' = Settled(x, "RELEASED")
  BY DEF CancelSend, frozen
<1>5. x \notin Legs /\ x \notin Settlements
  BY FundingAssumption
<1>6. MarkSound(x)
  BY <1>1, <1>2 DEF Marked
<1>7. /\ mark' \in [Uses -> MarkRow]
      /\ \A v \in Uses : v # x => mark'[v] = mark[v]
      /\ mark'[x].of = mark[x].of
      /\ mark'[x].state = IF mark[x].state = "ACTIVE" THEN "RELEASED" ELSE mark[x].state
      /\ \A q \in Sources : Taken(q)' <= Avail(q)
  BY <1>1, <1>2, <1>4, SettledMarks
<1>8. ASSUME FundingTypeOK', FundsStand PROVE MarkSound(x)'
  <2>1. ~Live(x)' /\ ~Fresh(x)' /\ ~Fresh(x) /\ ~Spent(x)'
    BY <1>2, <1>3, <1>5 DEF Live, Fresh, Spent
  <2>2. Priced'[x] = Priced[x]
    BY <1>1, <1>3, <1>8, RowsTyped, RowsTypedNext, PriceOf, PriceOfNext
  <2>3. \A q \in Sources : q \in FundsOf(x) => q \in FundsOf(x)'
    BY <1>5, <1>8 DEF FundsOf, FundsStand
  <2>4. mark'[x].state # "ACTIVE" /\ (mark'[x].state = "NONE" <=> mark[x].state = "NONE")
    BY <1>7
  <2> QED
    BY <1>3, <1>5, <1>6, <1>7, <2>1, <2>2, <2>3, <2>4 DEF MarkSound
<1>9. send[x].state # "CONFIRMED" /\ send'[x].state # "CONFIRMED" /\ send'[x].state \in {"NONE", "CANCELLED"}
  BY <1>2, <1>3
<1> QED
  BY <1>3, <1>4, <1>7, <1>8, <1>9, SendMoves
LEMMA RowsStand ==
  ASSUME FundInv, FundingTypeOK', UNCHANGED <<leg, sett, send, mark, allocated>>
  PROVE  Marked' /\ Within' /\ HandedOver'
<1>1. /\ FundingTypeOK /\ Marked /\ Within /\ HandedOver
  BY DEF FundInv
<1>2. FundsStand
  BY <1>1, RowsTyped, RowsTypedNext, FundsLast
<1>3. ASSUME NEW u \in Uses PROVE MarkSound(u)'
  BY <1>1, <1>2, MarkStays DEF Marked
<1>4. HandedOver'
  BY <1>1, HandedStays DEF BySend, GoneOut, Signed
<1> QED
  BY <1>1, <1>2, <1>3, <1>4, SameMarks, StillWithin DEF Marked

LEMMA AdjustKeeps ==
  ASSUME FundInv, NEW d \in Deltas, Adjust(d)
  PROVE  FundInv'
<1>1. /\ FundingTypeOK /\ Undone /\ AllocationExact
  BY DEF FundInv
<1>2. UNCHANGED <<mode, dir, leg, sett, allocated, send, mark>>
  BY DEF Adjust, frozen
<1>3. /\ AllocatedTo("FROM_ROUTE")' = AllocatedTo("FROM_ROUTE") /\ AllocatedTo("TO_ROUTE")' = AllocatedTo("TO_ROUTE")
      /\ Come({"DIRECT"}, {"DONE"})' = Come({"DIRECT"}, {"DONE"})
  BY <1>2 DEF AllocatedTo, Come, LegsOf, Total
<1>4. /\ AllocatedTo("FROM_ROUTE") \in Nat /\ AllocatedTo("TO_ROUTE") \in Nat
      /\ Come({"DIRECT"}, {"DONE"}) \in Nat
  BY <1>1, TotalsAre
<1>5. /\ terms \in [base : Nat, client : Nat, route : Nat] /\ d \in [base : Int, client : Int, route : Int]
      /\ dir \in {"SELL", "BUY"}
  BY <1>1, FundingAssumption DEF FundingTypeOK
<1>6. /\ terms' = [base |-> terms.base + d.base, client |-> terms.client + d.client, route |-> terms.route + d.route]
  <2>1. DOMAIN terms = {"base", "client", "route"}
    BY <1>5
  <2>2. terms' = [f \in {"base", "client", "route"} |-> terms[f] + d[f]]
    BY <2>1 DEF Adjust
  <2> QED
    BY <2>2
<1>7. /\ terms'.base \in Int /\ terms'.client \in Int /\ terms'.route \in Int
  BY <1>5, <1>6
<1>8. /\ Payout' > 0 /\ Receivable' > 0 /\ RouteLeft' >= 0 /\ ExchangeLeft' >= 0
      /\ obligation = "SETTLED" => RouteSide' <= RouteSide /\ ExchangeSide' <= ExchangeSide
  BY DEF Adjust
<1>9. RouteSide \in Nat /\ ExchangeSide \in Nat /\ RouteSide' \in Int /\ ExchangeSide' \in Int
  BY <1>5, <1>7 DEF RouteSide, ExchangeSide
<1>10. RouteSide' \in Nat /\ ExchangeSide' \in Nat
  BY <1>3, <1>4, <1>8, <1>9 DEF RouteLeft, ExchangeLeft
<1>11. terms' \in [base : Nat, client : Nat, route : Nat]
  <2>1. terms'.base \in Nat /\ terms'.client \in Nat /\ terms'.route \in Nat
    BY <1>2, <1>5, <1>7, <1>8, <1>10 DEF Payout, Receivable, RouteSide, ExchangeSide
  <2> QED
    BY <1>6, <2>1
<1>12. /\ obligation' = Refreshed /\ adjusts < MaxAdjusts /\ adjusts' = adjusts + 1
       /\ trade' = IF trade = "LIVE" /\ Square' THEN "COMPLETED" ELSE trade
  BY DEF Adjust, Advance
<1>13. FundingTypeOK'
  <2>1. adjusts' \in 0 .. MaxAdjusts
    BY <1>1, <1>12, FundingAssumption DEF FundingTypeOK
  <2>2. trade' \in {"LIVE", "COMPLETED", "CANCELLED"}
    BY <1>1, <1>12 DEF FundingTypeOK
  <2>3. obligation' \in {"OPEN", "PARTIALLY_SETTLED", "SETTLED", "CANCELLED"}
    BY <1>1, <1>12 DEF Refreshed, FundingTypeOK
  <2> QED
    BY <1>1, <1>2, <1>11, <2>1, <2>2, <2>3 DEF FundingTypeOK, Uses, Sources
<1>14. AllocationExact'
  <2>1. obligation = "SETTLED" => RouteLeft' = 0 /\ ExchangeLeft' = 0
    <3>1. obligation = "SETTLED" => RouteLeft = 0 /\ ExchangeLeft = 0
      BY <1>1 DEF AllocationExact
    <3> QED
      BY <1>3, <1>4, <1>8, <1>9, <3>1 DEF RouteLeft, ExchangeLeft
  <2>2. obligation' = IF obligation \in {"OPEN", "PARTIALLY_SETTLED"} /\ RouteLeft' = 0 /\ ExchangeLeft' = 0
                      THEN "SETTLED" ELSE obligation
    BY <1>12 DEF Refreshed
  <2>3. obligation \in {"OPEN", "PARTIALLY_SETTLED", "SETTLED", "CANCELLED"}
    BY <1>1 DEF FundingTypeOK
  <2>4. obligation' = "SETTLED" <=> obligation' # "CANCELLED" /\ RouteLeft' = 0 /\ ExchangeLeft' = 0
    BY <2>1, <2>2, <2>3
  <2>5. obligation' \in {"OPEN", "CANCELLED"} => allocated' = {} /\ Come({"DIRECT"}, {"DONE"})' = 0
    BY <1>1, <1>2, <1>3, <2>2 DEF AllocationExact
  <2>6. allocated' = {s \in Settlements : sett'[s].state = "CONFIRMED"}
    BY <1>1, <1>2 DEF AllocationExact
  <2> QED
    BY <1>8, <2>4, <2>5, <2>6 DEF AllocationExact
<1>15. Undone'
  <2>1. obligation' = "CANCELLED" => obligation = "CANCELLED"
    BY <1>12 DEF Refreshed
  <2> QED
    BY <1>1, <1>2, <2>1 DEF Undone
<1>16. Marked' /\ Within' /\ HandedOver'
  BY <1>2, <1>13, RowsStand
<1> QED
  BY <1>13, <1>14, <1>15, <1>16 DEF FundInv

LEMMA FundingStutters ==
  ASSUME FundInv, UNCHANGED fundingVars
  PROVE  FundInv'
<1>1. FundingTypeOK /\ Undone /\ AllocationExact
  BY DEF FundInv
<1>2. UNCHANGED <<mode, dir, terms, adjusts, trade, obligation, leg, sett, allocated, send, mark>>
  BY DEF fundingVars
<1>3. FundingTypeOK'
  BY <1>1, <1>2 DEF FundingTypeOK, Uses, Sources
<1>4. Undone'
  BY <1>1, <1>2 DEF Undone
<1>5. AllocationExact'
  BY <1>1, <1>2, <1>3, AllocationStays
<1> QED
  BY <1>2, <1>3, <1>4, <1>5, RowsStand DEF FundInv

LEMMA FundInvStarts ==
  ASSUME FundingInit
  PROVE  FundInv
<1>1. FundingTypeOK
  <2>1. terms \in [base : Nat, client : Nat, route : Nat]
    BY FundingAssumption DEF FundingInit
  <2>2. leg \in [Legs -> LegRow] /\ sett \in [Settlements -> SettRow] /\ send \in [Sends -> SendRow]
    BY DEF FundingInit, NoLeg, NoSett, NoSend, LegRow, SettRow, SendRow, LegKinds
  <2>3. mark \in [Uses -> MarkRow]
    BY DEF FundingInit, NoMark, MarkRow
  <2> QED
    BY <2>1, <2>2, <2>3, FundingAssumption DEF FundingInit, FundingTypeOK, LegRow, SettRow, SendRow, MarkRow
<1>2. /\ \A l \in Legs : leg[l].state = "NONE" /\ leg[l].kind = "CLIENT" /\ l \notin Settlements /\ l \notin Sends
      /\ \A s \in Settlements : sett[s].state = "NONE" /\ s \notin Legs /\ s \notin Sends
      /\ \A x \in Sends : send[x].state = "NONE" /\ x \notin Legs /\ x \notin Settlements
      /\ \A u \in Uses : mark[u] = NoMark
  BY FundingAssumption DEF FundingInit, NoLeg, NoSett, NoSend
<1>3. ASSUME NEW u \in Uses PROVE MarkSound(u)
  <2>1. ~Live(u) /\ Fresh(u) /\ ~Spent(u)
    BY <1>2 DEF Live, Fresh, Spent, Uses
  <2>2. mark[u].state = "NONE" /\ \A s \in Sources : mark[u].of[s] = 0
    BY <1>2 DEF NoMark
  <2> QED
    BY <1>2, <2>1, <2>2 DEF MarkSound
<1>4. ASSUME NEW s \in Sources PROVE Taken(s) <= Avail(s)
  <2>1. {u \in Uses : mark[u].state \in {"ACTIVE", "CONSUMED"}} = {}
    BY <1>2 DEF NoMark
  <2>2. Taken(s) = 0
    BY <2>1, SumEmpty DEF Taken, TakenBy
  <2>3. Avail(s) \in Nat
    BY <1>1, RowsTyped, PriceOf DEF Avail, Sources, Uses
  <2> QED
    BY <2>2, <2>3
<1>5. BySend = {} /\ Signed = {}
  BY <1>2 DEF BySend, GoneOut, Signed
<1>6. HandedOver
  BY <1>5 DEF HandedOver
<1>7. obligation = "OPEN" /\ allocated = {} /\ terms = Terms /\ dir \in {"SELL", "BUY"}
  BY FundingAssumption DEF FundingInit
<1>8. Undone
  BY <1>7 DEF Undone
<1>9. AllocationExact
  <2>1. /\ \A flow : AllocatedRows(flow) = {} /\ LegsOf({"DIRECT"}, {"DONE"}) = {}
    BY <1>2, <1>7 DEF AllocatedRows, LegsOf
  <2>2. /\ AllocatedTo("FROM_ROUTE") = 0 /\ AllocatedTo("TO_ROUTE") = 0 /\ Come({"DIRECT"}, {"DONE"}) = 0
    BY <1>1, <2>1, TotalsAre, SumEmpty
  <2>3. RouteSide \in Nat \ {0} /\ ExchangeSide \in Nat \ {0}
    BY <1>7, FundingAssumption DEF RouteSide, ExchangeSide
  <2>4. RouteLeft > 0 /\ ExchangeLeft > 0 /\ RouteLeft \in Nat /\ ExchangeLeft \in Nat
    BY <2>2, <2>3 DEF RouteLeft, ExchangeLeft
  <2>5. allocated = {s \in Settlements : sett[s].state = "CONFIRMED"}
    BY <1>2, <1>7
  <2> QED
    BY <1>7, <2>2, <2>4, <2>5 DEF AllocationExact
<1> QED
  BY <1>1, <1>3, <1>4, <1>6, <1>8, <1>9 DEF FundInv, Marked, Within
LEMMA FundInvStep ==
  ASSUME FundInv, [FundingNext]_fundingVars
  PROVE  FundInv'
<1>1. CASE UNCHANGED fundingVars
  BY <1>1, FundingStutters
<1>2. CASE LegStep
  BY <1>2, CancelTradeKeeps, ConfirmLegKeeps, DropLegKeeps, ClientPaysKeeps, CreatePayoutLegKeeps,
     CreateRefundLegKeeps DEF LegStep
<1>3. CASE RouteStep
  BY <1>3, RecordKeeps, ConfirmKeeps, FailKeeps DEF RouteStep
<1>4. CASE SendStep
  BY <1>4, PlanSendKeeps, LandKeeps, CancelSendKeeps, SettleSendKeeps DEF SendStep
<1>5. CASE AdjustStep
  BY <1>5, AdjustKeeps DEF AdjustStep
<1> QED
  BY <1>1, <1>2, <1>3, <1>4, <1>5 DEF FundingNext

-----------------------------------------------------------------------------
\* The invariant of a funded trade: its earmarks, its sources, its two sides and its sends.
THEOREM FundingInvariant == FundingSpec => []FundInv
<1>1. FundingInit => FundInv
  BY FundInvStarts
<1>2. FundInv /\ [FundingNext]_fundingVars => FundInv'
  BY FundInvStep
<1> QED
  BY <1>1, <1>2, PTL DEF FundingSpec

\* FI-72 to FI-75: no source is earmarked beyond what arrived, and a use holds its whole
\* amount, of the right side's money, exactly while it may still take it (funding.ts).
THEOREM EarmarksExactHolds == FundingSpec => []EarmarksExact
<1>1. FundInv => EarmarksExact
  <2> SUFFICES ASSUME FundInv PROVE EarmarksExact
    OBVIOUS
  <2>1. FundingTypeOK /\ Marked /\ Within
    BY DEF FundInv
  <2>2. \A s \in Sources : Taken(s) <= IF s \in ClientFunds \cup CounterpartyFunds THEN Amount(s) ELSE 0
    BY <2>1 DEF Within, Avail, Funds
  <2>3. ASSUME NEW u \in Uses
        PROVE  /\ Live(u) <=> mark[u].state = "ACTIVE"
               /\ mark[u].state = "ACTIVE" =>
                    Sum(mark[u].of, Sources) = IF u \in Sends THEN send[u].amount ELSE Amount(u)
               /\ \A s \in Sources : mark[u].of[s] > 0 =>
                    s \in (IF u \in Legs /\ leg[u].kind = "PAYOUT" THEN CounterpartyFunds ELSE ClientFunds)
    <3>1. MarkSound(u)
      BY <2>1 DEF Marked
    <3>2. Priced[u] = IF u \in Sends THEN send[u].amount ELSE Amount(u)
      BY DEF Priced
    <3> QED
      BY <3>1, <3>2 DEF MarkSound, FundsOf
  <2> QED
    BY <2>1, <2>2, <2>3 DEF EarmarksExact
<1> QED
  BY <1>1, FundingInvariant, PTL

\* FI-61: the confirmed settlements and no others are allocated, no side is beyond what it is
\* now, and an obligation is settled exactly when both its sides are delivered
\* (obligations.ts, adjustments.ts).
THEOREM AllocationExactHolds == FundingSpec => []AllocationExact
<1>1. FundInv => AllocationExact
  BY DEF FundInv
<1> QED
  BY <1>1, FundingInvariant, PTL

\* D-16: the client is paid out of what the counterparty brought, the counterparty and the
\* refunds out of what the client did, and a cancelled deal has sent the counterparty nothing.
THEOREM PaysOnlyReceivedHolds == FundingSpec => []PaysOnlyReceived
<1>1. FundInv => PaysOnlyReceived
  <2> SUFFICES ASSUME FundInv PROVE PaysOnlyReceived
    OBVIOUS
  <2>1. FundingTypeOK /\ Marked /\ Within /\ HandedOver /\ Undone /\ AllocationExact
    BY DEF FundInv
  <2>2. Priced \in [Uses -> Nat]
    BY <2>1, RowsTyped, PriceOf
  <2> DEFINE Paid == LegsOf({"PAYOUT"}, {"DONE"})
             Back == LegsOf({"UNWIND", "EXCESS"}, {"DONE"})
             Out == GoneOut \ BySend
             Landed == {x \in Sends : send[x].state = "LANDED"}
  <2>3. Total(sett, GoneOut) = Sum(Priced, GoneOut) /\ Total(send, Landed) = Sum(Priced, Landed)
    <3>1. (\A s \in GoneOut : Priced[s] = sett[s].amount) /\ (\A x \in Landed : Priced[x] = send[x].amount)
      BY <2>1, RowsTyped, PriceOf DEF GoneOut
    <3> QED
      BY <3>1, TotalIs
  <2>4. Total(sett, CounterpartyFunds) = Sum(Priced, CounterpartyFunds)
    <3>1. \A s \in CounterpartyFunds : Priced[s] = sett[s].amount
      BY <2>1, RowsTyped, PriceOf DEF CounterpartyFunds
    <3> QED
      BY <3>1, TotalIs
  <2>5. /\ Come({"PAYOUT"}, {"DONE"}) = Sum(Priced, Paid) /\ Come({"UNWIND", "EXCESS"}, {"DONE"}) = Sum(Priced, Back)
        /\ Come({"CLIENT"}, {"DONE"}) = Sum(Priced, ClientFunds)
    BY <2>1, TotalsAre DEF ClientFunds
  <2>6. /\ Paid \in SUBSET Uses /\ Back \in SUBSET Uses /\ Out \in SUBSET Uses /\ BySend \in SUBSET Uses
        /\ Landed \in SUBSET Uses /\ Signed \in SUBSET Uses
    BY DEF LegsOf, GoneOut, BySend, Signed, Uses
  <2>7. ASSUME NEW u \in Paid PROVE u \in Takers /\ FundsOf(u) = CounterpartyFunds
    <3>1. u \in Legs /\ leg[u].state = "DONE" /\ leg[u].kind = "PAYOUT" /\ MarkSound(u) /\ u \in Uses
      BY <2>1, <2>6 DEF LegsOf, Marked
    <3> QED
      BY <3>1 DEF MarkSound, Spent, Takers, FundsOf
  <2>8. ASSUME NEW u \in Back PROVE u \in Takers /\ FundsOf(u) = ClientFunds
    <3>1. u \in Legs /\ leg[u].state = "DONE" /\ leg[u].kind \in {"UNWIND", "EXCESS"} /\ MarkSound(u) /\ u \in Uses
      BY <2>1, <2>6 DEF LegsOf, Marked
    <3> QED
      BY <3>1 DEF MarkSound, Spent, Takers, FundsOf
  <2>9. ASSUME NEW u \in Out PROVE u \in Takers /\ FundsOf(u) = ClientFunds
    <3>1. /\ u \in Settlements /\ sett[u].state = "CONFIRMED" /\ sett[u].flow = "TO_ROUTE"
          /\ mark[u].state # "NONE" /\ MarkSound(u) /\ u \in Uses
      BY <2>1, <2>6 DEF GoneOut, BySend, Marked
    <3>2. u \notin Legs
      BY <3>1, FundingAssumption
    <3> QED
      BY <3>1, <3>2 DEF MarkSound, Takers, FundsOf
  <2>10. ASSUME NEW u \in Landed \cup Signed PROVE u \in Takers /\ FundsOf(u) = ClientFunds
    <3>1. u \in Sends /\ send[u].state \in {"LANDED", "CONFIRMED"} /\ MarkSound(u) /\ u \in Uses
      BY <2>1, <2>6 DEF Signed, Marked
    <3>2. u \notin Legs
      BY <3>1, FundingAssumption
    <3> QED
      BY <3>1, <3>2 DEF MarkSound, Live, Spent, Takers, FundsOf
  <2>11. /\ Landed \cap Signed = {} /\ Out \cap (Landed \cup Signed) = {} /\ BySend \cap Out = {}
         /\ Back \cap (Out \cup (Landed \cup Signed)) = {} /\ GoneOut = BySend \cup Out
    BY FundingAssumption DEF LegsOf, GoneOut, BySend, Signed
  <2>12. \A u \in Paid, s \in Sources : mark[u].of[s] > 0 => s \in CounterpartyFunds
    BY <2>1, <2>6, <2>7 DEF Marked, MarkSound
  <2>13. \A u \in Back \cup (Out \cup (Landed \cup Signed)), s \in Sources : mark[u].of[s] > 0 => s \in ClientFunds
    BY <2>1, <2>6, <2>8, <2>9, <2>10 DEF Marked, MarkSound
  <2> HIDE DEF Paid, Back, Out, Landed
  <2>14. CounterpartyFunds \in SUBSET Funds /\ ClientFunds \in SUBSET Funds
    BY DEF Funds
  <2>15. Sum(Priced, Paid) <= Sum(Priced, CounterpartyFunds)
    BY <2>1, <2>7, <2>12, <2>14, PaidFromFunds
  <2>16. Sum(Priced, Back \cup (Out \cup (Landed \cup Signed))) <= Sum(Priced, ClientFunds)
    <3>1. Back \cup (Out \cup (Landed \cup Signed)) \in SUBSET Takers
      BY <2>8, <2>9, <2>10
    <3> QED
      BY <2>1, <2>13, <2>14, <3>1, PaidFromFunds
  <2>17. Sum(Priced, Landed \cup Signed) = Sum(Priced, Landed) + Sum(Priced, Signed)
    BY <2>2, <2>6, <2>11, UsesAreFinite, SumApart
  <2>18. Sum(Priced, Out \cup (Landed \cup Signed)) = Sum(Priced, Out) + Sum(Priced, Landed \cup Signed)
    <3>1. Landed \cup Signed \in SUBSET Uses
      BY <2>6
    <3> QED
      BY <2>2, <2>6, <2>11, <3>1, UsesAreFinite, SumApart
  <2>19. Sum(Priced, Back \cup (Out \cup (Landed \cup Signed)))
           = Sum(Priced, Back) + Sum(Priced, Out \cup (Landed \cup Signed))
    <3>1. Out \cup (Landed \cup Signed) \in SUBSET Uses
      BY <2>6
    <3> QED
      BY <2>2, <2>6, <2>11, <3>1, UsesAreFinite, SumApart
  <2>20. Sum(Priced, GoneOut) = Sum(Priced, BySend) + Sum(Priced, Out)
    BY <2>2, <2>6, <2>11, UsesAreFinite, SumApart
  <2>21. Sum(Priced, BySend) = Sum(Priced, Signed)
    BY <2>1 DEF HandedOver
  <2>22. /\ Sum(Priced, Back) \in Nat /\ Sum(Priced, Out) \in Nat /\ Sum(Priced, Landed) \in Nat
         /\ Sum(Priced, Signed) \in Nat
    BY <2>2, <2>6, UsesAreFinite, SumNat
  <2>23. Total(sett, GoneOut) + Total(send, Landed) + Come({"UNWIND", "EXCESS"}, {"DONE"}) <= Come({"CLIENT"}, {"DONE"})
    <3>1. /\ Total(sett, GoneOut) + Total(send, Landed) + Come({"UNWIND", "EXCESS"}, {"DONE"})
               = Sum(Priced, Back \cup (Out \cup (Landed \cup Signed)))
      BY <2>3, <2>5, <2>17, <2>18, <2>19, <2>20, <2>21, <2>22
    <3> QED
      BY <2>5, <2>16, <3>1
  <2>24. obligation = "CANCELLED" => Total(sett, GoneOut) + Total(send, Landed) = 0
    <3>1. SUFFICES ASSUME obligation = "CANCELLED" PROVE Total(sett, GoneOut) + Total(send, Landed) = 0
      OBVIOUS
    <3>2. GoneOut = {}
      BY <2>1, <3>1 DEF AllocationExact, GoneOut
    <3>3. Landed = {}
      BY <2>1, <3>1 DEF Undone, Landed
    <3> QED
      BY <2>3, <3>2, <3>3, SumEmpty
  <2> QED
    BY <2>4, <2>5, <2>15, <2>23, <2>24 DEF PaysOnlyReceived, GoneOut, Landed
<1> QED
  BY <1>1, FundingInvariant, PTL

================================================================================
