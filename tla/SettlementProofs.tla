--------------------------- MODULE SettlementProofs ---------------------------
(***************************************************************************)
(* The invariants of Settlement hold in every reachable state, whatever    *)
(* the legs, amounts and terms.  A total counts the units of the legs, so  *)
(* first comes what the sum of the legs of some sides and statuses becomes *)
(* when one leg is added or moved, and when it is zero, from the library's *)
(* facts about the cardinality of finite sets.  The invariants follow,     *)
(* each inductive relative to the ones before it: the types, the           *)
(* separation of payouts and unwinds, then the sums.  Last comes how a     *)
(* trade ends: a cancelled trade has given everything back, a trade that   *)
(* is settled is completed, a completed one was settled and stays paid;    *)
(* with that, every command is a step of ClientAccount or leaves the       *)
(* client's account alone.                                                 *)
(***************************************************************************)
EXTENDS Settlement, FiniteSetTheorems, TLAPS

-----------------------------------------------------------------------------
(* Totals. *)

Rows == [LegIds -> Leg]

\* What one leg adds to a total.
Share(row, sides, statuses) ==
  IF row.side \in sides /\ row.status \in statuses THEN row.amount ELSE 0

\* The units of a total that belong to the leg l, and those that do not.
UnitsOf(L, l, sides, statuses) == {u \in Units(L, sides, statuses) : u[1] = l}
UnitsBut(L, l, sides, statuses) == {u \in Units(L, sides, statuses) : u[1] # l}

\* Every amount a leg may have is a natural number.
LEMMA AmountsArePositive ==
  ASSUME NEW a \in Amounts
  PROVE  a \in Nat /\ a > 0
<1>1. Amounts \subseteq Nat \ {0}  BY AmountsAssumption
<1>2. a \in Nat /\ a # 0  BY <1>1
<1> QED BY <1>2

\* A row of a typed table has a natural amount and a known side and status.
LEMMA RowFacts ==
  ASSUME NEW L \in Rows, NEW l \in LegIds
  PROVE  /\ L[l] \in Leg
         /\ L[l].amount \in Nat /\ L[l].side \in Sides
         /\ L[l].status \in Statuses \cup {"ABSENT"}
         /\ L[l].status \in Statuses => L[l].amount \in Amounts /\ L[l].amount > 0
         /\ L[l] = Absent <=> L[l].status = "ABSENT"
<1>1. L[l] \in Leg  BY DEF Rows
<1>2. CASE L[l] = Absent
  <2>1. L[l].side = "CLIENT" /\ L[l].amount = 0 /\ L[l].status = "ABSENT"
    BY <1>2 DEF Absent
  <2>2. "ABSENT" \notin Statuses  BY DEF Statuses, Live
  <2> QED BY <1>1, <1>2, <2>1, <2>2 DEF Sides
<1>3. CASE L[l] \in [side : Sides, amount : Amounts, status : Statuses]
  <2>1. L[l].side \in Sides /\ L[l].amount \in Amounts /\ L[l].status \in Statuses
    BY <1>3
  <2>2. L[l].amount \in Nat /\ L[l].amount > 0
    BY <2>1, AmountsArePositive
  <2>3. "ABSENT" \notin Statuses  BY DEF Statuses, Live
  <2>4. L[l].status # "ABSENT"  BY <2>1, <2>3
  <2>5. L[l] # Absent  BY <2>4 DEF Absent
  <2> QED BY <1>1, <2>1, <2>2, <2>4, <2>5
<1> QED BY <1>1, <1>2, <1>3 DEF Leg

\* A row stays a row when it is written with a new status, and a new row is one.
LEMMA RowsWritten ==
  ASSUME NEW L \in Rows, NEW l \in LegIds
  PROVE  /\ \A s \in Statuses :
              L[l].status # "ABSENT" => [L EXCEPT ![l].status = s] \in Rows
         /\ \A side \in Sides, a \in Amounts, s \in Statuses :
              [L EXCEPT ![l] = [side |-> side, amount |-> a, status |-> s]] \in Rows
<1>1. ASSUME NEW s \in Statuses, L[l].status # "ABSENT"
      PROVE  [L EXCEPT ![l].status = s] \in Rows
  <2>1. L[l] \in [side : Sides, amount : Amounts, status : Statuses]
    BY <1>1, RowFacts DEF Leg, Absent
  <2>2. [L[l] EXCEPT !.status = s] \in Leg
    BY <1>1, <2>1 DEF Leg
  <2> QED BY <2>2 DEF Rows
<1>2. ASSUME NEW side \in Sides, NEW a \in Amounts, NEW s \in Statuses
      PROVE  [L EXCEPT ![l] = [side |-> side, amount |-> a, status |-> s]] \in Rows
  BY DEF Rows, Leg
<1> QED BY <1>1, <1>2

\* The units of a total, written as one set comprehension.
LEMMA UnitsMember ==
  ASSUME NEW L \in Rows, NEW A, NEW B
  PROVE  Units(L, A, B) = {u \in LegIds \X Nat :
            /\ L[u[1]].side \in A /\ L[u[1]].status \in B
            /\ u[2] \in 1 .. L[u[1]].amount}
<1>1. \A l \in LegIds : L[l].amount \in Nat  BY RowFacts
<1> QED BY <1>1 DEF Units, LegsOf

\* A total counts a finite set.
LEMMA UnitsFinite ==
  ASSUME NEW L \in Rows, NEW A, NEW B
  PROVE  IsFiniteSet(Units(L, A, B)) /\ Total(L, A, B) \in Nat
<1> DEFINE S == LegsOf(L, A, B)
           T == {{l} \X (1 .. L[l].amount) : l \in S}
           f == [l \in S |-> {l} \X (1 .. L[l].amount)]
<1>1. IsFiniteSet(S)
  BY LegIdsAssumption, FS_Subset DEF LegsOf
<1>2. f \in Surjection(S, T)
  BY DEF Surjection
<1>3. IsFiniteSet(T)
  <2> HIDE DEF S, T, f
  <2> QED BY <1>1, <1>2, FS_Surjection
<1>4. ASSUME NEW t \in T PROVE IsFiniteSet(t)
  <2>1. PICK l \in S : t = {l} \X (1 .. L[l].amount)  OBVIOUS
  <2>2. l \in LegIds /\ L[l].amount \in Int  BY RowFacts DEF LegsOf
  <2>3. IsFiniteSet(1 .. L[l].amount)  BY <2>2, FS_Interval
  <2>4. IsFiniteSet({l})  BY FS_Singleton
  <2> QED BY <2>1, <2>3, <2>4, FS_Product
<1>5. Units(L, A, B) = UNION T  BY DEF Units
<1>6. IsFiniteSet(UNION T)
  <2> HIDE DEF S, T
  <2> QED BY <1>3, <1>4, FS_UNION
<1> QED BY <1>5, <1>6, FS_CardinalityType DEF Total

\* The interval 1 .. n has n members.
LEMMA UpTo ==
  ASSUME NEW n \in Nat
  PROVE  IsFiniteSet(1 .. n) /\ Cardinality(1 .. n) = n
<1>1. CASE n = 0
  <2>1. 1 .. n = {}  BY <1>1
  <2> QED BY <1>1, <2>1, FS_EmptySet
<1>2. CASE n # 0
  <2> DEFINE c == Cardinality(1 .. n)
  <2>1. 1 \in Int /\ n \in Int  OBVIOUS
  <2>2. IsFiniteSet(1 .. n) /\ c = IF 1 > n THEN 0 ELSE n - 1 + 1
    BY <2>1, FS_Interval, Zenon
  <2> HIDE DEF c
  <2>3. c = n  BY <1>2, <2>2
  <2> QED BY <2>2, <2>3 DEF c
<1> QED BY <1>1, <1>2

\* One leg contributes its amount to a total, or nothing.
LEMMA UnitsOfShare ==
  ASSUME NEW L \in Rows, NEW l \in LegIds, NEW A, NEW B
  PROVE  /\ IsFiniteSet(UnitsOf(L, l, A, B))
         /\ Cardinality(UnitsOf(L, l, A, B)) = Share(L[l], A, B)
<1>1. L[l].amount \in Nat  BY RowFacts
<1>2. CASE L[l].side \in A /\ L[l].status \in B
  <2>1. UnitsOf(L, l, A, B) = {l} \X (1 .. L[l].amount)
    BY <1>1, <1>2, UnitsMember DEF UnitsOf
  <2>2. IsFiniteSet({l}) /\ Cardinality({l}) = 1  BY FS_Singleton
  <2>3. IsFiniteSet(1 .. L[l].amount) /\ Cardinality(1 .. L[l].amount) = L[l].amount
    BY <1>1, UpTo
  <2>4. /\ IsFiniteSet({l} \X (1 .. L[l].amount))
        /\ Cardinality({l} \X (1 .. L[l].amount)) = 1 * L[l].amount
    BY <2>2, <2>3, FS_Product, ZenonT(60)
  <2> QED BY <1>1, <1>2, <2>1, <2>4 DEF Share
<1>3. CASE ~(L[l].side \in A /\ L[l].status \in B)
  <2>1. UnitsOf(L, l, A, B) = {}
    BY <1>3, UnitsMember DEF UnitsOf
  <2> QED BY <1>3, <2>1, FS_EmptySet DEF Share
<1> QED BY <1>2, <1>3

\* A total is the share of one leg and the rest.
LEMMA TotalSplit ==
  ASSUME NEW L \in Rows, NEW l \in LegIds, NEW A, NEW B
  PROVE  /\ Cardinality(UnitsBut(L, l, A, B)) \in Nat
         /\ Total(L, A, B) = Cardinality(UnitsBut(L, l, A, B)) + Share(L[l], A, B)
<1> DEFINE U == UnitsOf(L, l, A, B)
           V == UnitsBut(L, l, A, B)
<1>1. IsFiniteSet(Units(L, A, B))  BY UnitsFinite
<1>2. IsFiniteSet(U) /\ Cardinality(U) = Share(L[l], A, B)  BY UnitsOfShare
<1>3. IsFiniteSet(V)
  BY <1>1, FS_Subset DEF UnitsBut
<1>4. Units(L, A, B) = V \cup U /\ V \cap U = {}
  BY DEF UnitsOf, UnitsBut
<1>5. Cardinality(V) \in Nat /\ Cardinality(U) \in Nat
  BY <1>2, <1>3, FS_CardinalityType
<1> HIDE DEF U, V
<1>6. Cardinality(V \cup U) = Cardinality(V) + Cardinality(U) - Cardinality(V \cap U)
  BY <1>2, <1>3, FS_Union
<1>7. Cardinality(V \cap U) = 0  BY <1>4, FS_EmptySet
<1> QED BY <1>2, <1>4, <1>5, <1>6, <1>7 DEF Total, U, V

\* Writing one leg changes a total by the difference of its shares.
LEMMA OneLegWritten ==
  ASSUME NEW L \in Rows, NEW M \in Rows, NEW l \in LegIds,
         \A k \in LegIds \ {l} : M[k] = L[k],
         NEW A, NEW B
  PROVE  Total(M, A, B) = Total(L, A, B) - Share(L[l], A, B) + Share(M[l], A, B)
<1>1. UnitsBut(M, l, A, B) = UnitsBut(L, l, A, B)
  <2>1. \A u : u \in UnitsBut(M, l, A, B) <=> u \in UnitsBut(L, l, A, B)
    <3> TAKE u
    <3>1. CASE u \in LegIds \X Nat /\ u[1] # l
      <4>1. M[u[1]] = L[u[1]]  BY <3>1
      <4> QED BY <3>1, <4>1, UnitsMember DEF UnitsBut
    <3>2. CASE ~(u \in LegIds \X Nat /\ u[1] # l)
      BY <3>2, UnitsMember DEF UnitsBut
    <3> QED BY <3>1, <3>2
  <2> QED BY <2>1
<1>2. Share(L[l], A, B) \in Nat /\ Share(M[l], A, B) \in Nat
  BY RowFacts DEF Share
<1> QED BY <1>1, <1>2, TotalSplit

-----------------------------------------------------------------------------
(* Two totals compared. *)

\* More sides and more statuses never make a total smaller.
LEMMA TotalMonotone ==
  ASSUME NEW L \in Rows, NEW M \in Rows, NEW A, NEW B, NEW C, NEW D,
         \A l \in LegIds : M[l].side \in A /\ M[l].status \in B =>
            L[l].side \in C /\ L[l].status \in D /\ M[l].amount = L[l].amount
  PROVE  Total(M, A, B) <= Total(L, C, D)
<1>1. Units(M, A, B) \subseteq Units(L, C, D)
  BY UnitsMember
<1>2. IsFiniteSet(Units(L, C, D))  BY UnitsFinite
<1> QED BY <1>1, <1>2, FS_Subset DEF Total

\* A total over legs none of which counts is zero.
LEMMA TotalZero ==
  ASSUME NEW L \in Rows, NEW A, NEW B, "ABSENT" \notin B
  PROVE  Total(L, A, B) = 0 <=> LegsOf(L, A, B) = {}
<1>1. Total(L, A, B) = 0 <=> Units(L, A, B) = {}
  BY UnitsFinite, FS_EmptySet DEF Total
<1>2. LegsOf(L, A, B) = {} => Units(L, A, B) = {}
  BY UnitsMember DEF LegsOf
<1>3. ASSUME NEW l \in LegsOf(L, A, B) PROVE Units(L, A, B) # {}
  <2>1. l \in LegIds /\ L[l].side \in A /\ L[l].status \in B /\ L[l].status # "ABSENT"
    BY <1>3 DEF LegsOf
  <2>2. L[l].status \in Statuses  BY <2>1, RowFacts
  <2>3. L[l].amount \in Nat /\ L[l].amount > 0  BY <2>1, <2>2, RowFacts
  <2>4. <<l, 1>> \in Units(L, A, B)  BY <2>1, <2>3, UnitsMember
  <2> QED BY <2>4
<1> QED BY <1>1, <1>2, <1>3

\* A total over disjoint sets of sides is the sum of the two.
LEMMA TotalOfSides ==
  ASSUME NEW L \in Rows, NEW A, NEW C, NEW B, A \cap C = {}
  PROVE  Total(L, A \cup C, B) = Total(L, A, B) + Total(L, C, B)
<1>1. Units(L, A \cup C, B) = Units(L, A, B) \cup Units(L, C, B)
  BY UnitsMember
<1>2. Units(L, A, B) \cap Units(L, C, B) = {}
  BY UnitsMember
<1>3. IsFiniteSet(Units(L, A, B)) /\ IsFiniteSet(Units(L, C, B))
  BY UnitsFinite
<1>4. Total(L, A, B) \in Nat /\ Total(L, C, B) \in Nat  BY UnitsFinite
<1>5. Cardinality(Units(L, A, B) \cup Units(L, C, B))
        = Cardinality(Units(L, A, B)) + Cardinality(Units(L, C, B)) - Cardinality({})
  BY <1>2, <1>3, FS_Union
<1>6. Total(L, A \cup C, B) = Total(L, A, B) + Total(L, C, B) - Cardinality({})
  BY <1>1, <1>5 DEF Total
<1>7. Cardinality({}) = 0  BY FS_EmptySet
<1> QED BY <1>4, <1>6, <1>7

\* A total over disjoint sets of statuses is the sum of the two.
LEMMA TotalOfStatuses ==
  ASSUME NEW L \in Rows, NEW A, NEW B, NEW D, B \cap D = {}
  PROVE  Total(L, A, B \cup D) = Total(L, A, B) + Total(L, A, D)
<1>1. Units(L, A, B \cup D) = Units(L, A, B) \cup Units(L, A, D)
  BY UnitsMember
<1>2. Units(L, A, B) \cap Units(L, A, D) = {}
  BY UnitsMember
<1>3. IsFiniteSet(Units(L, A, B)) /\ IsFiniteSet(Units(L, A, D))
  BY UnitsFinite
<1>4. Total(L, A, B) \in Nat /\ Total(L, A, D) \in Nat  BY UnitsFinite
<1>5. Cardinality(Units(L, A, B) \cup Units(L, A, D))
        = Cardinality(Units(L, A, B)) + Cardinality(Units(L, A, D)) - Cardinality({})
  BY <1>2, <1>3, FS_Union
<1>6. Total(L, A, B \cup D) = Total(L, A, B) + Total(L, A, D) - Cardinality({})
  BY <1>1, <1>5 DEF Total
<1>7. Cardinality({}) = 0  BY FS_EmptySet
<1> QED BY <1>4, <1>6, <1>7

-----------------------------------------------------------------------------
(* The totals the settlement commands look at. *)

\* How the totals of one set of legs relate to one another.
LEMMA TotalsRelated ==
  ASSUME NEW L \in Rows
  PROVE  /\ Received(L) \in Nat /\ Paid(L) \in Nat /\ Committed(L) \in Nat
         /\ ExcessPlanned(L) \in Nat /\ ExcessReturned(L) \in Nat
         /\ Unwound(L) \in Nat /\ RefundsPlanned(L) \in Nat /\ RefundsDone(L) \in Nat
         /\ Paid(L) <= Committed(L)
         /\ ExcessReturned(L) <= ExcessPlanned(L)
         /\ RefundsDone(L) <= RefundsPlanned(L)
         /\ RefundsDone(L) = Unwound(L) + ExcessReturned(L)
         /\ Unwound(L) + ExcessPlanned(L) <= RefundsPlanned(L)
         /\ ~UnwindUnderway(L) => RefundsPlanned(L) = ExcessPlanned(L) /\ Unwound(L) = 0
         /\ ~PayoutUnderway(L) => Paid(L) = 0
<1> USE DEF Received, Paid, Committed, ExcessPlanned, ExcessReturned, Unwound,
            RefundsPlanned, RefundsDone
<1>1. \A A, B : Total(L, A, B) \in Nat  BY UnitsFinite
<1>2. "COMPLETED" \in Live  BY DEF Live
<1>3. \A A : Total(L, A, {"COMPLETED"}) <= Total(L, A, Live)
  BY <1>2, TotalMonotone
<1>4. \A B : Total(L, Refunds, B) = Total(L, {"UNWIND"}, B) + Total(L, {"EXCESS"}, B)
  <2> TAKE B
  <2>1. Refunds = {"UNWIND"} \cup {"EXCESS"} /\ {"UNWIND"} \cap {"EXCESS"} = {}
    BY DEF Refunds
  <2> QED BY <2>1, TotalOfSides
<1>5. ~UnwindUnderway(L) => Total(L, {"UNWIND"}, Live) = 0
  BY TotalZero DEF UnwindUnderway, Live
<1>6. ~PayoutUnderway(L) => Paid(L) = 0
  <2>1. ~PayoutUnderway(L) => LegsOf(L, {"PAYOUT"}, {"COMPLETED"}) = {}
    BY DEF PayoutUnderway, LegsOf, Sent
  <2> QED BY <2>1, TotalZero
<1>7. /\ Paid(L) <= Committed(L) /\ ExcessReturned(L) <= ExcessPlanned(L)
      /\ RefundsDone(L) <= RefundsPlanned(L)
      /\ Unwound(L) <= Total(L, {"UNWIND"}, Live)
  BY <1>3
<1>8. /\ RefundsDone(L) = Unwound(L) + ExcessReturned(L)
      /\ RefundsPlanned(L) = Total(L, {"UNWIND"}, Live) + ExcessPlanned(L)
  BY <1>4
<1>9. /\ Received(L) \in Nat /\ Paid(L) \in Nat /\ Committed(L) \in Nat
      /\ ExcessPlanned(L) \in Nat /\ ExcessReturned(L) \in Nat
      /\ Unwound(L) \in Nat /\ RefundsPlanned(L) \in Nat /\ RefundsDone(L) \in Nat
      /\ Total(L, {"UNWIND"}, Live) \in Nat
  BY <1>1
<1> HIDE DEF Received, Paid, Committed, ExcessPlanned, ExcessReturned, Unwound,
             RefundsPlanned, RefundsDone
<1> QED BY <1>5, <1>6, <1>7, <1>8, <1>9

\* A planned or detected leg is added: only the promises grow.
LEMMA LegInserted ==
  ASSUME NEW L \in Rows, NEW M, NEW l \in LegIds, L[l] = Absent,
         NEW side \in Sides, NEW a \in Amounts, NEW s \in {"PENDING", "PROCESSING"},
         M = [L EXCEPT ![l] = [side |-> side, amount |-> a, status |-> s]]
  PROVE  /\ M \in Rows
         /\ Received(M) = Received(L) /\ Paid(M) = Paid(L)
         /\ Unwound(M) = Unwound(L) /\ ExcessReturned(M) = ExcessReturned(L)
         /\ RefundsDone(M) = RefundsDone(L)
         /\ Committed(M) = Committed(L) + (IF side = "PAYOUT" THEN a ELSE 0)
         /\ ExcessPlanned(M) = ExcessPlanned(L) + (IF side = "EXCESS" THEN a ELSE 0)
         /\ RefundsPlanned(M) = RefundsPlanned(L) + (IF side \in Refunds THEN a ELSE 0)
<1>1. M \in Rows  BY RowsWritten DEF Statuses, Live
<1>2. \A k \in LegIds \ {l} : M[k] = L[k]  BY DEF Rows
<1>3. M[l] = [side |-> side, amount |-> a, status |-> s]  BY DEF Rows
<1>4. \A A, B : Total(M, A, B) = Total(L, A, B) - Share(L[l], A, B) + Share(M[l], A, B)
  BY <1>1, <1>2, OneLegWritten
<1>5. \A A, B : Total(L, A, B) \in Nat  BY UnitsFinite
<1>6. \A A, B : "ABSENT" \notin B => Share(L[l], A, B) = 0
  BY DEF Share, Absent
<1>7. a \in Nat  BY AmountsArePositive
<1>8. \A A, B : "ABSENT" \notin B =>
        Total(M, A, B) = Total(L, A, B) + (IF side \in A /\ s \in B THEN a ELSE 0)
  <2> TAKE A, B
  <2> HAVE "ABSENT" \notin B
  <2>1. Share(M[l], A, B) = IF side \in A /\ s \in B THEN a ELSE 0
    BY <1>3 DEF Share
  <2>2. Share(L[l], A, B) = 0  BY <1>6
  <2>3. Total(L, A, B) \in Nat  BY <1>5
  <2>4. Total(M, A, B) = Total(L, A, B) - Share(L[l], A, B) + Share(M[l], A, B)
    BY <1>4
  <2> QED BY <1>7, <2>1, <2>2, <2>3, <2>4
<1>9. "ABSENT" \notin Live /\ s \in Live /\ s # "COMPLETED"  BY DEF Live
<1>10. \A A : Total(M, A, {"COMPLETED"}) = Total(L, A, {"COMPLETED"})
  <2> TAKE A
  <2>1. Total(M, A, {"COMPLETED"}) = Total(L, A, {"COMPLETED"}) + 0
    BY <1>8, <1>9
  <2>2. Total(L, A, {"COMPLETED"}) \in Nat  BY <1>5
  <2> QED BY <2>1, <2>2
<1>11. \A A : Total(M, A, Live) = Total(L, A, Live) + (IF side \in A THEN a ELSE 0)
  BY <1>8, <1>9
<1> QED BY <1>1, <1>10, <1>11
        DEF Received, Paid, Committed, ExcessPlanned, ExcessReturned, Unwound,
            RefundsPlanned, RefundsDone

\* A leg that is planned or on its way moves on: a total of confirmed legs grows
\* when it is confirmed, a promise shrinks when it fails or is cancelled.
LEMMA LegMoved ==
  ASSUME NEW L \in Rows, NEW M, NEW l \in LegIds,
         L[l].status \in {"PENDING", "PROCESSING"}, NEW s \in Statuses,
         M = [L EXCEPT ![l].status = s]
  PROVE  /\ M \in Rows
         /\ Received(M) = Received(L)
              + (IF L[l].side = "CLIENT" /\ s = "COMPLETED" THEN L[l].amount ELSE 0)
         /\ Paid(M) = Paid(L)
              + (IF L[l].side = "PAYOUT" /\ s = "COMPLETED" THEN L[l].amount ELSE 0)
         /\ Unwound(M) = Unwound(L)
              + (IF L[l].side = "UNWIND" /\ s = "COMPLETED" THEN L[l].amount ELSE 0)
         /\ ExcessReturned(M) = ExcessReturned(L)
              + (IF L[l].side = "EXCESS" /\ s = "COMPLETED" THEN L[l].amount ELSE 0)
         /\ RefundsDone(M) = RefundsDone(L)
              + (IF L[l].side \in Refunds /\ s = "COMPLETED" THEN L[l].amount ELSE 0)
         /\ Committed(M) = Committed(L)
              - (IF L[l].side = "PAYOUT" /\ s \notin Live THEN L[l].amount ELSE 0)
         /\ ExcessPlanned(M) = ExcessPlanned(L)
              - (IF L[l].side = "EXCESS" /\ s \notin Live THEN L[l].amount ELSE 0)
         /\ RefundsPlanned(M) = RefundsPlanned(L)
              - (IF L[l].side \in Refunds /\ s \notin Live THEN L[l].amount ELSE 0)
<1> DEFINE a == L[l].amount
<1>1. M \in Rows  BY RowsWritten
<1>2. \A k \in LegIds \ {l} : M[k] = L[k]  BY DEF Rows
<1>3. M[l].side = L[l].side /\ M[l].amount = L[l].amount /\ M[l].status = s
  <2>1. L[l] \in [side : Sides, amount : Amounts, status : Statuses]
    BY RowFacts DEF Leg, Absent
  <2>2. M[l] = [L[l] EXCEPT !.status = s]  BY DEF Rows
  <2> QED BY <2>1, <2>2
<1>4. \A A, B : Total(M, A, B) = Total(L, A, B) - Share(L[l], A, B) + Share(M[l], A, B)
  BY <1>1, <1>2, OneLegWritten
<1>5. \A A, B : Total(L, A, B) \in Nat  BY UnitsFinite
<1>6. a \in Nat  BY RowFacts
<1>7. \A A : Total(M, A, {"COMPLETED"}) = Total(L, A, {"COMPLETED"})
                 + (IF L[l].side \in A /\ s = "COMPLETED" THEN a ELSE 0)
  <2> TAKE A
  <2>1. Share(L[l], A, {"COMPLETED"}) = 0  BY DEF Share
  <2>2. Share(M[l], A, {"COMPLETED"}) = IF L[l].side \in A /\ s = "COMPLETED" THEN a ELSE 0
    BY <1>3 DEF Share
  <2>3. Total(L, A, {"COMPLETED"}) \in Nat  BY <1>5
  <2>4. Total(M, A, {"COMPLETED"}) = Total(L, A, {"COMPLETED"})
          - Share(L[l], A, {"COMPLETED"}) + Share(M[l], A, {"COMPLETED"})
    BY <1>4
  <2> QED BY <1>6, <2>1, <2>2, <2>3, <2>4
<1>8. \A A : Total(M, A, Live) = Total(L, A, Live)
                 - (IF L[l].side \in A /\ s \notin Live THEN a ELSE 0)
  <2> TAKE A
  <2>1. Share(L[l], A, Live) = IF L[l].side \in A THEN a ELSE 0  BY DEF Share, Live
  <2>2. Share(M[l], A, Live) = IF L[l].side \in A /\ s \in Live THEN a ELSE 0
    BY <1>3 DEF Share
  <2>3. Total(L, A, Live) \in Nat  BY <1>5
  <2>4. Total(M, A, Live) = Total(L, A, Live)
          - Share(L[l], A, Live) + Share(M[l], A, Live)
    BY <1>4
  <2> QED BY <1>6, <2>1, <2>2, <2>3, <2>4
<1> QED BY <1>1, <1>7, <1>8
        DEF Received, Paid, Committed, ExcessPlanned, ExcessReturned, Unwound,
            RefundsPlanned, RefundsDone

\* Releasing the commitments of a trade touches no confirmed leg and revives none.
LEMMA LegsReleased ==
  ASSUME NEW L \in Rows, NEW M,
         M = [l \in LegIds |->
                IF L[l].side = "CLIENT" /\ L[l].status = "PROCESSING"
                THEN [L[l] EXCEPT !.status = "FAILED"]
                ELSE IF L[l].status = "PENDING" THEN [L[l] EXCEPT !.status = "CANCELLED"]
                ELSE L[l]]
  PROVE  /\ M \in Rows
         /\ \A l \in LegIds :
              /\ M[l].side = L[l].side /\ M[l].amount = L[l].amount
              /\ M[l].status \in Live => M[l].status = L[l].status
              /\ L[l].status = "COMPLETED" => M[l].status = "COMPLETED"
              /\ M[l].status # "PENDING"
              /\ M[l].side = "CLIENT" => M[l].status # "PROCESSING"
         /\ Received(M) = Received(L) /\ Paid(M) = Paid(L)
         /\ Unwound(M) = Unwound(L) /\ ExcessReturned(M) = ExcessReturned(L)
         /\ RefundsDone(M) = RefundsDone(L)
         /\ Committed(M) <= Committed(L)
         /\ ExcessPlanned(M) <= ExcessPlanned(L)
         /\ RefundsPlanned(M) <= RefundsPlanned(L)
<1>1. ASSUME NEW l \in LegIds
      PROVE  /\ M[l] \in Leg
             /\ M[l].side = L[l].side /\ M[l].amount = L[l].amount
             /\ M[l].status \in Live => M[l].status = L[l].status
             /\ L[l].status = "COMPLETED" => M[l].status = "COMPLETED"
             /\ M[l].status # "PENDING"
             /\ M[l].side = "CLIENT" => M[l].status # "PROCESSING"
  <2>1. CASE L[l].status \notin {"PENDING", "PROCESSING"}
    <3>1. M[l] = L[l]  BY <2>1
    <3> QED BY <2>1, <3>1, RowFacts
  <2>2. CASE L[l].status \in {"PENDING", "PROCESSING"}
    <3>1. L[l] \in [side : Sides, amount : Amounts, status : Statuses]
      BY <2>2, RowFacts DEF Leg, Absent
    <3>2. "FAILED" \in Statuses /\ "CANCELLED" \in Statuses  BY DEF Statuses
    <3>3. [L[l] EXCEPT !.status = "FAILED"] \in Leg /\ [L[l] EXCEPT !.status = "CANCELLED"] \in Leg
      BY <3>1, <3>2 DEF Leg
    <3>4. CASE L[l].side = "CLIENT" /\ L[l].status = "PROCESSING"
      <4>1. M[l] = [L[l] EXCEPT !.status = "FAILED"]  BY <3>4
      <4> QED BY <2>2, <3>1, <3>3, <4>1 DEF Live
    <3>5. CASE L[l].status = "PENDING"
      <4>1. M[l] = [L[l] EXCEPT !.status = "CANCELLED"]  BY <3>5
      <4> QED BY <2>2, <3>1, <3>3, <4>1 DEF Live
    <3>6. CASE L[l].side # "CLIENT" /\ L[l].status = "PROCESSING"
      <4>1. M[l] = L[l]  BY <3>6
      <4> QED BY <3>6, <4>1, RowFacts
    <3> QED BY <2>2, <3>4, <3>5, <3>6
  <2> QED BY <2>1, <2>2
<1>2. M \in Rows  BY <1>1 DEF Rows
<1>3. \A A : Total(M, A, {"COMPLETED"}) = Total(L, A, {"COMPLETED"})
  <2> TAKE A
  <2>1. Total(M, A, {"COMPLETED"}) <= Total(L, A, {"COMPLETED"})
    BY <1>1, <1>2, TotalMonotone DEF Live
  <2>2. Total(L, A, {"COMPLETED"}) <= Total(M, A, {"COMPLETED"})
    BY <1>1, <1>2, TotalMonotone
  <2> QED BY <1>2, <2>1, <2>2, UnitsFinite
<1>4. \A A : Total(M, A, Live) <= Total(L, A, Live)
  BY <1>1, <1>2, TotalMonotone
<1> QED BY <1>1, <1>2, <1>3, <1>4
        DEF Received, Paid, Committed, ExcessPlanned, ExcessReturned, Unwound,
            RefundsPlanned, RefundsDone

-----------------------------------------------------------------------------
(* States and the whitelist of moves. *)

\* The whitelist leads from a state of the machine to states of the machine.
LEMMA AllowedAreStates ==
  ASSUME NEW s \in States
  PROVE  ALLOWED[s] \subseteq States
BY DEF ALLOWED, States

\* A transition the whitelist lets through leaves a state of the machine.
LEMMA TransitionStates ==
  ASSUME state \in States, NEW to, Transition(to)
  PROVE  state' \in States /\ state' = to
BY AllowedAreStates DEF Transition

\* advanceTrade moves a trade one way only, and only when nothing holds it.
LEMMA AdvancedMoves ==
  ASSUME NEW L, NEW C, NEW p, NEW r
  PROVE  \/ Advanced(L, C, p, r) = state
         \/ /\ state = "FIRST_LEG_DETECTED" /\ C = {} /\ FirstLegDone(L, r)
            /\ Advanced(L, C, p, r) = "FIRST_LEG_CONFIRMED"
         \/ /\ state \in {"SETTLING", "PARTIALLY_SETTLED"} /\ C = {}
            /\ Settled(L, p, r) /\ Committed(L) = Paid(L)
            /\ Advanced(L, C, p, r) = "COMPLETED"
BY DEF Advanced

-----------------------------------------------------------------------------
(* Type correctness. *)

\* What an insertion and a move do to the type of the legs.
LEMMA InsertTypes ==
  ASSUME legs \in Rows, NEW l \in LegIds, NEW side \in Sides, NEW a \in Amounts,
         NEW s \in Statuses, Insert(l, side, a, s)
  PROVE  legs' \in Rows
BY RowsWritten DEF Insert

\* Moving a leg that exists to another status keeps the rows well typed.
LEMMA MovedTypes ==
  ASSUME legs \in Rows, NEW l \in LegIds, legs[l].status # "ABSENT", NEW s \in Statuses
  PROVE  Moved(l, s) \in Rows
BY RowsWritten DEF Moved

\* A trade is created well typed.
LEMMA TypeInit == Init => TypeOK
<1> SUFFICES ASSUME Init PROVE TypeOK  OBVIOUS
<1>1. direction \in Directions /\ state \in States  BY DEF Init, States
<1>2. legs \in [LegIds -> Leg]  BY DEF Init, Leg
<1>3. cases \subseteq Cases  BY DEF Init
<1>4. payout \in Terms /\ receivable \in Terms  BY AmountsAssumption DEF Init
<1>5. obligation = "OPEN" /\ deposit = "IDLE"  BY DEF Init
<1> QED BY <1>1, <1>2, <1>3, <1>4, <1>5 DEF TypeOK

\* One case per command: the state by the whitelist, the legs by the two ways a
\* command writes them, the rest by the command itself.
LEMMA TypeNext == TypeOK /\ [Next]_vars => TypeOK'
<1> SUFFICES ASSUME TypeOK, [Next]_vars PROVE TypeOK'  OBVIOUS
<1> USE DEF TypeOK
<1>t. legs \in Rows /\ state \in States  BY DEF Rows
<1>s. /\ {"PENDING", "PROCESSING", "COMPLETED", "FAILED", "CANCELLED"} \subseteq Statuses
      /\ {"CLIENT", "PAYOUT", "UNWIND", "EXCESS"} \subseteq Sides
      /\ "ABSENT" \notin Statuses
  BY DEF Statuses, Live, Sides, Refunds
<1>c. ClientAmounts \subseteq Amounts  BY AmountsAssumption
<1>n. \A l \in LegIds : \A t \in CaseTypes : <<t, l>> \in Cases /\ <<t, "TRADE">> \in Cases
  BY DEF Cases
<1>1. ASSUME NEW l \in LegIds, NEW a \in ClientAmounts, RecordClientInr(l, a)  PROVE TypeOK'
  <2>1. legs' \in Rows  BY <1>1, <1>t, <1>s, <1>c, InsertTypes DEF RecordClientInr
  <2>2. state' \in States  BY <1>1, <1>t, TransitionStates DEF RecordClientInr
  <2> QED BY <1>1, <2>1, <2>2 DEF RecordClientInr, Rows
<1>2. ASSUME AttributeDeposit  PROVE TypeOK'
  BY <1>2 DEF AttributeDeposit
<1>3. ASSUME NEW l \in LegIds, NEW a \in ClientAmounts, NEW known \in BOOLEAN,
             RecordClientDeposit(l, a, known)
      PROVE  TypeOK'
  <2>1. legs' \in Rows  BY <1>3, <1>t, <1>s, <1>c, InsertTypes DEF RecordClientDeposit
  <2>2. state' \in States
    <3>1. Transition(IF state = "AWAITING_FIRST_LEG" THEN "FIRST_LEG_DETECTED" ELSE state)
      BY <1>3 DEF RecordClientDeposit
    <3> QED BY <3>1, <1>t, TransitionStates
  <2>3. cases' \subseteq Cases
    BY <1>3, <1>n DEF RecordClientDeposit, CaseTypes
  <2> QED BY <1>3, <2>1, <2>2, <2>3 DEF RecordClientDeposit, Rows
<1>4. ASSUME NEW l \in LegIds, ConfirmClientLeg(l)  PROVE TypeOK'
  <2>1. legs' \in Rows  BY <1>4, <1>t, <1>s, MovedTypes DEF ConfirmClientLeg
  <2>2. state' \in States  BY <1>4, <1>t, TransitionStates DEF ConfirmClientLeg
  <2>3. cases' \subseteq Cases
    BY <1>4, <1>n DEF ConfirmClientLeg, CaseTypes
  <2> QED BY <1>4, <2>1, <2>2, <2>3 DEF ConfirmClientLeg, Rows
<1>5. ASSUME NEW l \in LegIds, RevertClientLeg(l)  PROVE TypeOK'
  <2>1. legs' \in Rows  BY <1>5, <1>t, <1>s, MovedTypes DEF RevertClientLeg
  <2>2. state' \in States  BY <1>5, <1>t, TransitionStates DEF RevertClientLeg
  <2> QED BY <1>5, <2>1, <2>2 DEF RevertClientLeg, Rows
<1>6. ASSUME NEW l \in LegIds, NEW a \in Amounts, CreatePayoutLeg(l, a)  PROVE TypeOK'
  <2>1. legs' \in Rows  BY <1>6, <1>t, <1>s, InsertTypes DEF CreatePayoutLeg
  <2> QED BY <1>6, <2>1 DEF CreatePayoutLeg, Rows
<1>7. ASSUME NEW l \in LegIds, SendPayoutLeg(l)  PROVE TypeOK'
  <2>1. legs' \in Rows  BY <1>7, <1>t, <1>s, MovedTypes DEF SendPayoutLeg
  <2>2. state' \in States  BY <1>7, <1>t, TransitionStates DEF SendPayoutLeg
  <2> QED BY <1>7, <2>1, <2>2 DEF SendPayoutLeg, Rows
<1>8. ASSUME NEW l \in LegIds, ConfirmPayoutLeg(l)  PROVE TypeOK'
  <2>1. legs' \in Rows  BY <1>8, <1>t, <1>s, MovedTypes DEF ConfirmPayoutLeg
  <2>2. state' \in States  BY <1>8, <1>t, TransitionStates DEF ConfirmPayoutLeg
  <2> QED BY <1>8, <2>1, <2>2 DEF ConfirmPayoutLeg, Rows
<1>9. ASSUME NEW l \in LegIds, CancelPayoutLeg(l)  PROVE TypeOK'
  <2>1. legs' \in Rows  BY <1>9, <1>t, <1>s, MovedTypes DEF CancelPayoutLeg
  <2> QED BY <1>9, <2>1 DEF CancelPayoutLeg, Rows
<1>10. ASSUME NEW l \in LegIds, FailPayoutLeg(l)  PROVE TypeOK'
  <2>1. legs' \in Rows  BY <1>10, <1>t, <1>s, MovedTypes DEF FailPayoutLeg
  <2>2. cases' \subseteq Cases  BY <1>10, <1>n DEF FailPayoutLeg, CaseTypes
  <2> QED BY <1>10, <2>1, <2>2 DEF FailPayoutLeg, Rows
<1>11. ASSUME NEW l \in LegIds, NEW a \in Amounts, CreateRefundLeg(l, a)  PROVE TypeOK'
  <2>1. legs' \in Rows  BY <1>11, <1>t, <1>s, InsertTypes DEF CreateRefundLeg
  <2> QED BY <1>11, <2>1 DEF CreateRefundLeg, Rows
<1>12. ASSUME NEW l \in LegIds, NEW a \in Amounts, RefundExcess(l, a)  PROVE TypeOK'
  <2>1. legs' \in Rows  BY <1>12, <1>t, <1>s, InsertTypes DEF RefundExcess
  <2>2. state' \in States  BY <1>12, <1>t, TransitionStates DEF RefundExcess
  <2>3. cases' \subseteq cases  BY <1>12 DEF RefundExcess
  <2> QED BY <1>12, <2>1, <2>2, <2>3 DEF RefundExcess, Rows
<1>13. ASSUME NEW l \in LegIds, ConfirmRefundLeg(l)  PROVE TypeOK'
  <2>1. legs' \in Rows  BY <1>13, <1>t, <1>s, MovedTypes DEF ConfirmRefundLeg
  <2>2. state' \in States  BY <1>13, <1>t, TransitionStates DEF ConfirmRefundLeg
  <2> QED BY <1>13, <2>1, <2>2 DEF ConfirmRefundLeg, Rows
<1>14. ASSUME CancelTrade \/ RefundAndCancel  PROVE TypeOK'
  <2>1. legs' \in Rows
    BY <1>14, <1>t, LegsReleased DEF CancelTrade, RefundAndCancel, ReleaseCommitments
  <2>2. state' \in States  BY <1>14, <1>t, TransitionStates DEF CancelTrade, RefundAndCancel
  <2>3. cases' \subseteq cases  BY <1>14 DEF CancelTrade, RefundAndCancel, OneCaseMayClose
  <2>4. /\ obligation' = "CANCELLED"
        /\ UNCHANGED <<direction, payout, receivable, deposit>>
    BY <1>14 DEF CancelTrade, RefundAndCancel, ReleaseCommitments
  <2> QED BY <2>1, <2>2, <2>3, <2>4 DEF Rows
<1>15. ASSUME OpenException  PROVE TypeOK'
  <2>1. <<"OPERATOR_MISTAKE", "TRADE">> \in Cases  BY DEF Cases, CaseTypes
  <2> QED BY <1>15, <2>1 DEF OpenException
<1>16. ASSUME NEW c \in cases, CloseException(c)  PROVE TypeOK'
  <2>1. state' \in States  BY <1>16, <1>t, TransitionStates DEF CloseException
  <2> QED BY <1>16, <2>1 DEF CloseException
<1>17. ASSUME NEW p \in Terms, NEW r \in Terms, ApproveAdjustment(p, r)  PROVE TypeOK'
  <2>1. state' \in States  BY <1>17, <1>t, TransitionStates DEF ApproveAdjustment
  <2>2. cases' \subseteq cases  BY <1>17 DEF ApproveAdjustment, OneCaseMayClose
  <2> QED BY <1>17, <2>1, <2>2 DEF ApproveAdjustment
<1>18. ASSUME RouteAllocates  PROVE TypeOK'
  BY <1>18 DEF RouteAllocates
<1>19. CASE UNCHANGED vars
  BY <1>19 DEF vars
<1> QED BY <1>1, <1>2, <1>3, <1>4, <1>5, <1>6, <1>7, <1>8, <1>9, <1>10, <1>11, <1>12,
           <1>13, <1>14, <1>15, <1>16, <1>17, <1>18, <1>19 DEF Next, LegCommand

\* Every variable of a reachable state holds a value of its column.
THEOREM TypeCorrect == Spec => []TypeOK
<1>1. Init => TypeOK  BY TypeInit
<1>2. TypeOK /\ [Next]_vars => TypeOK'  BY TypeNext
<1> QED BY <1>1, <1>2, PTL DEF Spec

-----------------------------------------------------------------------------
(* Payouts and unwinds kept apart, and payouts after the first leg. *)

\* What a command that adds or moves one leg does to the rows.
LEMMA InsertRow ==
  ASSUME legs \in Rows, NEW l \in LegIds, NEW side, NEW a, NEW s, Insert(l, side, a, s)
  PROVE  /\ legs[l].status = "ABSENT"
         /\ legs'[l].side = side /\ legs'[l].amount = a /\ legs'[l].status = s
         /\ \A k \in LegIds \ {l} : legs'[k] = legs[k]
BY DEF Insert, Absent, Rows

\* Moving one leg writes its status and nothing else of any row.
LEMMA MovedRow ==
  ASSUME legs \in Rows, NEW l \in LegIds, legs[l].status # "ABSENT", NEW s, legs' = Moved(l, s)
  PROVE  /\ legs'[l].side = legs[l].side /\ legs'[l].amount = legs[l].amount
         /\ legs'[l].status = s
         /\ \A k \in LegIds \ {l} : legs'[k] = legs[k]
<1>1. legs[l] \in [side : Sides, amount : Amounts, status : Statuses]
  BY RowFacts DEF Leg, Absent
<1>2. legs'[l] = [legs[l] EXCEPT !.status = s]  BY DEF Moved, Rows
<1>3. \A k \in LegIds \ {l} : legs'[k] = legs[k]  BY DEF Moved, Rows
<1> QED BY <1>1, <1>2, <1>3

\* Nothing plans a client leg: it is detected, so a cancelled trade, whose planned
\* legs are gone, can have none that a send would revive.
ClientNeverPlanned == \A l \in LegIds : legs[l].side = "CLIENT" => legs[l].status # "PENDING"

Separation == ClientNeverPlanned /\ NeverBothWays /\ PayoutAfterFirstLeg

\* A trade without legs keeps payouts and unwinds apart.
LEMMA SeparationInit == Init => Separation
BY DEF Init, Absent, Separation, ClientNeverPlanned, NeverBothWays, PayoutAfterFirstLeg,
       UnwindUnderway, PayoutUnderway, LegsOf, Live, Sent

\* A command that leaves the legs and the stage of the trade alone.
LEMMA SeparationUntouched ==
  ASSUME TypeOK, Separation, legs' = legs,
         \/ state' = state
         \/ state' = "COMPLETED"
         \/ state' = "FIRST_LEG_CONFIRMED" /\ state = "FIRST_LEG_DETECTED"
  PROVE  Separation'
BY DEF Separation, ClientNeverPlanned, NeverBothWays, PayoutAfterFirstLeg,
       UnwindUnderway, PayoutUnderway, LegsOf, Live, Sent

\* Every command keeps payouts and unwinds apart, and payouts behind the first leg.
LEMMA SeparationNext == TypeOK /\ Separation /\ [Next]_vars => Separation'
<1> SUFFICES ASSUME TypeOK, Separation, [Next]_vars PROVE Separation'  OBVIOUS
<1>t. legs \in Rows /\ state \in States  BY DEF TypeOK, Rows
<1> USE DEF ClientNeverPlanned, NeverBothWays, PayoutAfterFirstLeg, UnwindUnderway,
            PayoutUnderway, LegsOf, Live, Sent, Separation
<1>1. ASSUME NEW l \in LegIds, NEW a \in ClientAmounts, RecordClientInr(l, a)  PROVE Separation'
  <2>1. Insert(l, "CLIENT", a, "PROCESSING") /\ state' = "FIRST_LEG_DETECTED"
        /\ state \in {"AWAITING_FIRST_LEG", "FIRST_LEG_DETECTED"}
    BY <1>1, <1>t, TransitionStates DEF RecordClientInr
  <2> QED BY <2>1, <1>t, InsertRow
<1>2. ASSUME AttributeDeposit  PROVE Separation'
  BY <1>2 DEF AttributeDeposit
<1>3. ASSUME NEW l \in LegIds, NEW a \in ClientAmounts, NEW known \in BOOLEAN,
             RecordClientDeposit(l, a, known)
      PROVE  Separation'
  <2>1. Insert(l, "CLIENT", a, "PROCESSING")  BY <1>3 DEF RecordClientDeposit
  <2>2. state' = IF state = "AWAITING_FIRST_LEG" THEN "FIRST_LEG_DETECTED" ELSE state
    BY <1>3, <1>t, TransitionStates DEF RecordClientDeposit
  <2> QED BY <2>1, <2>2, <1>t, InsertRow
<1>4. ASSUME NEW l \in LegIds, ConfirmClientLeg(l)  PROVE Separation'
  <2>1. legs' = Moved(l, "COMPLETED") /\ legs[l].side = "CLIENT" /\ legs[l].status = "PROCESSING"
    BY <1>4 DEF ConfirmClientLeg
  <2>2. \/ state' = state
        \/ state = "FIRST_LEG_DETECTED" /\ state' = "FIRST_LEG_CONFIRMED"
        \/ state' = "COMPLETED" /\ state \in {"SETTLING", "PARTIALLY_SETTLED"}
    BY <1>4, <1>t, TransitionStates, AdvancedMoves DEF ConfirmClientLeg
  <2> QED BY <2>1, <2>2, <1>t, MovedRow
<1>5. ASSUME NEW l \in LegIds, RevertClientLeg(l)  PROVE Separation'
  <2>1. legs' = Moved(l, "FAILED") /\ legs[l].side = "CLIENT" /\ legs[l].status = "PROCESSING"
    BY <1>5 DEF RevertClientLeg
  <2>2. \/ state' = state
        \/ state = "FIRST_LEG_DETECTED" /\ state' \in {"AWAITING_FIRST_LEG", "FIRST_LEG_CONFIRMED"}
    <3>1. CASE state # "FIRST_LEG_DETECTED"
      BY <1>5, <3>1, <1>t, TransitionStates DEF RevertClientLeg
    <3>2. CASE state = "FIRST_LEG_DETECTED"
      <4> DEFINE A == Advanced(Moved(l, "FAILED"), cases, payout, receivable)
      <4>1. state' = A \/ state' = "AWAITING_FIRST_LEG"
        BY <1>5, <3>2, <1>t, TransitionStates DEF RevertClientLeg
      <4> QED BY <4>1, <3>2, AdvancedMoves
    <3> QED BY <3>1, <3>2
  <2> QED BY <2>1, <2>2, <1>t, MovedRow
<1>6. ASSUME NEW l \in LegIds, NEW a \in Amounts, CreatePayoutLeg(l, a)  PROVE Separation'
  <2>1. Insert(l, "PAYOUT", a, "PENDING") /\ state \in Payable /\ state' = state
    BY <1>6 DEF CreatePayoutLeg
  <2> QED BY <2>1, <1>t, InsertRow DEF Payable
<1>7. ASSUME NEW l \in LegIds, SendPayoutLeg(l)  PROVE Separation'
  <2>1. /\ legs' = Moved(l, "PROCESSING") /\ legs[l].status = "PENDING"
        /\ legs[l].side = "PAYOUT" => ~UnwindUnderway(legs)
    BY <1>7 DEF SendPayoutLeg
  <2>2. state' = IF state = "FIRST_LEG_CONFIRMED" THEN "SETTLING" ELSE state
    BY <1>7, <1>t, TransitionStates DEF SendPayoutLeg
  <2>3. ClientNeverPlanned'  BY <2>1, <1>t, MovedRow
  <2>4. NeverBothWays'  BY <2>1, <1>t, MovedRow
  <2>5. PayoutAfterFirstLeg'  BY <2>1, <2>2, <1>t, MovedRow
  <2> QED BY <2>3, <2>4, <2>5
<1>8. ASSUME NEW l \in LegIds, ConfirmPayoutLeg(l)  PROVE Separation'
  <2>1. legs' = Moved(l, "COMPLETED") /\ legs[l].side = "PAYOUT" /\ legs[l].status = "PROCESSING"
    BY <1>8 DEF ConfirmPayoutLeg
  <2>2. state' \in {state, "COMPLETED", "PARTIALLY_SETTLED"}
    BY <1>8, <1>t, TransitionStates DEF ConfirmPayoutLeg
  <2> QED BY <2>1, <2>2, <1>t, MovedRow
<1>9. ASSUME NEW l \in LegIds, CancelPayoutLeg(l)  PROVE Separation'
  <2>1. legs' = Moved(l, "CANCELLED") /\ legs[l].status = "PENDING" /\ state' = state
    BY <1>9 DEF CancelPayoutLeg
  <2> QED BY <2>1, <1>t, MovedRow
<1>10. ASSUME NEW l \in LegIds, FailPayoutLeg(l)  PROVE Separation'
  <2>1. legs' = Moved(l, "FAILED") /\ legs[l].status = "PROCESSING" /\ state' = state
    BY <1>10 DEF FailPayoutLeg
  <2> QED BY <2>1, <1>t, MovedRow
<1>11. ASSUME NEW l \in LegIds, NEW a \in Amounts, CreateRefundLeg(l, a)  PROVE Separation'
  <2>1. Insert(l, "UNWIND", a, "PENDING") /\ ~PayoutUnderway(legs) /\ state' = state
    BY <1>11 DEF CreateRefundLeg
  <2> QED BY <2>1, <1>t, InsertRow
<1>12. ASSUME NEW l \in LegIds, NEW a \in Amounts, RefundExcess(l, a)  PROVE Separation'
  <2>1. Insert(l, "EXCESS", a, "PENDING")  BY <1>12 DEF RefundExcess
  <2>2. \/ state' = state
        \/ state = "FIRST_LEG_DETECTED" /\ state' = "FIRST_LEG_CONFIRMED"
        \/ state' = "COMPLETED" /\ state \in {"SETTLING", "PARTIALLY_SETTLED"}
    BY <1>12, <1>t, TransitionStates, AdvancedMoves DEF RefundExcess
  <2> QED BY <2>1, <2>2, <1>t, InsertRow
<1>13. ASSUME NEW l \in LegIds, ConfirmRefundLeg(l)  PROVE Separation'
  <2>1. /\ legs' = Moved(l, "COMPLETED") /\ legs[l].side \in Refunds
        /\ legs[l].status \in {"PENDING", "PROCESSING"}
    BY <1>13 DEF ConfirmRefundLeg
  <2>2. \/ state' = state
        \/ state = "FIRST_LEG_DETECTED" /\ state' = "FIRST_LEG_CONFIRMED"
        \/ state' = "COMPLETED" /\ state \in {"SETTLING", "PARTIALLY_SETTLED"}
    BY <1>13, <1>t, TransitionStates, AdvancedMoves DEF ConfirmRefundLeg
  <2> QED BY <2>1, <2>2, <1>t, MovedRow DEF Refunds
<1>14. ASSUME CancelTrade \/ RefundAndCancel  PROVE Separation'
  <2>1. ReleaseCommitments /\ ~PayoutUnderway(legs)
    BY <1>14 DEF CancelTrade, RefundAndCancel
  <2>2. \A k \in LegIds :
          /\ legs'[k].side = legs[k].side
          /\ legs'[k].status \in Live => legs'[k].status = legs[k].status
          /\ legs'[k].status # "PENDING"
    <3> HIDE DEF Live
    <3> QED BY <2>1, <1>t, LegsReleased, ZenonT(60) DEF ReleaseCommitments
  <2>3. ClientNeverPlanned'  BY <2>2
  <2>4. LegsOf(legs, {"PAYOUT"}, Live)' = {}  BY <2>1, <2>2
  <2> QED BY <2>2, <2>3, <2>4
<1>15. ASSUME OpenException  PROVE Separation'
  BY <1>15 DEF OpenException
<1>16. ASSUME NEW c \in cases, CloseException(c)  PROVE Separation'
  <2>1. legs' = legs  BY <1>16 DEF CloseException
  <2>2. state' = Advanced(legs, cases', payout, receivable)
    BY <1>16, <1>t, TransitionStates DEF CloseException
  <2> QED BY <2>1, <2>2, AdvancedMoves, SeparationUntouched
<1>17. ASSUME NEW p \in Terms, NEW r \in Terms, ApproveAdjustment(p, r)  PROVE Separation'
  <2>1. legs' = legs  BY <1>17 DEF ApproveAdjustment
  <2>2. state' = Advanced(legs, cases', p, r)
    BY <1>17, <1>t, TransitionStates DEF ApproveAdjustment
  <2> QED BY <2>1, <2>2, AdvancedMoves, SeparationUntouched
<1>18. ASSUME RouteAllocates  PROVE Separation'
  BY <1>18 DEF RouteAllocates
<1>19. CASE UNCHANGED vars
  BY <1>19 DEF vars
<1> QED BY <1>1, <1>2, <1>3, <1>4, <1>5, <1>6, <1>7, <1>8, <1>9, <1>10, <1>11, <1>12,
           <1>13, <1>14, <1>15, <1>16, <1>17, <1>18, <1>19 DEF Next, LegCommand

\* Client legs are never planned, no payout coexists with an unwind, and no payout
\* precedes the first leg (money.ts, pay.ts, void.ts).
THEOREM SeparationInvariant == Spec => []Separation
<1>1. Init => Separation  BY SeparationInit
<1>2. TypeOK /\ Separation /\ [Next]_vars => Separation'  BY SeparationNext
<1> QED BY <1>1, <1>2, TypeCorrect, PTL DEF Spec

\* FI-25: no payout is on its way or done while an unwind is planned or done.
THEOREM NeverBothWaysHolds == Spec => []NeverBothWays
<1>1. Separation => NeverBothWays  BY DEF Separation
<1> QED BY <1>1, SeparationInvariant, PTL

\* D-12: payouts exist only past the first leg, and none survives a cancellation.
THEOREM PayoutAfterFirstLegHolds == Spec => []PayoutAfterFirstLeg
<1>1. Separation => PayoutAfterFirstLeg  BY DEF Separation
<1> QED BY <1>1, SeparationInvariant, PTL

-----------------------------------------------------------------------------
(* The invariants that compare sums of legs, and the two action            *)
(* properties of sums.                                                     *)

\* LegInserted and LegMoved for the commands: what a new leg, or a leg that is
\* moved, changes in the sums of the trade.
LEMMA InsertSums ==
  ASSUME legs \in Rows, NEW l \in LegIds, NEW side \in Sides, NEW a \in Amounts,
         NEW s \in {"PENDING", "PROCESSING"}, Insert(l, side, a, s)
  PROVE  /\ legs' \in Rows
         /\ Received(legs') = Received(legs) /\ Paid(legs') = Paid(legs)
         /\ Unwound(legs') = Unwound(legs)
         /\ ExcessReturned(legs') = ExcessReturned(legs)
         /\ RefundsDone(legs') = RefundsDone(legs)
         /\ Committed(legs') = Committed(legs) + (IF side = "PAYOUT" THEN a ELSE 0)
         /\ ExcessPlanned(legs') = ExcessPlanned(legs) + (IF side = "EXCESS" THEN a ELSE 0)
         /\ RefundsPlanned(legs') = RefundsPlanned(legs) + (IF side \in Refunds THEN a ELSE 0)
BY LegInserted, ZenonT(60) DEF Insert

\* What moving one leg does to a total of money.
LEMMA MovedSums ==
  ASSUME legs \in Rows, NEW l \in LegIds, legs[l].status \in {"PENDING", "PROCESSING"},
         NEW s \in Statuses, legs' = Moved(l, s)
  PROVE  /\ legs' \in Rows
         /\ Received(legs') = Received(legs)
              + (IF legs[l].side = "CLIENT" /\ s = "COMPLETED" THEN legs[l].amount ELSE 0)
         /\ Paid(legs') = Paid(legs)
              + (IF legs[l].side = "PAYOUT" /\ s = "COMPLETED" THEN legs[l].amount ELSE 0)
         /\ Unwound(legs') = Unwound(legs)
              + (IF legs[l].side = "UNWIND" /\ s = "COMPLETED" THEN legs[l].amount ELSE 0)
         /\ ExcessReturned(legs') = ExcessReturned(legs)
              + (IF legs[l].side = "EXCESS" /\ s = "COMPLETED" THEN legs[l].amount ELSE 0)
         /\ RefundsDone(legs') = RefundsDone(legs)
              + (IF legs[l].side \in Refunds /\ s = "COMPLETED" THEN legs[l].amount ELSE 0)
         /\ Committed(legs') = Committed(legs)
              - (IF legs[l].side = "PAYOUT" /\ s \notin Live THEN legs[l].amount ELSE 0)
         /\ ExcessPlanned(legs') = ExcessPlanned(legs)
              - (IF legs[l].side = "EXCESS" /\ s \notin Live THEN legs[l].amount ELSE 0)
         /\ RefundsPlanned(legs') = RefundsPlanned(legs)
              - (IF legs[l].side \in Refunds /\ s \notin Live THEN legs[l].amount ELSE 0)
         /\ legs[l].amount \in Nat /\ legs[l].amount > 0
<1>1. legs[l].status \in Statuses  BY DEF Statuses, Live
<1> QED BY <1>1, RowFacts, LegMoved DEF Moved

\* What dropping the planned legs of a side does to a total of money.
LEMMA ReleasedSums ==
  ASSUME legs \in Rows, ReleaseCommitments
  PROVE  /\ legs' \in Rows
         /\ Received(legs') = Received(legs) /\ Paid(legs') = Paid(legs)
         /\ Unwound(legs') = Unwound(legs)
         /\ ExcessReturned(legs') = ExcessReturned(legs)
         /\ RefundsDone(legs') = RefundsDone(legs)
         /\ Committed(legs') <= Committed(legs)
         /\ ExcessPlanned(legs') <= ExcessPlanned(legs)
         /\ RefundsPlanned(legs') <= RefundsPlanned(legs)
BY LegsReleased DEF ReleaseCommitments

\* The amounts the terms name are natural numbers.
LEMMA TermsAreNat ==
  ASSUME NEW t \in Terms
  PROVE  t \in Nat /\ t > 0
BY AmountsAssumption, AmountsArePositive

\* The kinds of step a sum distinguishes.  Every step is one of them.
LegAdded(l, side, a, s) == Insert(l, side, a, s) /\ UNCHANGED <<payout, receivable>>
LegStep(l, s) ==
  /\ legs[l].status \in {"PENDING", "PROCESSING"} /\ s \in Statuses
  /\ legs' = Moved(l, s)
  /\ legs[l].side \in Refunds => ExcessTrigger(legs')
  /\ UNCHANGED <<payout, receivable>>
\* An adjustment writes the terms of a trade that is still open.
TermsWritten ==
  /\ legs' = legs /\ state \notin Terminal
  /\ payout' >= Committed(legs) /\ receivable' >= Received(legs)

\* The ways a command writes the rows of one trade.
LEMMA StepKinds ==
  ASSUME [Next]_vars
  PROVE  \/ UNCHANGED <<legs, payout, receivable>>
         \/ \E l \in LegIds, a \in Amounts :
              \/ LegAdded(l, "CLIENT", a, "PROCESSING")
              \/ LegAdded(l, "PAYOUT", a, "PENDING") /\ a <= payout - Committed(legs)
              \/ LegAdded(l, "UNWIND", a, "PENDING") /\ a = Received(legs) - RefundsPlanned(legs)
              \/ /\ LegAdded(l, "EXCESS", a, "PENDING") /\ ~UnwindUnderway(legs)
                 /\ a <= Received(legs) - receivable - ExcessPlanned(legs)
         \/ \E l \in LegIds, s \in Statuses : LegStep(l, s)
         \/ ReleaseCommitments /\ UNCHANGED <<payout, receivable>>
         \/ TermsWritten
<1> USE DEF LegAdded, LegStep
<1>s. {"PENDING", "PROCESSING", "COMPLETED", "FAILED", "CANCELLED"} \subseteq Statuses
  BY DEF Statuses, Live
<1>a. ClientAmounts \subseteq Amounts  BY AmountsAssumption
<1>1. ASSUME NEW l \in LegIds, NEW a \in ClientAmounts, NEW known \in BOOLEAN,
             RecordClientInr(l, a) \/ RecordClientDeposit(l, a, known)
      PROVE  a \in Amounts /\ LegAdded(l, "CLIENT", a, "PROCESSING")
  BY <1>1, <1>a DEF RecordClientInr, RecordClientDeposit
<1>2. ASSUME NEW l \in LegIds, ConfirmClientLeg(l) \/ RevertClientLeg(l) \/ SendPayoutLeg(l)
               \/ ConfirmPayoutLeg(l) \/ CancelPayoutLeg(l) \/ FailPayoutLeg(l)
               \/ ConfirmRefundLeg(l)
      PROVE  \E s \in Statuses : LegStep(l, s)
  <2>1. /\ legs[l].status \in {"PENDING", "PROCESSING"}
        /\ legs[l].side \in Refunds => ExcessTrigger(legs')
        /\ UNCHANGED <<payout, receivable>>
        /\ \/ legs' = Moved(l, "COMPLETED") \/ legs' = Moved(l, "FAILED")
           \/ legs' = Moved(l, "PROCESSING") \/ legs' = Moved(l, "CANCELLED")
    BY <1>2 DEF ConfirmClientLeg, RevertClientLeg, SendPayoutLeg, ConfirmPayoutLeg,
                CancelPayoutLeg, FailPayoutLeg, ConfirmRefundLeg, Refunds
  <2> QED BY <2>1, <1>s
<1>3. ASSUME NEW l \in LegIds, NEW a \in Amounts, CreatePayoutLeg(l, a)
      PROVE  LegAdded(l, "PAYOUT", a, "PENDING") /\ a <= payout - Committed(legs)
  BY <1>3 DEF CreatePayoutLeg
<1>4. ASSUME NEW l \in LegIds, NEW a \in Amounts, CreateRefundLeg(l, a)
      PROVE  LegAdded(l, "UNWIND", a, "PENDING") /\ a = Received(legs) - RefundsPlanned(legs)
  BY <1>4 DEF CreateRefundLeg
<1>5. ASSUME NEW l \in LegIds, NEW a \in Amounts, RefundExcess(l, a)
      PROVE  /\ LegAdded(l, "EXCESS", a, "PENDING") /\ ~UnwindUnderway(legs)
             /\ a <= Received(legs) - receivable - ExcessPlanned(legs)
  BY <1>5 DEF RefundExcess
<1>6. ASSUME CancelTrade \/ RefundAndCancel
      PROVE  ReleaseCommitments /\ UNCHANGED <<payout, receivable>>
  BY <1>6 DEF CancelTrade, RefundAndCancel
<1>7. ASSUME NEW p \in Terms, NEW r \in Terms, ApproveAdjustment(p, r)
      PROVE  TermsWritten \/ UNCHANGED <<legs, payout, receivable>>
  BY <1>7 DEF ApproveAdjustment, AdjustmentFits, TermsWritten, Terminal
<1>8. ASSUME \/ AttributeDeposit \/ OpenException \/ RouteAllocates \/ UNCHANGED vars
             \/ \E c \in cases : CloseException(c)
      PROVE  UNCHANGED <<legs, payout, receivable>>
  BY <1>8 DEF AttributeDeposit, OpenException, RouteAllocates, CloseException, vars
<1>9. CASE \E l \in LegIds : LegCommand(l)
  <2>1. PICK l \in LegIds : LegCommand(l)  BY <1>9
  <2> QED BY <2>1, <1>1, <1>2, <1>3, <1>4, <1>5 DEF LegCommand
<1> QED BY <1>6, <1>7, <1>8, <1>9 DEF Next

-----------------------------------------------------------------------------
(* FI-20 and FI-25. *)

Bounds == PayoutsWithinObligation /\ RefundsWithinReceived

\* A trade without legs is within every bound.
LEMMA BoundsInit == Init => Bounds
<1> SUFFICES ASSUME Init PROVE Bounds  OBVIOUS
<1>1. legs \in Rows  BY TypeInit DEF TypeOK, Rows
<1>2. \A A : LegsOf(legs, A, Live) = {}  BY DEF Init, LegsOf, Live, Absent
<1>3. "ABSENT" \notin Live  BY DEF Live
<1>4. \A A : Total(legs, A, Live) = 0  BY <1>1, <1>2, <1>3, TotalZero
<1>5. Committed(legs) = 0 /\ RefundsPlanned(legs) = 0
  BY <1>4 DEF Committed, RefundsPlanned
<1>6. payout \in Nat  BY TypeInit, TermsAreNat DEF TypeOK
<1> QED BY <1>1, <1>5, <1>6, TotalsRelated
        DEF Bounds, PayoutsWithinObligation, RefundsWithinReceived

\* Every command keeps the bounds between what came in, what is owed and what leaves.
LEMMA BoundsNext == TypeOK /\ Bounds /\ [Next]_vars => Bounds'
<1> SUFFICES ASSUME TypeOK, Bounds, [Next]_vars PROVE Bounds'  OBVIOUS
<1> USE DEF Bounds, PayoutsWithinObligation, RefundsWithinReceived
<1>t. legs \in Rows /\ payout \in Nat /\ receivable \in Nat
  BY TermsAreNat DEF TypeOK, Rows
<1>r. /\ Received(legs) \in Nat /\ Committed(legs) \in Nat /\ RefundsPlanned(legs) \in Nat
      /\ ExcessPlanned(legs) \in Nat
      /\ ~UnwindUnderway(legs) => RefundsPlanned(legs) = ExcessPlanned(legs)
  BY <1>t, TotalsRelated
<1>s. /\ {"CLIENT", "PAYOUT", "UNWIND", "EXCESS"} \subseteq Sides
      /\ "UNWIND" \in Refunds /\ "EXCESS" \in Refunds /\ "CLIENT" \notin Refunds
      /\ "PAYOUT" \notin Refunds
  BY DEF Sides, Refunds
<1>1. CASE UNCHANGED <<legs, payout, receivable>>
  BY <1>1
<1>2. ASSUME NEW l \in LegIds, NEW a \in Amounts, LegAdded(l, "CLIENT", a, "PROCESSING")
      PROVE  Bounds'
  <2>1. Received(legs') = Received(legs) /\ Committed(legs') = Committed(legs) + 0
        /\ RefundsPlanned(legs') = RefundsPlanned(legs) + 0
    BY <1>2, <1>t, <1>s, InsertSums DEF LegAdded
  <2> QED BY <1>2, <1>r, <2>1 DEF LegAdded
<1>3. ASSUME NEW l \in LegIds, NEW a \in Amounts,
             LegAdded(l, "PAYOUT", a, "PENDING"), a <= payout - Committed(legs)
      PROVE  Bounds'
  <2>1. Received(legs') = Received(legs) /\ Committed(legs') = Committed(legs) + a
        /\ RefundsPlanned(legs') = RefundsPlanned(legs) + 0
    BY <1>3, <1>t, <1>s, InsertSums DEF LegAdded
  <2> QED BY <1>3, <1>r, <1>t, <2>1, AmountsArePositive DEF LegAdded
<1>4. ASSUME NEW l \in LegIds, NEW a \in Amounts, LegAdded(l, "UNWIND", a, "PENDING"),
             a = Received(legs) - RefundsPlanned(legs)
      PROVE  Bounds'
  <2>1. Received(legs') = Received(legs) /\ Committed(legs') = Committed(legs) + 0
        /\ RefundsPlanned(legs') = RefundsPlanned(legs) + a
    BY <1>4, <1>t, <1>s, InsertSums DEF LegAdded
  <2> QED BY <1>4, <1>r, <2>1, AmountsArePositive DEF LegAdded
<1>5. ASSUME NEW l \in LegIds, NEW a \in Amounts, LegAdded(l, "EXCESS", a, "PENDING"),
             ~UnwindUnderway(legs), a <= Received(legs) - receivable - ExcessPlanned(legs)
      PROVE  Bounds'
  <2>1. Received(legs') = Received(legs) /\ Committed(legs') = Committed(legs) + 0
        /\ RefundsPlanned(legs') = RefundsPlanned(legs) + a
    BY <1>5, <1>t, <1>s, InsertSums DEF LegAdded
  <2> QED BY <1>5, <1>r, <1>t, <2>1, AmountsArePositive DEF LegAdded
<1>6. ASSUME NEW l \in LegIds, NEW s \in Statuses, LegStep(l, s)
      PROVE  Bounds'
  <2>1. /\ Received(legs') >= Received(legs) /\ Committed(legs') <= Committed(legs)
        /\ RefundsPlanned(legs') <= RefundsPlanned(legs)
        /\ legs' \in Rows /\ payout' = payout
    BY <1>6, <1>t, <1>r, MovedSums DEF LegStep
  <2>2. Received(legs') \in Nat /\ Committed(legs') \in Nat /\ RefundsPlanned(legs') \in Nat
    BY <2>1, TotalsRelated
  <2> QED BY <1>r, <1>t, <2>1, <2>2
<1>7. CASE ReleaseCommitments /\ UNCHANGED <<payout, receivable>>
  <2>1. /\ Received(legs') = Received(legs) /\ Committed(legs') <= Committed(legs)
        /\ RefundsPlanned(legs') <= RefundsPlanned(legs) /\ legs' \in Rows
    BY <1>7, <1>t, ReleasedSums
  <2>2. Committed(legs') \in Nat /\ RefundsPlanned(legs') \in Nat
    BY <2>1, TotalsRelated
  <2> QED BY <1>7, <1>r, <1>t, <2>1, <2>2
<1>8. CASE TermsWritten
  <2>1. payout' \in Nat  BY TypeNext, TermsAreNat DEF TypeOK
  <2> QED BY <1>8, <1>r, <2>1 DEF TermsWritten
<1> QED BY <1>1, <1>2, <1>3, <1>4, <1>5, <1>6, <1>7, <1>8, StepKinds

\* What leaves a trade never exceeds its terms or what came in
\* (pay.ts, returns.ts, void.ts, adjust.ts).
THEOREM BoundsInvariant == Spec => []Bounds
<1>1. Init => Bounds  BY BoundsInit
<1>2. TypeOK /\ Bounds /\ [Next]_vars => Bounds'  BY BoundsNext
<1> QED BY <1>1, <1>2, TypeCorrect, PTL DEF Spec

\* FI-20: the payouts planned, sent or confirmed never exceed what the trade pays.
THEOREM PayoutsWithinObligationHolds == Spec => []PayoutsWithinObligation
<1>1. Bounds => PayoutsWithinObligation  BY DEF Bounds
<1> QED BY <1>1, BoundsInvariant, PTL

\* FI-25: the refunds planned, sent or confirmed never exceed what arrived.
THEOREM RefundsWithinReceivedHolds == Spec => []RefundsWithinReceived
<1>1. Bounds => RefundsWithinReceived  BY DEF Bounds
<1> QED BY <1>1, BoundsInvariant, PTL

-----------------------------------------------------------------------------
(* T9 and T10. *)

\* When as much was given back as is promised back, no refund is still to leave.
LEMMA NothingLeftToRefund ==
  ASSUME NEW L \in Rows, RefundsPlanned(L) <= RefundsDone(L)
  PROVE  LegsOf(L, Refunds, {"PENDING", "PROCESSING"}) = {}
<1> DEFINE onItsWay == Total(L, Refunds, {"PENDING", "PROCESSING"})
<1>1. Live = {"PENDING", "PROCESSING"} \cup {"COMPLETED"}  BY DEF Live
<1>2. RefundsPlanned(L) = onItsWay + RefundsDone(L)
  BY <1>1, TotalOfStatuses DEF RefundsPlanned, RefundsDone
<1>3. onItsWay \in Nat /\ RefundsDone(L) \in Nat  BY UnitsFinite DEF RefundsDone
<1>4. onItsWay = 0  BY <1>2, <1>3
<1> QED BY <1>4, TotalZero

\* On a cancelled trade only a client's late transfer moves.
LEMMA CancelledLegsStay ==
  ASSUME TypeOK, ClientNeverPlanned, CancelledOwesNothing, state = "CANCELLED", [Next]_vars
  PROVE  /\ state' = "CANCELLED" /\ obligation' = "CANCELLED"
         /\ \/ legs' = legs
            \/ \E l \in LegIds, a \in Amounts : Insert(l, "CLIENT", a, "PROCESSING")
            \/ \E l \in LegIds : /\ legs' = Moved(l, "FAILED")
                                 /\ legs[l].side = "CLIENT" /\ legs[l].status = "PROCESSING"
<1> USE DEF TypeOK
<1>t. legs \in Rows /\ state \in States /\ obligation = "CANCELLED"
  BY DEF Rows, CancelledOwesNothing
<1>a. ClientAmounts \subseteq Amounts  BY AmountsAssumption
<1>l. \A l \in LegIds : /\ legs[l].status # "PENDING"
                        /\ legs[l].status = "PROCESSING" => legs[l].side = "CLIENT"
  <2> TAKE l \in LegIds
  <2>1. legs[l].side \in {"CLIENT", "PAYOUT"} \cup Refunds  BY <1>t, RowFacts DEF Sides
  <2> QED BY <2>1 DEF CancelledOwesNothing, ClientNeverPlanned, LegsOf, Live
<1>w. \A to : Transition(to) => state' = "CANCELLED"
  <2>1. ALLOWED["CANCELLED"] = {}  BY DEF ALLOWED, States
  <2> QED BY <2>1 DEF Transition
<1>1. ASSUME NEW l \in LegIds, NEW a \in ClientAmounts, NEW known \in BOOLEAN,
             RecordClientInr(l, a) \/ RecordClientDeposit(l, a, known)
      PROVE  /\ state' = "CANCELLED" /\ obligation' = "CANCELLED"
             /\ a \in Amounts /\ Insert(l, "CLIENT", a, "PROCESSING")
  BY <1>1, <1>a, <1>t, <1>w DEF RecordClientInr, RecordClientDeposit
<1>2. ASSUME NEW l \in LegIds, RevertClientLeg(l) \/ FailPayoutLeg(l)
      PROVE  /\ state' = "CANCELLED" /\ obligation' = "CANCELLED"
             /\ legs' = Moved(l, "FAILED")
             /\ legs[l].side = "CLIENT" /\ legs[l].status = "PROCESSING"
  <2>1. CASE RevertClientLeg(l)
    BY <2>1, <1>t, <1>w DEF RevertClientLeg
  <2>2. CASE FailPayoutLeg(l)
    BY <2>2, <1>t, <1>l DEF FailPayoutLeg
  <2> QED BY <1>2, <2>1, <2>2
<1>3. ASSUME NEW l \in LegIds, \/ ConfirmClientLeg(l) \/ SendPayoutLeg(l) \/ ConfirmPayoutLeg(l)
                               \/ CancelPayoutLeg(l) \/ ConfirmRefundLeg(l)
      PROVE  FALSE
  <2>1. "CLIENT" \notin Refunds /\ "PAYOUT" # "CLIENT"  BY DEF Refunds
  <2> QED BY <1>3, <1>t, <1>l, <2>1
          DEF ConfirmClientLeg, SendPayoutLeg, ConfirmPayoutLeg, CancelPayoutLeg,
              ConfirmRefundLeg
<1>4. ASSUME NEW l \in LegIds, NEW a \in Amounts,
             CreatePayoutLeg(l, a) \/ CreateRefundLeg(l, a) \/ RefundExcess(l, a)
      PROVE  FALSE
  BY <1>4 DEF CreatePayoutLeg, CreateRefundLeg, RefundExcess, Payable, Terminal
<1>5. ~CancelTrade /\ ~RefundAndCancel /\ ~RouteAllocates
  BY <1>t DEF CancelTrade, RefundAndCancel, RouteAllocates, Terminal
<1>6. ASSUME NEW p \in Terms, NEW r \in Terms, ApproveAdjustment(p, r)  PROVE FALSE
  BY <1>6 DEF ApproveAdjustment, AdjustmentFits
<1>7. ASSUME NEW c \in cases, CloseException(c)
      PROVE  state' = "CANCELLED" /\ obligation' = "CANCELLED" /\ legs' = legs
  BY <1>7, <1>t, <1>w DEF CloseException
<1>8. ASSUME AttributeDeposit \/ OpenException \/ UNCHANGED vars
      PROVE  state' = "CANCELLED" /\ obligation' = "CANCELLED" /\ legs' = legs
  BY <1>8, <1>t DEF AttributeDeposit, OpenException, vars
<1>9. CASE \E l \in LegIds : LegCommand(l)
  <2>1. PICK l \in LegIds : LegCommand(l)  BY <1>9
  <2> QED BY <2>1, <1>1, <1>2, <1>3, <1>4 DEF LegCommand
<1> QED BY <1>5, <1>6, <1>7, <1>8, <1>9 DEF Next

\* Only the two cancelling commands cancel a trade, and each checks first that
\* nothing is left with it.
LEMMA CancelsEvenTrades ==
  ASSUME TypeOK, RefundsWithinReceived, state # "CANCELLED", state' = "CANCELLED", [Next]_vars
  PROVE  /\ RefundsDone(legs) = Received(legs) /\ ~PayoutUnderway(legs)
         /\ ReleaseCommitments /\ UNCHANGED <<payout, receivable>>
<1>t. legs \in Rows /\ state \in States  BY DEF TypeOK, Rows
<1>1. CASE CancelTrade \/ RefundAndCancel
  <2>1. /\ Received(legs) = 0 \/ RefundsDone(legs) = Received(legs)
        /\ ~PayoutUnderway(legs) /\ ReleaseCommitments
        /\ UNCHANGED <<payout, receivable>>
    BY <1>1 DEF CancelTrade, RefundAndCancel
  <2>2. RefundsDone(legs) \in Nat /\ RefundsDone(legs) <= Received(legs)
    BY <1>t, TotalsRelated DEF RefundsWithinReceived
  <2> QED BY <2>1, <2>2
<1>2. ASSUME NEW l \in LegIds, LegCommand(l)  PROVE FALSE
  <2>1. ASSUME NEW a \in ClientAmounts, NEW known \in BOOLEAN,
               RecordClientInr(l, a) \/ RecordClientDeposit(l, a, known)
        PROVE  FALSE
    BY <2>1, <1>t, TransitionStates DEF RecordClientInr, RecordClientDeposit
  <2>2. ~ConfirmClientLeg(l)
    BY <1>t, TransitionStates, AdvancedMoves DEF ConfirmClientLeg
  <2>3. ~RevertClientLeg(l)
    BY <1>t, TransitionStates, AdvancedMoves DEF RevertClientLeg
  <2>4. ASSUME NEW a \in Amounts, CreatePayoutLeg(l, a) \/ CreateRefundLeg(l, a)
        PROVE  FALSE
    BY <2>4 DEF CreatePayoutLeg, CreateRefundLeg
  <2>5. ASSUME NEW a \in Amounts, RefundExcess(l, a)  PROVE FALSE
    BY <2>5, <1>t, TransitionStates, AdvancedMoves DEF RefundExcess
  <2>6. ~SendPayoutLeg(l) /\ ~ConfirmPayoutLeg(l)
    BY <1>t, TransitionStates DEF SendPayoutLeg, ConfirmPayoutLeg
  <2>7. ~CancelPayoutLeg(l) /\ ~FailPayoutLeg(l)
    BY DEF CancelPayoutLeg, FailPayoutLeg
  <2>8. ~ConfirmRefundLeg(l)
    BY <1>t, TransitionStates, AdvancedMoves DEF ConfirmRefundLeg
  <2> QED BY <1>2, <2>1, <2>2, <2>3, <2>4, <2>5, <2>6, <2>7, <2>8 DEF LegCommand
<1>3. ASSUME NEW c \in cases, CloseException(c)  PROVE FALSE
  BY <1>3, <1>t, TransitionStates, AdvancedMoves DEF CloseException
<1>4. ASSUME NEW p \in Terms, NEW r \in Terms, ApproveAdjustment(p, r)  PROVE FALSE
  BY <1>4, <1>t, TransitionStates, AdvancedMoves DEF ApproveAdjustment
<1>5. ~AttributeDeposit /\ ~OpenException /\ ~RouteAllocates /\ ~UNCHANGED vars
  BY DEF AttributeDeposit, OpenException, RouteAllocates, vars
<1> QED BY <1>1, <1>2, <1>3, <1>4, <1>5 DEF Next

\* A cancelled trade stays one that has given back all it received.
LEMMA CancelledNext ==
  TypeOK /\ Separation /\ Bounds /\ CancelledOwesNothing /\ [Next]_vars => CancelledOwesNothing'
<1> SUFFICES ASSUME TypeOK, Separation, Bounds, CancelledOwesNothing, [Next]_vars,
                    state' = "CANCELLED"
             PROVE  /\ RefundsDone(legs') = Received(legs')
                    /\ LegsOf(legs', {"PAYOUT"}, Live) = {}
                    /\ LegsOf(legs', Refunds, {"PENDING", "PROCESSING"}) = {}
                    /\ obligation' = "CANCELLED"
  BY DEF CancelledOwesNothing
<1>t. legs \in Rows  BY DEF TypeOK, Rows
<1>s. "CLIENT" \in Sides /\ "CLIENT" \notin Refunds /\ "FAILED" \in Statuses
  BY DEF Sides, Refunds, Statuses
<1>1. CASE state = "CANCELLED"
  <2>1. ClientNeverPlanned  BY DEF Separation
  <2>2. /\ RefundsDone(legs) = Received(legs) /\ LegsOf(legs, {"PAYOUT"}, Live) = {}
        /\ LegsOf(legs, Refunds, {"PENDING", "PROCESSING"}) = {}
    BY <1>1 DEF CancelledOwesNothing
  <2>3. obligation' = "CANCELLED"  BY <1>1, <2>1, CancelledLegsStay
  <2>4. CASE legs' = legs  BY <2>2, <2>3, <2>4
  <2>5. ASSUME NEW l \in LegIds, NEW a \in Amounts, Insert(l, "CLIENT", a, "PROCESSING")
        PROVE  /\ RefundsDone(legs') = Received(legs')
               /\ LegsOf(legs', {"PAYOUT"}, Live) = {}
               /\ LegsOf(legs', Refunds, {"PENDING", "PROCESSING"}) = {}
    <3>1. RefundsDone(legs') = RefundsDone(legs) /\ Received(legs') = Received(legs)
      BY <2>5, <1>t, <1>s, InsertSums
    <3>2. legs'[l].side = "CLIENT" /\ \A k \in LegIds \ {l} : legs'[k] = legs[k]
      BY <2>5, <1>t, InsertRow
    <3> QED BY <2>2, <3>1, <3>2, <1>s DEF LegsOf
  <2>6. ASSUME NEW l \in LegIds, legs' = Moved(l, "FAILED"),
               legs[l].side = "CLIENT", legs[l].status = "PROCESSING"
        PROVE  /\ RefundsDone(legs') = Received(legs')
               /\ LegsOf(legs', {"PAYOUT"}, Live) = {}
               /\ LegsOf(legs', Refunds, {"PENDING", "PROCESSING"}) = {}
    <3>1. RefundsDone(legs') = RefundsDone(legs) + 0 /\ Received(legs') = Received(legs) + 0
      BY <2>6, <1>t, <1>s, MovedSums
    <3>2. RefundsDone(legs) \in Nat /\ Received(legs) \in Nat  BY <1>t, TotalsRelated
    <3>3. legs'[l].side = "CLIENT" /\ \A k \in LegIds \ {l} : legs'[k] = legs[k]
      BY <2>6, <1>t, MovedRow
    <3> QED BY <2>2, <3>1, <3>2, <3>3, <1>s DEF LegsOf
  <2> QED BY <1>1, <2>1, <2>3, <2>4, <2>5, <2>6, CancelledLegsStay
<1>2. CASE state # "CANCELLED"
  <2>1. RefundsDone(legs) = Received(legs) /\ ~PayoutUnderway(legs) /\ ReleaseCommitments
    BY <1>2, CancelsEvenTrades DEF Bounds
  <2>2. RefundsPlanned(legs) <= RefundsDone(legs)
    BY <2>1 DEF Bounds, RefundsWithinReceived
  <2>3. LegsOf(legs, Refunds, {"PENDING", "PROCESSING"}) = {}
    BY <1>t, <2>2, NothingLeftToRefund
  <2>4. \A k \in LegIds :
          /\ legs'[k].side = legs[k].side
          /\ legs'[k].status \in Live => legs'[k].status = legs[k].status
          /\ legs'[k].status # "PENDING"
    <3> HIDE DEF Live
    <3> QED BY <2>1, <1>t, LegsReleased, ZenonT(60) DEF ReleaseCommitments
  <2>5. LegsOf(legs', {"PAYOUT"}, Live) = {}
    BY <2>1, <2>4 DEF PayoutUnderway, LegsOf, Live, Sent
  <2>6. LegsOf(legs', Refunds, {"PENDING", "PROCESSING"}) = {}
    BY <2>3, <2>4 DEF LegsOf, Live
  <2>7. RefundsDone(legs') = Received(legs')
    BY <2>1, <1>t, ReleasedSums
  <2> QED BY <2>1, <2>5, <2>6, <2>7 DEF ReleaseCommitments
<1> QED BY <1>1, <1>2

\* T9, T10: whatever the order of late transfers, failures and refunds, a cancelled
\* trade has given back all it received and nothing more is to leave it.
THEOREM CancelledOwesNothingHolds == Spec => []CancelledOwesNothing
<1>1. Init => CancelledOwesNothing  BY DEF Init, CancelledOwesNothing
<1>2. TypeOK /\ Separation /\ Bounds /\ CancelledOwesNothing /\ [Next]_vars
        => CancelledOwesNothing'
  BY CancelledNext
<1> QED BY <1>1, <1>2, TypeCorrect, SeparationInvariant, BoundsInvariant, PTL DEF Spec
-----------------------------------------------------------------------------
(* FI-21 and T4: what completes a trade, and what ends its first leg. *)

\* A step that leaves the trade where advanceTrade finds it.
AdvancedStep == state' = Advanced(legs', cases', payout', receivable')

\* Every step that changes the stage of a trade to FIRST_LEG_CONFIRMED or COMPLETED
\* is advanceTrade's, or confirms the last payout.
LEMMA StageMoves ==
  ASSUME TypeOK, [Next]_vars
  PROVE  \/ AdvancedStep
         \/ state' = state
         \/ state' \notin {"FIRST_LEG_CONFIRMED", "COMPLETED"}
         \/ state' = "COMPLETED" /\ cases' = {} /\ Settled(legs', payout', receivable')
<1>t. state \in States  BY DEF TypeOK
<1> USE DEF AdvancedStep
<1>1. ASSUME NEW l \in LegIds, NEW a \in ClientAmounts, NEW known \in BOOLEAN,
             RecordClientInr(l, a) \/ RecordClientDeposit(l, a, known)
      PROVE  state' = state \/ state' = "FIRST_LEG_DETECTED"
  BY <1>1, <1>t, TransitionStates DEF RecordClientInr, RecordClientDeposit
<1>2. ASSUME NEW l \in LegIds, ConfirmClientLeg(l)
      PROVE  AdvancedStep \/ state' = state
  BY <1>2, <1>t, TransitionStates DEF ConfirmClientLeg
<1>3. ASSUME NEW l \in LegIds, RevertClientLeg(l)
      PROVE  AdvancedStep \/ state' = state \/ state' = "AWAITING_FIRST_LEG"
  BY <1>3, <1>t, TransitionStates DEF RevertClientLeg
<1>4. ASSUME NEW l \in LegIds, NEW a \in Amounts, CreatePayoutLeg(l, a) \/ CreateRefundLeg(l, a)
      PROVE  state' = state
  BY <1>4 DEF CreatePayoutLeg, CreateRefundLeg
<1>5. ASSUME NEW l \in LegIds, NEW a \in Amounts, RefundExcess(l, a)
      PROVE  AdvancedStep
  BY <1>5, <1>t, TransitionStates DEF RefundExcess
<1>6. ASSUME NEW l \in LegIds, SendPayoutLeg(l)
      PROVE  state' = state \/ state' = "SETTLING"
  BY <1>6, <1>t, TransitionStates DEF SendPayoutLeg
<1>7. ASSUME NEW l \in LegIds, ConfirmPayoutLeg(l)
      PROVE  \/ state' = state \/ state' = "PARTIALLY_SETTLED"
             \/ state' = "COMPLETED" /\ cases' = {} /\ Settled(legs', payout', receivable')
  BY <1>7, <1>t, TransitionStates DEF ConfirmPayoutLeg, hold
<1>8. ASSUME NEW l \in LegIds, CancelPayoutLeg(l) \/ FailPayoutLeg(l)
      PROVE  state' = state
  BY <1>8 DEF CancelPayoutLeg, FailPayoutLeg
<1>9. ASSUME NEW l \in LegIds, ConfirmRefundLeg(l)
      PROVE  AdvancedStep \/ state' = state
  BY <1>9, <1>t, TransitionStates DEF ConfirmRefundLeg
<1>10. ASSUME CancelTrade \/ RefundAndCancel  PROVE state' = "CANCELLED"
  BY <1>10, <1>t, TransitionStates DEF CancelTrade, RefundAndCancel
<1>11. ASSUME NEW c \in cases, CloseException(c)  PROVE AdvancedStep
  BY <1>11, <1>t, TransitionStates DEF CloseException
<1>12. ASSUME NEW p \in Terms, NEW r \in Terms, ApproveAdjustment(p, r)  PROVE AdvancedStep
  BY <1>12, <1>t, TransitionStates DEF ApproveAdjustment
<1>13. ASSUME AttributeDeposit \/ OpenException \/ RouteAllocates \/ UNCHANGED vars
       PROVE  state' = state
  BY <1>13 DEF AttributeDeposit, OpenException, RouteAllocates, vars
<1>14. CASE \E l \in LegIds : LegCommand(l)
  <2>1. PICK l \in LegIds : LegCommand(l)  BY <1>14
  <2> HIDE DEF AdvancedStep
  <2> QED BY <2>1, <1>1, <1>2, <1>3, <1>4, <1>5, <1>6, <1>7, <1>8, <1>9 DEF LegCommand
<1> HIDE DEF AdvancedStep
<1> QED BY <1>10, <1>11, <1>12, <1>13, <1>14 DEF Next

\* FI-21: the step that completes a trade leaves both sides settled by confirmed
\* legs and no case open.
THEOREM CompletionIsExactHolds == Spec => CompletionIsExact
<1>1. ASSUME TypeOK, [Next]_vars, state' = "COMPLETED", state # "COMPLETED"
      PROVE  cases' = {} /\ Settled(legs', payout', receivable')
  <2>1. CASE AdvancedStep
    BY <1>1, <2>1, AdvancedMoves DEF AdvancedStep
  <2> QED BY <1>1, <2>1, StageMoves
<1>2. TypeOK /\ [Next]_vars =>
        [state' = "COMPLETED" /\ state # "COMPLETED" =>
           /\ Paid(legs') = payout'
           /\ Received(legs') - ExcessReturned(legs') = receivable'
           /\ cases' = {}]_vars
  BY <1>1 DEF Settled
<1> QED BY <1>2, TypeCorrect, PTL DEF Spec, CompletionIsExact

-----------------------------------------------------------------------------
(* A settled trade is a completed one, and stays paid. *)

\* The trade is settled as it stands, with nothing open against it.
SettledAsIs == Settled(legs, payout, receivable) /\ Committed(legs) = Paid(legs) /\ ~hold

\* advanceTrade never leaves a settled trade open.
LEMMA AdvancedCompletes ==
  ASSUME AdvancedStep, SettledAsIs'
  PROVE  state' \notin {"SETTLING", "PARTIALLY_SETTLED"}
BY DEF AdvancedStep, SettledAsIs, Advanced, Settled, hold

\* What a step that only writes legs can settle: nothing but a confirmation adds
\* to what is paid or returned, and a payout dropped was not covered by the terms.
LEMMA SettledNext ==
  TypeOK /\ Separation /\ Bounds /\ SettledTradeCompletes /\ [Next]_vars => SettledTradeCompletes'
<1> SUFFICES ASSUME TypeOK, Separation, Bounds, SettledTradeCompletes, [Next]_vars,
                    state' \in {"SETTLING", "PARTIALLY_SETTLED"}, SettledAsIs'
             PROVE  FALSE
  BY DEF SettledTradeCompletes, SettledAsIs
<1>t. legs \in Rows /\ state \in States /\ payout \in Nat /\ payout > 0 /\ receivable \in Nat
  BY TermsAreNat DEF TypeOK, Rows
<1>r. /\ Received(legs) \in Nat /\ Paid(legs) \in Nat /\ Committed(legs) \in Nat
      /\ ExcessReturned(legs) \in Nat
      /\ Paid(legs) <= Committed(legs) /\ Committed(legs) <= payout
      /\ ~PayoutUnderway(legs) => Paid(legs) = 0
  BY <1>t, TotalsRelated DEF Bounds, PayoutsWithinObligation
<1>s. /\ {"CLIENT", "PAYOUT", "UNWIND", "EXCESS"} \subseteq Sides
      /\ {"PENDING", "PROCESSING", "COMPLETED", "FAILED", "CANCELLED"} \subseteq Statuses
      /\ Refunds = {"UNWIND", "EXCESS"} /\ ClientAmounts \subseteq Amounts
      /\ "PROCESSING" \in Live
  BY AmountsAssumption DEF Sides, Refunds, Statuses, Live
<1>n. ~AdvancedStep  BY AdvancedCompletes
<1>o. state \in {"SETTLING", "PARTIALLY_SETTLED"} => ~SettledAsIs
  BY DEF SettledTradeCompletes, SettledAsIs
\* A step that keeps the stage, the terms and these sums settles nothing.
<1>k. ASSUME state' = state, cases \subseteq cases', UNCHANGED <<payout, receivable>>,
             Received(legs') = Received(legs), Paid(legs') = Paid(legs),
             ExcessReturned(legs') = ExcessReturned(legs), Committed(legs') = Committed(legs)
      PROVE  FALSE
  <2>1. cases = {}  BY <1>k DEF SettledAsIs, hold
  <2>2. SettledAsIs  BY <1>k, <2>1 DEF SettledAsIs, Settled, hold
  <2> QED BY <1>k, <1>o, <2>2
<1>1. ASSUME NEW l \in LegIds, NEW a \in ClientAmounts, RecordClientInr(l, a)
      PROVE  FALSE
  BY <1>1, <1>t, TransitionStates DEF RecordClientInr
<1>2. ASSUME NEW l \in LegIds, NEW a \in ClientAmounts, NEW known \in BOOLEAN,
             RecordClientDeposit(l, a, known)
      PROVE  FALSE
  <2>1. /\ Insert(l, "CLIENT", a, "PROCESSING") /\ cases \subseteq cases'
        /\ UNCHANGED <<payout, receivable>>
    BY <1>2 DEF RecordClientDeposit
  <2>2. /\ Received(legs') = Received(legs) /\ Paid(legs') = Paid(legs)
        /\ ExcessReturned(legs') = ExcessReturned(legs)
        /\ Committed(legs') = Committed(legs) + 0
    BY <2>1, <1>t, <1>s, InsertSums
  <2>3. state' = state  BY <1>2, <1>t, TransitionStates DEF RecordClientDeposit
  <2> QED BY <2>1, <2>2, <2>3, <1>k, <1>r
<1>3. ASSUME NEW l \in LegIds, ConfirmClientLeg(l)  PROVE FALSE
  <2>1. state \in {"SETTLING", "PARTIALLY_SETTLED"}
    BY <1>3, <1>t, TransitionStates, AdvancedMoves DEF ConfirmClientLeg
  <2>2. cases' = {}  BY DEF SettledAsIs, hold
  <2>3. cases' = cases /\ Received(Moved(l, "COMPLETED")) = receivable
    BY <1>3, <2>1, <2>2 DEF ConfirmClientLeg
  <2>4. AdvancedStep
    BY <1>3, <2>1, <2>3, <1>t, TransitionStates DEF ConfirmClientLeg, AdvancedStep
  <2> QED BY <2>4, <1>n
<1>4. ASSUME NEW l \in LegIds, RevertClientLeg(l)  PROVE FALSE
  <2>1. /\ legs' = Moved(l, "FAILED") /\ legs[l].side = "CLIENT" /\ legs[l].status = "PROCESSING"
        /\ cases' = cases /\ UNCHANGED <<payout, receivable>>
    BY <1>4 DEF RevertClientLeg
  <2>2. state' = state
    <3>1. CASE state = "FIRST_LEG_DETECTED"
      BY <1>4, <3>1, <1>t, TransitionStates, AdvancedMoves DEF RevertClientLeg
    <3>2. CASE state # "FIRST_LEG_DETECTED"
      BY <1>4, <3>2, <1>t, TransitionStates DEF RevertClientLeg
    <3> QED BY <3>1, <3>2
  <2>3. /\ Received(legs') = Received(legs) + 0 /\ Paid(legs') = Paid(legs) + 0
        /\ ExcessReturned(legs') = ExcessReturned(legs) + 0
        /\ Committed(legs') = Committed(legs) - 0
    BY <2>1, <1>t, <1>s, MovedSums
  <2> QED BY <2>1, <2>2, <2>3, <1>k, <1>r
<1>5. ASSUME NEW l \in LegIds, NEW a \in Amounts, CreatePayoutLeg(l, a)  PROVE FALSE
  <2>1. Insert(l, "PAYOUT", a, "PENDING")  BY <1>5 DEF CreatePayoutLeg
  <2>2. Paid(legs') = Paid(legs) /\ Committed(legs') = Committed(legs) + a
    BY <2>1, <1>t, <1>s, InsertSums
  <2>3. a \in Nat /\ a > 0  BY AmountsArePositive
  <2> QED BY <2>2, <2>3, <1>r DEF SettledAsIs
<1>6. ASSUME NEW l \in LegIds, SendPayoutLeg(l)  PROVE FALSE
  <2>1. /\ legs' = Moved(l, "PROCESSING") /\ legs[l].status = "PENDING"
        /\ cases' = cases /\ UNCHANGED <<payout, receivable>>
    BY <1>6 DEF SendPayoutLeg
  <2>2. /\ Received(legs') = Received(legs) + 0 /\ Paid(legs') = Paid(legs) + 0
        /\ ExcessReturned(legs') = ExcessReturned(legs) + 0
        /\ Committed(legs') = Committed(legs) - 0
    BY <2>1, <1>t, <1>s, MovedSums
  <2>3. CASE state = "FIRST_LEG_CONFIRMED"
    <3>1. Paid(legs) = 0  BY <2>3, <1>r DEF Separation, PayoutAfterFirstLeg
    <3>2. Paid(legs') = payout'  BY DEF SettledAsIs, Settled
    <3> QED BY <3>1, <3>2, <2>1, <2>2, <1>t
  <2>4. CASE state # "FIRST_LEG_CONFIRMED"
    <3>1. state' = state  BY <1>6, <2>4, <1>t, TransitionStates DEF SendPayoutLeg
    <3> QED BY <3>1, <2>1, <2>2, <1>k, <1>r
  <2> QED BY <2>3, <2>4
<1>7. ASSUME NEW l \in LegIds, ConfirmPayoutLeg(l)  PROVE FALSE
  <2>1. Settled(legs', payout, receivable) => state' = "COMPLETED"
    BY <1>7, <1>t, TransitionStates DEF ConfirmPayoutLeg
  <2>2. UNCHANGED <<payout, receivable>>  BY <1>7 DEF ConfirmPayoutLeg
  <2> QED BY <2>1, <2>2 DEF SettledAsIs, Settled
<1>8. ASSUME NEW l \in LegIds, CancelPayoutLeg(l)  PROVE FALSE
  <2>1. /\ legs' = Moved(l, "CANCELLED") /\ legs[l].status = "PENDING" /\ state' = state
        /\ cases' = cases /\ UNCHANGED <<payout, receivable>>
    BY <1>8 DEF CancelPayoutLeg
  <2>2. "CANCELLED" \notin Live  BY DEF Live
  <2>3. /\ Received(legs') = Received(legs) + 0 /\ Paid(legs') = Paid(legs) + 0
        /\ ExcessReturned(legs') = ExcessReturned(legs) + 0
        /\ Committed(legs') = Committed(legs)
             - (IF legs[l].side = "PAYOUT" THEN legs[l].amount ELSE 0)
        /\ legs[l].amount \in Nat /\ legs[l].amount > 0
    BY <2>1, <2>2, <1>t, <1>s, MovedSums
  <2>4. CASE legs[l].side = "PAYOUT"
    <3>1. Committed(legs') = Paid(legs') /\ Paid(legs') = payout'
      BY DEF SettledAsIs, Settled
    <3> QED BY <3>1, <2>1, <2>3, <2>4, <1>r, <1>t
  <2>5. CASE legs[l].side # "PAYOUT"
    BY <2>1, <2>3, <2>5, <1>k, <1>r
  <2> QED BY <2>4, <2>5
<1>9. ASSUME NEW l \in LegIds, FailPayoutLeg(l)  PROVE FALSE
  BY <1>9 DEF FailPayoutLeg, SettledAsIs, hold
<1>10. ASSUME NEW l \in LegIds, NEW a \in Amounts, CreateRefundLeg(l, a)  PROVE FALSE
  <2>1. /\ Insert(l, "UNWIND", a, "PENDING") /\ state' = state
        /\ cases' = cases /\ UNCHANGED <<payout, receivable>>
    BY <1>10 DEF CreateRefundLeg
  <2>2. /\ Received(legs') = Received(legs) /\ Paid(legs') = Paid(legs)
        /\ ExcessReturned(legs') = ExcessReturned(legs)
        /\ Committed(legs') = Committed(legs) + 0
    BY <2>1, <1>t, <1>s, InsertSums
  <2> QED BY <2>1, <2>2, <1>k, <1>r
<1>11. ASSUME NEW l \in LegIds, NEW a \in Amounts, RefundExcess(l, a)  PROVE FALSE
  BY <1>11, <1>n, <1>t, TransitionStates DEF RefundExcess, AdvancedStep
<1>12. ASSUME NEW l \in LegIds, ConfirmRefundLeg(l)  PROVE FALSE
  <2>1. /\ legs' = Moved(l, "COMPLETED") /\ legs[l].side \in Refunds
        /\ legs[l].status \in {"PENDING", "PROCESSING"}
        /\ cases' = cases /\ UNCHANGED <<payout, receivable>>
    BY <1>12 DEF ConfirmRefundLeg
  <2>2. CASE legs[l].side = "EXCESS"
    BY <1>12, <1>n, <2>2, <1>t, TransitionStates DEF ConfirmRefundLeg, AdvancedStep
  <2>3. CASE legs[l].side = "UNWIND"
    <3>1. state' = state  BY <1>12, <2>3, <1>t, TransitionStates DEF ConfirmRefundLeg
    <3>2. /\ Received(legs') = Received(legs) + 0 /\ Paid(legs') = Paid(legs) + 0
          /\ ExcessReturned(legs') = ExcessReturned(legs) + 0
          /\ Committed(legs') = Committed(legs) - 0
      BY <2>1, <2>3, <1>t, <1>s, MovedSums
    <3> QED BY <2>1, <3>1, <3>2, <1>k, <1>r
  <2> QED BY <2>1, <2>2, <2>3, <1>s
<1>13. ASSUME CancelTrade \/ RefundAndCancel  PROVE FALSE
  BY <1>13, <1>t, TransitionStates DEF CancelTrade, RefundAndCancel
<1>14. ASSUME NEW c \in cases, CloseException(c)  PROVE FALSE
  BY <1>14, <1>n, <1>t, TransitionStates DEF CloseException, AdvancedStep
<1>15. ASSUME NEW p \in Terms, NEW r \in Terms, ApproveAdjustment(p, r)  PROVE FALSE
  BY <1>15, <1>n, <1>t, TransitionStates DEF ApproveAdjustment, AdvancedStep
<1>16. ASSUME OpenException  PROVE FALSE
  BY <1>16 DEF OpenException, SettledAsIs, hold
<1>17. ASSUME AttributeDeposit \/ RouteAllocates \/ UNCHANGED vars  PROVE FALSE
  <2>1. UNCHANGED <<state, cases, legs, payout, receivable>>
    BY <1>17 DEF AttributeDeposit, RouteAllocates, vars
  <2> QED BY <2>1, <1>k
<1>18. CASE \E l \in LegIds : LegCommand(l)
  <2>1. PICK l \in LegIds : LegCommand(l)  BY <1>18
  <2> QED BY <2>1, <1>1, <1>2, <1>3, <1>4, <1>5, <1>6, <1>7, <1>8, <1>9, <1>10, <1>11, <1>12
          DEF LegCommand
<1> QED BY <1>13, <1>14, <1>15, <1>16, <1>17, <1>18 DEF Next

\* H2: a trade paid in full, with the client's side settled and nothing on hold, is
\* never left open, whichever command was the last to touch it.
THEOREM SettledTradeCompletesHolds == Spec => []SettledTradeCompletes
<1>1. Init => SettledTradeCompletes  BY DEF Init, SettledTradeCompletes
<1>2. TypeOK /\ Separation /\ Bounds /\ SettledTradeCompletes /\ [Next]_vars
        => SettledTradeCompletes'
  BY SettledNext
<1> QED BY <1>1, <1>2, TypeCorrect, SeparationInvariant, BoundsInvariant, PTL DEF Spec
-----------------------------------------------------------------------------
(* What has ended stays as it ended. *)

\* No command takes a trade out of a final state.
LEMMA TerminalStays ==
  ASSUME TypeOK, [Next]_vars, state \in Terminal
  PROVE  state' = state
<1>1. ALLOWED["COMPLETED"] = {} /\ ALLOWED["CANCELLED"] = {}  BY DEF ALLOWED, States
<1>2. \A to : Transition(to) => state' = state
  BY <1>1 DEF Transition, Terminal
<1>3. ASSUME NEW l \in LegIds, LegCommand(l)  PROVE state' = state
  BY <1>3, <1>2
     DEF LegCommand, RecordClientInr, RecordClientDeposit, ConfirmClientLeg, RevertClientLeg,
         CreatePayoutLeg, SendPayoutLeg, ConfirmPayoutLeg, CancelPayoutLeg, FailPayoutLeg,
         CreateRefundLeg, RefundExcess, ConfirmRefundLeg
<1> QED BY <1>2, <1>3
        DEF Next, AttributeDeposit, CancelTrade, RefundAndCancel, OpenException,
            CloseException, ApproveAdjustment, RouteAllocates, vars

\* A completed trade has paid all it owes, and no later command changes either.
CompletedIsPaid == state = "COMPLETED" => Paid(legs) = payout

\* Every command keeps a completed trade paid in full.
LEMMA CompletedNext == TypeOK /\ Bounds /\ CompletedIsPaid /\ [Next]_vars => CompletedIsPaid'
<1> SUFFICES ASSUME TypeOK, Bounds, CompletedIsPaid, [Next]_vars, state' = "COMPLETED"
             PROVE  Paid(legs') = payout'
  BY DEF CompletedIsPaid
<1>t. legs \in Rows /\ payout \in Nat  BY TermsAreNat DEF TypeOK, Rows
<1>b. legs' \in Rows /\ Committed(legs') <= payout' /\ payout' \in Nat
  BY TypeNext, BoundsNext, TermsAreNat DEF TypeOK, Rows, Bounds, PayoutsWithinObligation
<1>r. /\ Paid(legs) \in Nat /\ Paid(legs') \in Nat /\ Committed(legs') \in Nat
      /\ Paid(legs') <= Committed(legs')
  BY <1>t, <1>b, TotalsRelated
<1>1. CASE state # "COMPLETED"
  <2>1. CASE AdvancedStep
    BY <1>1, <2>1, AdvancedMoves DEF AdvancedStep, Settled
  <2> QED BY <1>1, <2>1, StageMoves DEF Settled
<1>2. CASE state = "COMPLETED"
  <2>1. Paid(legs) = payout  BY <1>2 DEF CompletedIsPaid
  <2>2. ASSUME NEW l \in LegIds, NEW a \in Amounts, NEW side \in Sides,
               NEW s \in {"PENDING", "PROCESSING"}, LegAdded(l, side, a, s)
        PROVE  Paid(legs') >= payout'
    BY <2>1, <2>2, <1>t, <1>r, InsertSums DEF LegAdded
  <2>3. ASSUME NEW l \in LegIds, NEW s \in Statuses, LegStep(l, s)
        PROVE  Paid(legs') >= payout'
    BY <2>1, <2>3, <1>t, <1>r, MovedSums DEF LegStep
  <2>4. ASSUME ReleaseCommitments, UNCHANGED <<payout, receivable>>
        PROVE  Paid(legs') >= payout'
    BY <2>1, <2>4, <1>t, <1>r, ReleasedSums
  <2>5. ~TermsWritten  BY <1>2 DEF TermsWritten, Terminal
  <2>6. {"CLIENT", "PAYOUT", "UNWIND", "EXCESS"} \subseteq Sides  BY DEF Sides, Refunds
  <2>7. Paid(legs') >= payout'
    BY <2>1, <2>2, <2>3, <2>4, <2>5, <2>6, <1>t, StepKinds
  <2> QED BY <2>7, <1>b, <1>r
<1> QED BY <1>1, <1>2

\* FI-21, as far as it lasts: a completed trade stays paid in full.
THEOREM CompletedStaysPaid == Spec => []CompletedIsPaid
<1>1. Init => CompletedIsPaid  BY DEF Init, CompletedIsPaid
<1>2. TypeOK /\ Bounds /\ CompletedIsPaid /\ [Next]_vars => CompletedIsPaid'
  BY CompletedNext
<1> QED BY <1>1, <1>2, TypeCorrect, BoundsInvariant, PTL DEF Spec

-----------------------------------------------------------------------------
(* Settlement implements ClientAccount: every command is a step of the
   client's account or leaves it alone.  What ClientAccount promises then
   holds of the trade. *)

\* The promises of ClientAccount follow from its own steps.
Promise ==
  Account!TypeOK /\ Account!NeverOverpaid /\ Account!CancelledIsEven /\ Account!CompletedIsPaid

\* An account is opened within its promise.
LEMMA PromiseInit == Account!Init => Promise
BY TermsAreNat
   DEF Account!Init, Promise, Account!TypeOK, Account!NeverOverpaid,
       Account!CancelledIsEven, Account!CompletedIsPaid

\* Every step of an account keeps its promise.
LEMMA PromiseNext == Promise /\ [Account!Next]_(Account!vars) => Promise'
<1> SUFFICES ASSUME Promise, [Account!Next]_(Account!vars) PROVE Promise'  OBVIOUS
<1> USE DEF Promise, Account!TypeOK, Account!NeverOverpaid, Account!CancelledIsEven,
            Account!CompletedIsPaid, Account!CompletesSettled
<1>n. \A t \in Terms : t \in Nat /\ t > 0  BY TermsAreNat
<1>1. CASE UNCHANGED Account!vars  BY <1>1 DEF Account!vars
<1>2. CASE Account!Next /\ Account!Receive  BY <1>2, <1>n DEF Account!Receive, Account!Next
<1>3. CASE Account!Next /\ Account!Pay  BY <1>3, <1>n DEF Account!Pay, Account!Next
<1>4. CASE Account!Next /\ Account!Unwind  BY <1>4, <1>n DEF Account!Unwind, Account!Next
<1>5. CASE Account!Next /\ Account!ReturnExcess
  BY <1>5, <1>n DEF Account!ReturnExcess, Account!Next
<1>6. CASE Account!Next /\ Account!Adjust  BY <1>6, <1>n DEF Account!Adjust, Account!Next
<1>7. CASE Account!Next /\ Account!Complete
  BY <1>7, <1>n DEF Account!Complete, Account!Next
<1>8. CASE Account!Next /\ Account!Cancel  BY <1>8, <1>n DEF Account!Cancel, Account!Next
<1> QED BY <1>1, <1>2, <1>3, <1>4, <1>5, <1>6, <1>7, <1>8 DEF Account!Next

\* The abstract account never pays or returns more than it took in.
THEOREM PromiseKept == Account!Spec => []Promise
<1> QED BY PromiseInit, PromiseNext, PTL DEF Account!Spec

-----------------------------------------------------------------------------
(* The refinement. *)

\* What the steps of Settlement are shown from.
Reached ==
  /\ TypeOK /\ Separation /\ Bounds /\ CancelledOwesNothing /\ CompletedIsPaid

\* What the proofs established of a reached state holds of the next one.
LEMMA ReachedNext == Reached /\ [Next]_vars => Reached'
BY TypeNext, SeparationNext, BoundsNext, CancelledNext, CompletedNext DEF Reached

\* The initial state of a trade is that of its account.
LEMMA AccountInit == Init => Account!Init
<1> SUFFICES ASSUME Init PROVE Account!Init  OBVIOUS
<1>1. legs \in Rows /\ payout \in Terms /\ receivable \in Terms
  BY TypeInit DEF TypeOK, Rows
<1>2. \A A : LegsOf(legs, A, {"COMPLETED"}) = {}  BY DEF Init, LegsOf, Absent
<1>3. \A A : Total(legs, A, {"COMPLETED"}) = 0  BY <1>1, <1>2, TotalZero
<1>4. Received(legs) = 0 /\ Paid(legs) = 0 /\ Unwound(legs) = 0 /\ ExcessReturned(legs) = 0
  BY <1>3 DEF Received, Paid, Unwound, ExcessReturned
<1>5. state \notin Terminal  BY DEF Init, Terminal
<1> QED BY <1>1, <1>4, <1>5 DEF Account!Init

\* A step that completes a trade completes it settled.
LEMMA CompletesSettledHere ==
  ASSUME Reached, [Next]_vars
  PROVE  Account!CompletesSettled
<1> SUFFICES ASSUME state' = "COMPLETED", state # "COMPLETED"
             PROVE  /\ Paid(legs') = payout' /\ Unwound(legs') = 0
                    /\ Received(legs') - ExcessReturned(legs') = receivable'
  BY DEF Account!CompletesSettled, Terminal
<1>1. Settled(legs', payout', receivable')
  <2>1. CASE AdvancedStep
    BY <2>1, AdvancedMoves DEF AdvancedStep
  <2> QED BY <2>1, StageMoves DEF Reached
<1>2. legs' \in Rows /\ payout' \in Nat /\ payout' > 0 /\ NeverBothWays'
  BY ReachedNext, TermsAreNat DEF Reached, TypeOK, Rows, Separation
<1>3. Paid(legs') > 0 => Unwound(legs') = 0
  BY <1>2, TotalsRelated DEF NeverBothWays
<1> QED BY <1>1, <1>2, <1>3 DEF Settled

\* The four sums of the account, and the terms, are as they were.
Quiet ==
  /\ UNCHANGED <<payout, receivable>>
  /\ Received(legs') = Received(legs) /\ Paid(legs') = Paid(legs)
  /\ Unwound(legs') = Unwound(legs) /\ ExcessReturned(legs') = ExcessReturned(legs)

\* A command that changes no total of money is a stutter of the account.
LEMMA QuietStep ==
  ASSUME Reached, [Next]_vars, Quiet, state' = "CANCELLED" => state = "CANCELLED"
  PROVE  [Account!Next]_(Account!vars)
<1>1. state \in Terminal => state' = state  BY TerminalStays DEF Reached
<1>2. CASE state' = "COMPLETED" /\ state # "COMPLETED"
  <2>1. Account!Complete
    BY <1>1, <1>2 DEF Account!Complete, Quiet, Terminal
  <2> QED BY <2>1, CompletesSettledHere DEF Account!Next
<1>3. CASE ~(state' = "COMPLETED" /\ state # "COMPLETED")
  BY <1>1, <1>3 DEF Account!vars, Quiet, Terminal
<1> QED BY <1>2, <1>3

\* A confirmed leg: one kind of step of the account for each side.
LEMMA ConfirmedStep ==
  ASSUME Reached, [Next]_vars, state # "CANCELLED", state' # "CANCELLED",
         NEW l \in LegIds, LegStep(l, "COMPLETED")
  PROVE  [Account!Next]_(Account!vars)
<1> DEFINE a == legs[l].amount
<1>t. legs \in Rows /\ payout \in Nat /\ payout > 0 /\ receivable \in Nat
  BY TermsAreNat DEF Reached, TypeOK, Rows
<1>p. legs' \in Rows /\ Reached'  BY ReachedNext DEF Reached, TypeOK, Rows
<1>c. Account!CompletesSettled  BY CompletesSettledHere
<1>s. state \in Terminal => state' = state  BY TerminalStays DEF Reached
<1>r. /\ Received(legs) \in Nat /\ Paid(legs) \in Nat /\ Unwound(legs) \in Nat
      /\ ExcessReturned(legs) \in Nat
  BY <1>t, TotalsRelated
<1>q. /\ Received(legs') \in Nat /\ Paid(legs') \in Nat /\ Unwound(legs') \in Nat
      /\ ExcessReturned(legs') \in Nat /\ Committed(legs') \in Nat
      /\ RefundsPlanned(legs') \in Nat /\ ExcessPlanned(legs') \in Nat
      /\ Paid(legs') <= Committed(legs') /\ Committed(legs') <= payout'
      /\ ExcessReturned(legs') <= ExcessPlanned(legs')
      /\ Unwound(legs') + ExcessReturned(legs') <= Received(legs')
  <2>1. /\ RefundsDone(legs') = Unwound(legs') + ExcessReturned(legs')
        /\ RefundsDone(legs') <= RefundsPlanned(legs')
    BY <1>p, TotalsRelated
  <2>2. RefundsPlanned(legs') <= Received(legs') /\ Committed(legs') <= payout'
    BY <1>p DEF Reached, Bounds, RefundsWithinReceived, PayoutsWithinObligation
  <2> QED BY <1>p, <2>1, <2>2, TotalsRelated
<1>b. Paid(legs') > 0 => Unwound(legs') = 0
  BY <1>p, TotalsRelated DEF Reached, Separation, NeverBothWays
<1>d. state = "COMPLETED" => Paid(legs) = payout
  BY DEF Reached, CompletedIsPaid
<1>e. UNCHANGED <<payout, receivable>>  BY DEF LegStep
<1>f. /\ Received(legs') = Received(legs) + (IF legs[l].side = "CLIENT" THEN a ELSE 0)
      /\ Paid(legs') = Paid(legs) + (IF legs[l].side = "PAYOUT" THEN a ELSE 0)
      /\ Unwound(legs') = Unwound(legs) + (IF legs[l].side = "UNWIND" THEN a ELSE 0)
      /\ ExcessReturned(legs') = ExcessReturned(legs)
           + (IF legs[l].side = "EXCESS" THEN a ELSE 0)
      /\ a \in Nat /\ a > 0
  BY <1>t, MovedSums DEF LegStep
<1>1. CASE legs[l].side = "CLIENT"
  <2>1. Account!Receive
    BY <1>1, <1>e, <1>f, <1>q, <1>r, <1>s DEF Account!Receive, Terminal
  <2> QED BY <2>1, <1>c DEF Account!Next
<1>2. CASE legs[l].side = "PAYOUT"
  <2>1. Paid(legs') > Paid(legs) /\ Paid(legs') <= payout /\ Unwound(legs) = 0
    BY <1>2, <1>b, <1>e, <1>f, <1>q, <1>r, <1>t
  <2>2. state # "COMPLETED"  BY <2>1, <1>d, <1>r, <1>q, <1>t
  <2>3. Account!Pay
    BY <1>2, <2>1, <2>2, <1>e, <1>f, <1>q, <1>r DEF Account!Pay, Terminal
  <2> QED BY <2>3, <1>c DEF Account!Next
<1>3. CASE legs[l].side = "UNWIND"
  <2>1. Unwound(legs') > Unwound(legs) /\ Paid(legs) = 0
    BY <1>3, <1>b, <1>f, <1>q, <1>r
  <2>2. state # "COMPLETED"  BY <2>1, <1>d, <1>t
  <2>3. state' # "COMPLETED"
    BY <2>1, <2>2, <1>c, <1>r, <1>q DEF Account!CompletesSettled, Terminal
  <2>4. Account!Unwind
    BY <1>3, <2>1, <2>2, <2>3, <1>e, <1>f, <1>q, <1>r DEF Account!Unwind, Terminal
  <2> QED BY <2>4, <1>c DEF Account!Next
<1>4. CASE legs[l].side = "EXCESS"
  <2>1. ExcessTrigger(legs')  BY <1>4 DEF LegStep, Refunds
  <2>2. ExcessPlanned(legs') <= (IF Received(legs') > receivable'
                                 THEN Received(legs') - receivable' ELSE 0)
    BY <2>1, <1>e DEF ExcessTrigger
  <2>3. ExcessReturned(legs') > 0  BY <1>4, <1>f, <1>r
  <2>4. ExcessReturned(legs') <= Received(legs') - receivable
    BY <2>2, <2>3, <1>e, <1>q, <1>t
  <2>5. Account!ReturnExcess
    BY <1>4, <2>4, <1>e, <1>f, <1>q, <1>r, <1>s DEF Account!ReturnExcess, Terminal
  <2> QED BY <2>5, <1>c DEF Account!Next
<1>5. legs[l].side \in {"CLIENT", "PAYOUT", "UNWIND", "EXCESS"}
  BY <1>t, RowFacts DEF Sides, Refunds
<1> QED BY <1>1, <1>2, <1>3, <1>4, <1>5

\* Every command of a trade is a step of its account or a stutter.
LEMMA AccountNext == Reached /\ [Next]_vars => [Account!Next]_(Account!vars)
<1> SUFFICES ASSUME Reached, [Next]_vars PROVE [Account!Next]_(Account!vars)  OBVIOUS
<1>t. legs \in Rows /\ payout \in Nat /\ receivable \in Nat
  BY TermsAreNat DEF Reached, TypeOK, Rows
<1>r. /\ Received(legs) \in Nat /\ Paid(legs) \in Nat /\ Unwound(legs) \in Nat
      /\ ExcessReturned(legs) \in Nat /\ Committed(legs) \in Nat
      /\ Paid(legs) <= Committed(legs)
      /\ RefundsDone(legs) = Unwound(legs) + ExcessReturned(legs)
      /\ ~PayoutUnderway(legs) => Paid(legs) = 0
  BY <1>t, TotalsRelated
<1>s. state \in Terminal => state' = state  BY TerminalStays DEF Reached
<1>f. "FAILED" \in Statuses /\ "CLIENT" \in Sides  BY DEF Statuses, Sides
<1>1. CASE state' = "CANCELLED" /\ state # "CANCELLED"
  <2>1. /\ RefundsDone(legs) = Received(legs) /\ ~PayoutUnderway(legs)
        /\ ReleaseCommitments /\ UNCHANGED <<payout, receivable>>
    BY <1>1, CancelsEvenTrades DEF Reached, Bounds
  <2>2. Quiet  BY <2>1, <1>t, ReleasedSums DEF Quiet
  <2>3. Account!Cancel
    BY <1>1, <1>r, <1>s, <2>1, <2>2 DEF Account!Cancel, Quiet, Terminal
  <2>4. Account!CompletesSettled  BY CompletesSettledHere
  <2> QED BY <2>3, <2>4 DEF Account!Next
<1>2. CASE state = "CANCELLED"
  <2>1. UNCHANGED <<payout, receivable>>
    BY <1>2, StepKinds DEF LegAdded, LegStep, TermsWritten, Terminal
  <2>2. /\ Received(legs') = Received(legs) /\ Paid(legs') = Paid(legs)
        /\ Unwound(legs') = Unwound(legs) /\ ExcessReturned(legs') = ExcessReturned(legs)
    <3>1. ASSUME NEW l \in LegIds, NEW a \in Amounts, Insert(l, "CLIENT", a, "PROCESSING")
          PROVE  /\ Received(legs') = Received(legs) /\ Paid(legs') = Paid(legs)
                 /\ Unwound(legs') = Unwound(legs)
                 /\ ExcessReturned(legs') = ExcessReturned(legs)
      BY <3>1, <1>t, <1>f, InsertSums
    <3>2. ASSUME NEW l \in LegIds, legs' = Moved(l, "FAILED"), legs[l].status = "PROCESSING"
          PROVE  /\ Received(legs') = Received(legs) /\ Paid(legs') = Paid(legs)
                 /\ Unwound(legs') = Unwound(legs)
                 /\ ExcessReturned(legs') = ExcessReturned(legs)
      BY <3>2, <1>t, <1>r, <1>f, MovedSums
    <3> QED BY <1>2, <3>1, <3>2, CancelledLegsStay DEF Reached, Separation
  <2> QED BY <1>2, <2>1, <2>2, QuietStep DEF Quiet
<1>3. CASE state # "CANCELLED" /\ state' # "CANCELLED"
  <2>1. CASE UNCHANGED <<legs, payout, receivable>>
    BY <1>3, <2>1, QuietStep DEF Quiet
  <2>2. ASSUME NEW l \in LegIds, NEW a \in Amounts, NEW side \in Sides,
               NEW s \in {"PENDING", "PROCESSING"}, LegAdded(l, side, a, s)
        PROVE  [Account!Next]_(Account!vars)
    <3>1. Quiet  BY <2>2, <1>t, InsertSums DEF LegAdded, Quiet
    <3> QED BY <1>3, <3>1, QuietStep
  <2>3. ASSUME NEW l \in LegIds, NEW s \in Statuses, LegStep(l, s), s # "COMPLETED"
        PROVE  [Account!Next]_(Account!vars)
    <3>1. Quiet  BY <2>3, <1>t, <1>r, MovedSums DEF LegStep, Quiet
    <3> QED BY <1>3, <3>1, QuietStep
  <2>4. ASSUME NEW l \in LegIds, LegStep(l, "COMPLETED")
        PROVE  [Account!Next]_(Account!vars)
    BY <1>3, <2>4, ConfirmedStep
  <2>5. CASE ReleaseCommitments /\ UNCHANGED <<payout, receivable>>
    <3>1. Quiet  BY <2>5, <1>t, ReleasedSums DEF Quiet
    <3> QED BY <1>3, <3>1, QuietStep
  <2>6. CASE TermsWritten
    <3>1. payout' \in Terms /\ receivable' \in Terms /\ payout' \in Nat
      BY ReachedNext, TermsAreNat DEF Reached, TypeOK
    <3>2. Account!Adjust
      BY <1>3, <1>r, <2>6, <3>1 DEF TermsWritten, Account!Adjust, Terminal
    <3>3. Account!CompletesSettled  BY CompletesSettledHere
    <3> QED BY <3>2, <3>3 DEF Account!Next
  <2>7. {"CLIENT", "PAYOUT", "UNWIND", "EXCESS"} \subseteq Sides  BY DEF Sides, Refunds
  <2> QED BY <2>1, <2>2, <2>3, <2>4, <2>5, <2>6, <2>7, StepKinds
<1> QED BY <1>1, <1>2, <1>3

\* Every behaviour of a trade is a behaviour of its client's account.
THEOREM ImplementsAccount == Spec => AccountSpec
<1>1. Init => Account!Init  BY AccountInit
<1>2. Reached /\ [Next]_vars => [Account!Next]_(Account!vars)  BY AccountNext
<1>3. Spec => []Reached
  BY TypeCorrect, SeparationInvariant, BoundsInvariant, CancelledOwesNothingHolds,
     CompletedStaysPaid, PTL DEF Reached
<1> QED BY <1>1, <1>2, <1>3, PTL DEF Spec, AccountSpec, Account!Spec

\* The promise of the account, kept by the trade: never overpaid, never both paid
\* and unwound, even when cancelled, paid in full when completed.
THEOREM PromiseHolds == Spec => []Promise
<1> QED BY ImplementsAccount, PromiseKept, PTL DEF AccountSpec
=============================================================================
