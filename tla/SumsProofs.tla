------------------------------ MODULE SumsProofs ------------------------------
(***************************************************************************)
(* Facts about sums: they are numbers, they add over rows with nothing in  *)
(* common, and they move by what the rows that come and go count.          *)
(***************************************************************************)
EXTENDS Sums, FiniteSetTheorems, FunctionTheorems, TLAPS

\* The interval 1 .. n has n members.
LEMMA UpTo ==
  ASSUME NEW n \in Nat
  PROVE  IsFiniteSet(1 .. n) /\ Cardinality(1 .. n) = n
<1>1. CASE n = 0
  <2>1. 1 .. n = {}
    BY <1>1
  <2> QED
    BY <1>1, <2>1, FS_EmptySet
<1>2. CASE n # 0
  <2> DEFINE c == Cardinality(1 .. n)
  <2>1. 1 \in Int /\ n \in Int
    OBVIOUS
  <2>2. IsFiniteSet(1 .. n) /\ c = IF 1 > n THEN 0 ELSE n - 1 + 1
    BY <2>1, FS_Interval, Zenon
  <2> HIDE DEF c
  <2>3. c = n
    BY <1>2, <2>2
  <2> QED
    BY <2>2, <2>3 DEF c
<1> QED
  BY <1>1, <1>2

\* The units of one row are as many as its amount.
LEMMA SumOne ==
  ASSUME NEW D, IsFiniteSet(D), NEW amount \in [D -> Nat], NEW r \in D
  PROVE  IsFiniteSet(Units(amount, {r})) /\ Sum(amount, {r}) = amount[r]
<1>1. Units(amount, {r}) = {r} \X (1 .. amount[r])
  BY DEF Units
<1>2. IsFiniteSet({r}) /\ Cardinality({r}) = 1
  BY FS_Singleton
<1>3. amount[r] \in Nat
  OBVIOUS
<1>4. IsFiniteSet(1 .. amount[r]) /\ Cardinality(1 .. amount[r]) = amount[r]
  BY <1>3, UpTo
<1>5. /\ IsFiniteSet({r} \X (1 .. amount[r]))
      /\ Cardinality({r} \X (1 .. amount[r])) = 1 * amount[r]
  BY <1>2, <1>4, FS_Product, SMTT(30)
<1>6. 1 * amount[r] = amount[r]
  BY <1>3
<1>7. Cardinality({r} \X (1 .. amount[r])) = amount[r]
  BY <1>5, <1>6, Zenon
<1> QED
  BY <1>1, <1>5, <1>7, Zenon DEF Sum

\* A sum counts a finite set.
LEMMA SumNat ==
  ASSUME NEW D, IsFiniteSet(D), NEW amount \in [D -> Nat], NEW S \in SUBSET D
  PROVE  IsFiniteSet(Units(amount, S)) /\ Sum(amount, S) \in Nat
<1> DEFINE T == {{r} \X (1 .. amount[r]) : r \in S}
           f == [r \in S |-> {r} \X (1 .. amount[r])]
<1>1. IsFiniteSet(S)
  BY FS_Subset
<1>2. f \in Surjection(S, T)
  BY DEF Surjection
<1>3. IsFiniteSet(T)
  <2> HIDE DEF T, f
  <2> QED
    BY <1>1, <1>2, FS_Surjection
<1>4. ASSUME NEW t \in T PROVE IsFiniteSet(t)
  <2>1. PICK r \in S : t = {r} \X (1 .. amount[r])
    OBVIOUS
  <2>2. r \in D
    OBVIOUS
  <2>3. Units(amount, {r}) = {r} \X (1 .. amount[r])
    BY DEF Units
  <2> QED
    BY <2>1, <2>2, <2>3, SumOne
<1>5. Units(amount, S) = UNION T
  BY DEF Units
<1>6. IsFiniteSet(UNION T)
  <2> HIDE DEF T
  <2> QED
    BY <1>3, <1>4, FS_UNION
<1> QED
  BY <1>5, <1>6, FS_CardinalityType DEF Sum

\* Two sets of rows with nothing in common count one beside the other.
LEMMA SumApart ==
  ASSUME NEW D, IsFiniteSet(D), NEW amount \in [D -> Nat],
         NEW S \in SUBSET D, NEW R \in SUBSET D, S \cap R = {}
  PROVE  Sum(amount, S \cup R) = Sum(amount, S) + Sum(amount, R)
<1> DEFINE U == Units(amount, S)
           V == Units(amount, R)
<1>1. IsFiniteSet(U) /\ IsFiniteSet(V) /\ Cardinality(U) \in Nat /\ Cardinality(V) \in Nat
  BY SumNat DEF Sum
<1>2. Units(amount, S \cup R) = U \cup V
  BY DEF Units
<1>3. U \cap V = {}
  <2> SUFFICES ASSUME NEW u \in U, u \in V PROVE FALSE
    OBVIOUS
  <2>1. PICK r \in S : u \in {r} \X (1 .. amount[r])
    BY DEF Units
  <2>2. PICK q \in R : u \in {q} \X (1 .. amount[q])
    BY DEF Units
  <2> QED
    BY <2>1, <2>2
<1> HIDE DEF U, V
<1>4. Cardinality(U \cup V) = Cardinality(U) + Cardinality(V) - Cardinality(U \cap V)
  BY <1>1, FS_Union
<1>5. Cardinality(U \cap V) = 0
  BY <1>3, FS_EmptySet
<1>6. Cardinality(U \cup V) = Cardinality(U) + Cardinality(V)
  BY <1>1, <1>4, <1>5
<1>7. /\ Sum(amount, S \cup R) = Cardinality(U \cup V)
      /\ Sum(amount, S) = Cardinality(U) /\ Sum(amount, R) = Cardinality(V)
  BY <1>2, Zenon DEF Sum, U, V
<1> QED
  BY <1>6, <1>7, Zenon

\* Only the amounts of the rows that are counted matter.
LEMMA SumSame ==
  ASSUME NEW amount, NEW other, NEW S, \A r \in S : amount[r] = other[r]
  PROVE  Sum(amount, S) = Sum(other, S)
BY DEF Sum, Units

\* No rows add up to nothing.
LEMMA SumEmpty == ASSUME NEW amount PROVE Sum(amount, {}) = 0
BY FS_EmptySet DEF Sum, Units

\* Rows that go and rows that come move a sum by what they count.
LEMMA SumMoved ==
  ASSUME NEW D, IsFiniteSet(D), NEW amount \in [D -> Nat], NEW other \in [D -> Nat],
         NEW stay \in SUBSET D, NEW gone \in SUBSET D, NEW come \in SUBSET D,
         stay \cap gone = {}, stay \cap come = {}, Sum(other, stay) = Sum(amount, stay)
  PROVE  Sum(other, stay \cup come) = Sum(amount, stay \cup gone) - Sum(amount, gone) + Sum(other, come)
<1>1. Sum(amount, stay \cup gone) = Sum(amount, stay) + Sum(amount, gone)
  BY SumApart
<1>2. Sum(other, stay \cup come) = Sum(other, stay) + Sum(other, come)
  BY SumApart
<1>3. Sum(amount, stay) \in Nat /\ Sum(amount, gone) \in Nat /\ Sum(other, come) \in Nat
  BY SumNat
<1>4. Sum(other, stay \cup come) = Sum(amount, stay) + Sum(other, come)
  BY <1>2, Zenon
<1> QED
  BY <1>1, <1>3, <1>4

\* Rows that count nothing can be left out.
LEMMA SumPadded ==
  ASSUME NEW amount, NEW other, NEW S, NEW R, S \subseteq R,
         \A r \in S : amount[r] = other[r], \A r \in R \ S : amount[r] = 0
  PROVE  Sum(amount, R) = Sum(other, S)
<1>1. 1 .. 0 = {}
  OBVIOUS
<1>2. \A r \in R \ S : {r} \X (1 .. amount[r]) = {}
  BY <1>1
<1>3. Units(amount, R) = Units(other, S)
  BY <1>2 DEF Units
<1> QED
  BY <1>3 DEF Sum

\* More rows, and more in each of them, never add up to less.
LEMMA SumBelow ==
  ASSUME NEW D, IsFiniteSet(D), NEW amount \in [D -> Nat], NEW other \in [D -> Nat],
         NEW R \in SUBSET D, NEW S \in SUBSET R, \A r \in S : amount[r] <= other[r]
  PROVE  Sum(amount, S) <= Sum(other, R)
<1>1. IsFiniteSet(Units(other, R))
  BY SumNat
<1>2. ASSUME NEW r \in S PROVE {r} \X (1 .. amount[r]) \subseteq {r} \X (1 .. other[r])
  <2>1. amount[r] \in Nat /\ other[r] \in Nat /\ amount[r] <= other[r]
    OBVIOUS
  <2>2. 1 .. amount[r] \subseteq 1 .. other[r]
    BY <2>1
  <2> QED
    BY <2>2
<1>3. Units(amount, S) \subseteq Units(other, R)
  BY <1>2 DEF Units
<1> QED
  BY <1>1, <1>3, FS_Subset DEF Sum

\* One row of a set counts no more than the whole set.
LEMMA SumOfOne ==
  ASSUME NEW D, IsFiniteSet(D), NEW amount \in [D -> Nat], NEW S \in SUBSET D, NEW r \in S
  PROVE  amount[r] <= Sum(amount, S)
<1>1. r \in D /\ {r} \in SUBSET S
  OBVIOUS
<1>2. Sum(amount, {r}) = amount[r]
  BY <1>1, SumOne
<1>3. \A q \in {r} : amount[q] <= amount[q]
  BY <1>1
<1>4. Sum(amount, {r}) <= Sum(amount, S)
  BY <1>1, <1>3, SumBelow
<1> QED
  BY <1>2, <1>4

\* Sets beside one another, each under its own name.
Pieces(piece, D) == UNION {{d} \X piece[d] : d \in D}

\* Pieces beside one another count together what each of them counts.
LEMMA SumOfPieces ==
  ASSUME NEW D, IsFiniteSet(D), NEW amount \in [D -> Nat], NEW piece,
         \A d \in D : IsFiniteSet(piece[d]) /\ Cardinality(piece[d]) = amount[d]
  PROVE  IsFiniteSet(Pieces(piece, D)) /\ Cardinality(Pieces(piece, D)) = Sum(amount, D)
<1> DEFINE all == Pieces(piece, D)
           U == Units(amount, D)
           count == [d \in D |-> CHOOSE f : f \in Bijection(1 .. amount[d], piece[d])]
           g == [u \in U |-> <<u[1], count[u[1]][u[2]]>>]
<1>1. ASSUME NEW d \in D PROVE count[d] \in Bijection(1 .. amount[d], piece[d])
  <2>1. ExistsBijection(1 .. amount[d], piece[d])
    BY FS_CardinalityType
  <2>2. \E f : f \in Bijection(1 .. amount[d], piece[d])
    BY <2>1 DEF ExistsBijection
  <2> QED
    BY <2>2
<1>2. \A u \in U : u[1] \in D /\ u[2] \in 1 .. amount[u[1]] /\ u = <<u[1], u[2]>>
  BY DEF Units
<1>3. \A d \in D : \A i \in 1 .. amount[d] : <<d, i>> \in U
  BY DEF Units
<1>4. \A d \in D : \A p \in piece[d] : <<d, p>> \in all
  BY DEF Pieces
<1>5. \A a \in all : a[1] \in D /\ a[2] \in piece[a[1]] /\ a = <<a[1], a[2]>>
  BY DEF Pieces
<1> HIDE DEF all, U, count
<1>6. ASSUME NEW d \in D
      PROVE  /\ \A i \in 1 .. amount[d] : count[d][i] \in piece[d]
             /\ \A i, j \in 1 .. amount[d] : count[d][i] = count[d][j] => i = j
             /\ \A p \in piece[d] : \E i \in 1 .. amount[d] : count[d][i] = p
  BY <1>1, Fun_BijectionProperties
<1>7. g \in [U -> all]
  BY <1>2, <1>4, <1>6
<1>8. ASSUME NEW u \in U, NEW v \in U, g[u] = g[v] PROVE u = v
  <2>1. u[1] = v[1] /\ count[u[1]][u[2]] = count[v[1]][v[2]]
    BY <1>8
  <2> QED
    BY <1>2, <1>6, <2>1
<1>9. ASSUME NEW a \in all PROVE \E u \in U : g[u] = a
  <2>1. PICK i \in 1 .. amount[a[1]] : count[a[1]][i] = a[2]
    BY <1>5, <1>6
  <2>2. <<a[1], i>> \in U
    BY <1>3, <1>5
  <2>3. g[<<a[1], i>>] = <<a[1], a[2]>>
    BY <2>1, <2>2
  <2> QED
    BY <1>5, <2>2, <2>3
<1>10. g \in Bijection(U, all)
  <2> HIDE DEF g
  <2> QED
    BY <1>7, <1>8, <1>9, Fun_IsBij
<1>11. ExistsBijection(U, all)
  BY <1>10 DEF ExistsBijection
<1>12. IsFiniteSet(U) /\ Sum(amount, D) = Cardinality(U)
  BY SumNat DEF Sum, U
<1> QED
  BY <1>11, <1>12, FS_Bijection DEF all

\* A table whose rows add up to the totals beside them.
Adds(table, D, E, totals) ==
  /\ table \in [D -> [E -> Nat]] /\ totals \in [D -> Nat]
  /\ \A d \in D : totals[d] = Sum(table[d], E)

\* It adds up to the same by its rows and by its columns.
LEMMA SumExchange ==
  ASSUME NEW D, IsFiniteSet(D), NEW E, IsFiniteSet(E), NEW m, NEW w, NEW across, NEW down,
         Adds(m, D, E, across), Adds(w, E, D, down), \A d \in D, e \in E : w[e][d] = m[d][e]
  PROVE  Sum(across, D) = Sum(down, E)
<1>0. /\ m \in [D -> [E -> Nat]] /\ w \in [E -> [D -> Nat]]
      /\ across \in [D -> Nat] /\ down \in [E -> Nat]
      /\ (\A d \in D : across[d] = Sum(m[d], E)) /\ (\A e \in E : down[e] = Sum(w[e], D))
  BY DEF Adds
<1>a. PICK row : row = [d \in D |-> Units(m[d], E)]
  OBVIOUS
<1>b. PICK column : column = [e \in E |-> Units(w[e], D)]
  OBVIOUS
<1> DEFINE R == Pieces(row, D)
           C == Pieces(column, E)
           g == [r \in R |-> <<r[2][1], <<r[1], r[2][2]>>>>]
<1>1. IsFiniteSet(R) /\ Cardinality(R) = Sum(across, D)
  <2>1. \A d \in D : IsFiniteSet(row[d]) /\ Cardinality(row[d]) = across[d]
    BY <1>0, <1>a, SumNat DEF Sum
  <2> QED
    BY <1>0, <2>1, SumOfPieces
<1>2. IsFiniteSet(C) /\ Cardinality(C) = Sum(down, E)
  <2>1. ASSUME NEW e \in E PROVE IsFiniteSet(column[e]) /\ Cardinality(column[e]) = down[e]
    <3>1. w[e] \in [D -> Nat]
      BY <1>0
    <3> QED
      BY <1>0, <1>b, <3>1, SumNat DEF Sum
  <2> QED
    BY <1>0, <2>1, SumOfPieces
<1>3. \A r \in R : /\ r[1] \in D /\ r[2][1] \in E /\ r[2][2] \in 1 .. m[r[1]][r[2][1]]
                   /\ r = <<r[1], <<r[2][1], r[2][2]>>>>
  BY <1>0, <1>a DEF Units, Pieces
<1>4. \A d \in D, e \in E : \A i \in 1 .. m[d][e] : <<d, <<e, i>>>> \in R /\ <<e, <<d, i>>>> \in C
  <2> SUFFICES ASSUME NEW d \in D, NEW e \in E, NEW i \in 1 .. m[d][e]
               PROVE  <<d, <<e, i>>>> \in R /\ <<e, <<d, i>>>> \in C
    OBVIOUS
  <2>1. <<e, i>> \in row[d] /\ <<d, i>> \in column[e]
    BY <1>0, <1>a, <1>b DEF Units
  <2>2. \A p \in row[d] : <<d, p>> \in R
    BY DEF Pieces
  <2>3. \A p \in column[e] : <<e, p>> \in C
    BY DEF Pieces
  <2> QED
    BY <2>1, <2>2, <2>3
<1>5. \A c \in C : /\ c[1] \in E /\ c[2][1] \in D /\ c[2][2] \in 1 .. m[c[2][1]][c[1]]
                   /\ c = <<c[1], <<c[2][1], c[2][2]>>>>
  BY <1>0, <1>b DEF Units, Pieces
<1> HIDE DEF R, C
<1>6. g \in [R -> C]
  BY <1>3, <1>4
<1>7. ASSUME NEW r \in R, NEW q \in R, g[r] = g[q] PROVE r = q
  <2>1. r[2][1] = q[2][1] /\ r[1] = q[1] /\ r[2][2] = q[2][2]
    BY <1>7
  <2> QED
    BY <1>3, <2>1
<1>8. ASSUME NEW c \in C PROVE \E r \in R : g[r] = c
  <2>1. <<c[2][1], <<c[1], c[2][2]>>>> \in R
    BY <1>4, <1>5
  <2>2. g[<<c[2][1], <<c[1], c[2][2]>>>>] = <<c[1], <<c[2][1], c[2][2]>>>>
    BY <2>1
  <2> QED
    BY <1>5, <2>1, <2>2
<1>9. g \in Bijection(R, C)
  <2> HIDE DEF g
  <2> QED
    BY <1>6, <1>7, <1>8, Fun_IsBij
<1>10. ExistsBijection(R, C)
  BY <1>9 DEF ExistsBijection
<1> QED
  BY <1>1, <1>2, <1>10, FS_Bijection
================================================================================
