----------------------------- MODULE ListingsProofs -----------------------------
(***************************************************************************)
(* Proofs about Listings and MarketStats, for any number of orders, deals, *)
(* prices, watches and requests.                                           *)
(***************************************************************************)
EXTENDS Listings, SequenceTheorems, FiniteSetTheorems, WellFoundedInduction, TLAPS

-----------------------------------------------------------------------------
(* Natural numbers: the least of a set, the greatest of a bounded one, and *)
(* induction on a set.                                                     *)

LEMMA Least ==
  ASSUME NEW X \in SUBSET Nat, X # {}
  PROVE  \E m \in X : \A k \in X : m <= k
<1> DEFINE R == {ss \in Nat \X Nat : ss[1] < ss[2]}
<1>1. OpToRel(<, Nat) = R
  BY Zenon DEF OpToRel
<1>2. IsWellFoundedOn(R, Nat)
  BY <1>1, NatLessThanWellFounded, Zenon
<1>3. ASSUME NEW a \in Nat, NEW b \in Nat, a < b
      PROVE  <<a, b>> \in R
  BY <1>3
<1> HIDE DEF R
<1>4. PICK m \in X : \A y \in X : ~ (<<y, m>> \in R)
  BY <1>2, WFMin
<1>5. ASSUME NEW k \in X
      PROVE  m <= k
  <2>1. ~ (<<k, m>> \in R)
    BY <1>4
  <2>2. ~ (k < m)
    BY <2>1, <1>3
  <2> QED BY <2>2
<1> QED BY <1>5

LEMMA Greatest ==
  ASSUME NEW n \in Nat, NEW X \in SUBSET (1 .. n), X # {}
  PROVE  \E m \in X : \A k \in X : k <= m
<1> DEFINE Y == {n - x : x \in X}
<1>1. Y \in SUBSET Nat /\ Y # {}
  <2>1. \A x \in X : n - x \in Nat
    OBVIOUS
  <2> QED BY <2>1
<1>2. \A x \in X : n - x \in Y
  OBVIOUS
<1>3. PICK y \in Y : \A k \in Y : y <= k
  BY <1>1, Least
<1>4. PICK m \in X : y = n - m
  OBVIOUS
<1> HIDE DEF Y
<1>5. ASSUME NEW k \in X
      PROVE  k <= m
  <2>1. n - m <= n - k
    BY <1>2, <1>3, <1>4
  <2> QED BY <2>1
<1> QED BY <1>5

LEMMA Inductive ==
  ASSUME NEW X, 0 \in X, \A n \in Nat : n \in X => n + 1 \in X
  PROVE  Nat \subseteq X
<1>1. SUFFICES ASSUME Nat \ X # {} PROVE FALSE
  OBVIOUS
<1>2. PICK m \in Nat \ X : \A k \in Nat \ X : m <= k
  BY <1>1, Least
<1>3. m - 1 \in Nat /\ m - 1 \in X
  BY <1>2
<1> QED BY <1>2, <1>3

-----------------------------------------------------------------------------
(* What InOrder is: a bijection from positions to places, in order. *)

Ahead(I, rank, i) == {j \in I : rank[j] < rank[i] \/ (j < i /\ rank[j] = rank[i])}

Before(rank, i, j) == rank[i] < rank[j] \/ (i < j /\ rank[i] = rank[j])

Ranked(I, rank) == \A i \in I : rank[i] \in Int

LEMMA PlacesFinite ==
  ASSUME NEW n \in Nat, NEW I \in SUBSET (1 .. n)
  PROVE  /\ IsFiniteSet(I) /\ Cardinality(I) \in Nat
         /\ \A J \in SUBSET I : IsFiniteSet(J) /\ Cardinality(J) \in Nat
<1>1. IsFiniteSet(1 .. n)
  BY FS_Interval
<1>2. IsFiniteSet(I)
  BY <1>1, FS_Subset
<1>3. \A J \in SUBSET I : IsFiniteSet(J)
  BY <1>2, FS_Subset
<1> QED BY <1>2, <1>3, FS_CardinalityType

LEMMA AheadCounts ==
  ASSUME NEW n \in Nat, NEW I \in SUBSET (1 .. n), NEW rank, Ranked(I, rank)
  PROVE  /\ \A i \in I : Cardinality(Ahead(I, rank, i)) \in 0 .. Cardinality(I) - 1
         /\ \A i, j \in I : Before(rank, i, j) =>
              Cardinality(Ahead(I, rank, i)) < Cardinality(Ahead(I, rank, j))
<1>1. ASSUME NEW i \in I
      PROVE  /\ Ahead(I, rank, i) \in SUBSET I /\ i \notin Ahead(I, rank, i)
  BY DEF Ahead, Ranked
<1>2. ASSUME NEW i \in I
      PROVE  Cardinality(Ahead(I, rank, i)) \in 0 .. Cardinality(I) - 1
  <2>1. Ahead(I, rank, i) # I
    BY <1>1
  <2>2. Cardinality(Ahead(I, rank, i)) <= Cardinality(I) /\ Cardinality(Ahead(I, rank, i)) # Cardinality(I)
    BY <1>1, <2>1, PlacesFinite, FS_Subset
  <2>3. Cardinality(Ahead(I, rank, i)) \in Nat /\ Cardinality(I) \in Nat
    BY <1>1, PlacesFinite
  <2> QED BY <2>2, <2>3
<1>3. ASSUME NEW i \in I, NEW j \in I, Before(rank, i, j)
      PROVE  Cardinality(Ahead(I, rank, i)) < Cardinality(Ahead(I, rank, j))
  <2> DEFINE A == Ahead(I, rank, i)
             B == Ahead(I, rank, j)
  <2>1. A \subseteq B
    <3>1. SUFFICES ASSUME NEW k \in I, Before(rank, k, i)
                   PROVE  Before(rank, k, j)
      BY DEF Ahead, Before
    <3>2. rank[i] \in Int /\ rank[j] \in Int /\ rank[k] \in Int /\ i \in Int /\ j \in Int /\ k \in Int
      BY DEF Ranked
    <3> QED BY <1>3, <3>1, <3>2 DEF Before
  <2>2. i \in B /\ i \notin A
    BY <1>1, <1>3 DEF Ahead, Before
  <2>3. IsFiniteSet(B) /\ Cardinality(B) \in Nat /\ Cardinality(A) \in Nat
    BY <1>1, PlacesFinite
  <2> HIDE DEF A, B
  <2>4. Cardinality(A) <= Cardinality(B) /\ Cardinality(A) # Cardinality(B)
    BY <2>1, <2>2, <2>3, FS_Subset
  <2>5. Cardinality(A) < Cardinality(B)
    BY <2>3, <2>4
  <2> QED BY <2>5 DEF A, B
<1> QED BY <1>2, <1>3

\* Every position has a place and every place a position; places come in order.
Arrangement(I, rank, p) ==
  /\ p \in [1 .. Cardinality(I) -> I]
  /\ \A i \in I : \E k \in 1 .. Cardinality(I) : p[k] = i
  /\ \A k, l \in 1 .. Cardinality(I) : k < l => Before(rank, p[k], p[l])

LEMMA InOrderArranges ==
  ASSUME NEW n \in Nat, NEW I \in SUBSET (1 .. n), NEW rank, Ranked(I, rank)
  PROVE  Arrangement(I, rank, InOrder(I, rank))
<1> DEFINE c == Cardinality(I)
           f == [i \in I |-> Cardinality(Ahead(I, rank, i))]
           p == InOrder(I, rank)
<1>0. c \in Nat /\ IsFiniteSet(I)
  BY PlacesFinite
<1>1. f \in [I -> 0 .. c - 1]
  BY AheadCounts
<1>2. \A i, j \in I : i # j => Before(rank, i, j) \/ Before(rank, j, i)
  BY DEF Before, Ranked
<1>3. \A i, j \in I : Before(rank, i, j) => f[i] < f[j]
  BY AheadCounts
<1>4. p = [k \in 1 .. c |-> CHOOSE i \in I : f[i] = k - 1]
  BY DEF InOrder, Ahead
<1> HIDE DEF f, p, c
<1>5. \A i, j \in I : f[i] = f[j] => i = j
  BY <1>0, <1>1, <1>2, <1>3
<1>6. f \in Injection(I, 0 .. c - 1)
  BY <1>1, <1>5 DEF Injection, IsInjective
<1>7. IsFiniteSet(0 .. c - 1) /\ Cardinality(0 .. c - 1) = c
  BY <1>0, FS_Interval
<1>8. f \in Surjection(I, 0 .. c - 1)
  BY <1>6, <1>7, FS_Injection DEF c
<1>9. \A m \in 0 .. c - 1 : \E i \in I : f[i] = m
  BY <1>8 DEF Surjection
<1>10. ASSUME NEW k \in 1 .. c
       PROVE  p[k] \in I /\ f[p[k]] = k - 1
  <2>1. \E i \in I : f[i] = k - 1
    BY <1>0, <1>9
  <2>2. p[k] = CHOOSE i \in I : f[i] = k - 1
    BY <1>4
  <2> QED BY <2>1, <2>2
<1>11. p \in [1 .. c -> I]
  BY <1>4, <1>10
<1>12. ASSUME NEW i \in I
       PROVE  \E k \in 1 .. c : p[k] = i
  <2>1. f[i] \in 0 .. c - 1
    BY <1>1
  <2>2. f[i] + 1 \in 1 .. c
    BY <1>0, <2>1
  <2>3. f[p[f[i] + 1]] = f[i]
    BY <1>10, <2>1, <2>2
  <2> QED BY <1>5, <1>10, <2>2, <2>3
<1>13. \A i \in I : f[i] \in Int
  BY <1>0, <1>1
<1>14. ASSUME NEW k \in 1 .. c, NEW l \in 1 .. c, k < l
       PROVE  Before(rank, p[k], p[l])
  <2>1. f[p[k]] < f[p[l]] /\ p[k] \in I /\ p[l] \in I
    BY <1>0, <1>10, <1>14
  <2>2. f[p[k]] \in Int /\ f[p[l]] \in Int
    BY <1>13, <2>1
  <2>3. ~ (f[p[l]] < f[p[k]]) /\ p[k] # p[l]
    BY <2>1, <2>2
  <2>4. ~ Before(rank, p[l], p[k])
    BY <1>3, <2>1, <2>3
  <2> QED BY <1>2, <2>1, <2>3, <2>4
<1> QED BY <1>11, <1>12, <1>14 DEF Arrangement, c, p

-----------------------------------------------------------------------------
(* What filters, sorts and prefixes return. *)

Elements(s) == {s[i] : i \in DOMAIN s}

LEMMA TakenReturns ==
  ASSUME NEW S, NEW s \in Seq(S), NEW I \in SUBSET DOMAIN s, NEW rank, Ranked(I, rank)
  PROVE  /\ Taken(s, I, rank) \in Seq(S)
         /\ Len(Taken(s, I, rank)) = Cardinality(I)
         /\ Cardinality(I) \in Nat
         /\ \A k \in 1 .. Cardinality(I) : Taken(s, I, rank)[k] = s[InOrder(I, rank)[k]]
         /\ Arrangement(I, rank, InOrder(I, rank))
<1> DEFINE p == InOrder(I, rank)
           c == Cardinality(I)
<1>1. Len(s) \in Nat /\ I \in SUBSET (1 .. Len(s)) /\ s \in [1 .. Len(s) -> S]
  OBVIOUS
<1>2. Arrangement(I, rank, p) /\ c \in Nat
  BY <1>1, InOrderArranges, PlacesFinite
<1>3. Taken(s, I, rank) = [k \in 1 .. c |-> s[p[k]]]
  BY DEF Taken
<1> HIDE DEF p, c
<1>4. \A k \in 1 .. c : s[p[k]] \in S
  BY <1>1, <1>2 DEF Arrangement, c
<1>5. [k \in 1 .. c |-> s[p[k]]] \in Seq(S) /\ Len([k \in 1 .. c |-> s[p[k]]]) = c
  BY <1>2, <1>4
<1>6. \A k \in 1 .. c : Taken(s, I, rank)[k] = s[p[k]]
  BY <1>3
<1> QED BY <1>2, <1>3, <1>5, <1>6 DEF p, c

LEMMA TakenElements ==
  ASSUME NEW S, NEW s \in Seq(S), NEW I \in SUBSET DOMAIN s, NEW rank, Ranked(I, rank)
  PROVE  Elements(Taken(s, I, rank)) = {s[i] : i \in I}
<1> DEFINE p == InOrder(I, rank)
           c == Cardinality(I)
           t == Taken(s, I, rank)
<1>1. t \in Seq(S) /\ Len(t) = c /\ c \in Nat /\ \A k \in 1 .. c : t[k] = s[p[k]]
  BY TakenReturns
<1>2. /\ \A k \in 1 .. c : p[k] \in I
      /\ \A i \in I : \E k \in 1 .. c : p[k] = i
  BY TakenReturns DEF Arrangement
<1>3. DOMAIN t = 1 .. c
  BY <1>1
<1> HIDE DEF p, c, t
<1>4. ASSUME NEW k \in DOMAIN t
      PROVE  t[k] \in {s[i] : i \in I}
  BY <1>1, <1>2, <1>3
<1>5. ASSUME NEW i \in I
      PROVE  \E k \in DOMAIN t : t[k] = s[i]
  BY <1>1, <1>2, <1>3
<1>6. Elements(t) = {s[i] : i \in I}
  BY <1>4, <1>5 DEF Elements
<1> QED BY <1>6 DEF t

\* The filter, of whatever test: rank 0 keeps the order.
Zeros(I) == [i \in I |-> 0]

LEMMA KeptReturns ==
  ASSUME NEW S, NEW s \in Seq(S), NEW I \in SUBSET DOMAIN s
  PROVE  /\ Taken(s, I, Zeros(I)) \in Seq(S)
         /\ Len(Taken(s, I, Zeros(I))) = Cardinality(I)
         /\ Cardinality(I) \in Nat
         /\ Elements(Taken(s, I, Zeros(I))) = {s[i] : i \in I}
         /\ \A k \in 1 .. Cardinality(I) :
              /\ InOrder(I, Zeros(I))[k] \in I
              /\ Taken(s, I, Zeros(I))[k] = s[InOrder(I, Zeros(I))[k]]
         /\ \A i \in I : \E k \in 1 .. Cardinality(I) : InOrder(I, Zeros(I))[k] = i
         /\ \A k, l \in 1 .. Cardinality(I) :
              k < l => InOrder(I, Zeros(I))[k] < InOrder(I, Zeros(I))[l]
<1>1. Ranked(I, Zeros(I)) /\ \A i \in I : Zeros(I)[i] = 0
  BY DEF Ranked, Zeros
<1>2. Arrangement(I, Zeros(I), InOrder(I, Zeros(I)))
  BY <1>1, TakenReturns
<1>3. \A k \in 1 .. Cardinality(I) : InOrder(I, Zeros(I))[k] \in I
  BY <1>2 DEF Arrangement
<1>4. \A i \in I : \E k \in 1 .. Cardinality(I) : InOrder(I, Zeros(I))[k] = i
  BY <1>2 DEF Arrangement
<1>5. \A k, l \in 1 .. Cardinality(I) :
        k < l => InOrder(I, Zeros(I))[k] < InOrder(I, Zeros(I))[l]
  BY <1>1, <1>2, <1>3 DEF Arrangement, Before
<1>6. Elements(Taken(s, I, Zeros(I))) = {s[i] : i \in I}
  BY <1>1, TakenElements
<1> QED BY <1>1, <1>3, <1>4, <1>5, <1>6, TakenReturns

LEMMA SortedReturns ==
  ASSUME NEW S, NEW s \in Seq(S), NEW rank, Ranked(DOMAIN s, rank)
  PROVE  /\ Sorted(s, rank) \in Seq(S)
         /\ Len(Sorted(s, rank)) = Len(s)
         /\ Elements(Sorted(s, rank)) = Elements(s)
         /\ \E p \in [1 .. Len(s) -> 1 .. Len(s)] :
              /\ \A k \in 1 .. Len(s) : Sorted(s, rank)[k] = s[p[k]]
              /\ p \in Surjection(1 .. Len(s), 1 .. Len(s))
              /\ \A k, l \in 1 .. Len(s) : k < l => Before(rank, p[k], p[l])
<1>1. DOMAIN s = 1 .. Len(s) /\ Len(s) \in Nat
  OBVIOUS
<1>2. Cardinality(1 .. Len(s)) = Len(s)
  BY <1>1, FS_Interval
<1>3. Cardinality(DOMAIN s) = Len(s)
  BY <1>1, <1>2
<1>4. Elements(Sorted(s, rank)) = Elements(s)
  <2>1. Elements(Taken(s, DOMAIN s, rank)) = {s[i] : i \in DOMAIN s}
    BY TakenElements
  <2>2. {s[i] : i \in DOMAIN s} = Elements(s)
    BY DEF Elements
  <2> QED BY <2>1, <2>2 DEF Sorted
<1> DEFINE p == InOrder(DOMAIN s, rank)
           t == Sorted(s, rank)
<1>5. t \in Seq(S) /\ Len(t) = Len(s) /\ \A k \in 1 .. Len(s) : t[k] = s[p[k]]
  BY <1>3, TakenReturns DEF Sorted
<1>6. Arrangement(DOMAIN s, rank, p)
  BY TakenReturns
<1> HIDE DEF p, t
<1>7. p \in [1 .. Len(s) -> 1 .. Len(s)]
  BY <1>1, <1>3, <1>6 DEF Arrangement
<1>8. \A k, l \in 1 .. Len(s) : k < l => Before(rank, p[k], p[l])
  BY <1>1, <1>3, <1>6 DEF Arrangement
<1>9. p \in Surjection(1 .. Len(s), 1 .. Len(s))
  <2>1. \A i \in 1 .. Len(s) : \E k \in 1 .. Len(s) : p[k] = i
    BY <1>1, <1>3, <1>6 DEF Arrangement
  <2> QED BY <1>7, <2>1 DEF Surjection
<1> QED BY <1>4, <1>5, <1>7, <1>8, <1>9 DEF t

LEMMA FirstReturns ==
  ASSUME NEW S, NEW s \in Seq(S), NEW n \in Nat
  PROVE  /\ First(s, n) \in Seq(S)
         /\ Len(First(s, n)) = Lesser(n, Len(s))
         /\ Lesser(n, Len(s)) \in Nat /\ Lesser(n, Len(s)) <= Len(s)
         /\ \A k \in 1 .. Lesser(n, Len(s)) : First(s, n)[k] = s[k]
<1>1. Len(s) \in Nat /\ Lesser(n, Len(s)) \in Nat /\ Lesser(n, Len(s)) <= Len(s)
  BY DEF Lesser
<1>2. \A i \in 1 .. Lesser(n, Len(s)) : s[i] \in S
  BY <1>1
<1> QED BY <1>1, <1>2, SubSeqProperties DEF First

-----------------------------------------------------------------------------
(* Orders. *)

Order == [side : Sides, maker : Makers, price : Nat, remaining : Nat, event : Nat,
          fresh : BOOLEAN]

\* Requests hide no more than they asked for, and leave at most as many shares as
\* the last event, unless one of them has given shares back.
Consistent(order, hidden, back) ==
  /\ order.event - hidden <= order.remaining
  /\ order.remaining <= order.event \/ back

\* What a request has read hides no more than was asked for by now.
Reading(f) ==
  /\ f.order \in 1 .. Len(orders) /\ f.read \in Nat
  /\ orders[f.order].event - asked[f.order] <= f.read

\* An order has no more shares than when the event was handled whose save is
\* under way, unless shares were given back.
Landing(s) ==
  /\ s.order \in 1 .. Len(orders) /\ s.read \in Nat /\ s.left \in Nat
  /\ s.left < orders[s.order].event
  /\ orders[s.order].remaining <= s.read \/ s.order \in raced

OrdersInv ==
  /\ orders \in Seq(Order)
  /\ asked \in Seq(Nat) /\ Len(asked) = Len(orders)
  /\ \A o \in DOMAIN orders : Consistent(orders[o], asked[o], o \in raced)
  /\ fill = [r \in Fills |-> fill[r]]
  /\ \A r \in Fills : fill[r] # NoFill => Reading(fill[r])
  /\ landing # NoSave => Landing(landing)

LEMMA OrderFields ==
  ASSUME NEW x \in Order
  PROVE  /\ x.side \in Sides /\ x.maker \in Makers /\ x.price \in Nat
         /\ x.remaining \in Nat /\ x.event \in Nat /\ x.fresh \in BOOLEAN
BY DEF Order

\* A step that takes shares off an order, asked for or filled, unless it gives
\* some back.
Lowers(x, w, back) == x.event <= w.event /\ (x.remaining <= w.remaining \/ back)

\* One order changes, and what was asked of it.
LEMMA OneOrderMoves ==
  ASSUME OrdersInv, NEW o \in DOMAIN orders, NEW x \in Order, NEW n \in Nat,
         Consistent(x, n, o \in raced'), Lowers(x, orders[o], o \in raced'), asked[o] <= n,
         orders' = [orders EXCEPT ![o] = x], asked' = [asked EXCEPT ![o] = n],
         raced \subseteq raced', raced' \subseteq raced \cup {o},
         fill' = [r \in Fills |-> fill'[r]], \A r \in Fills : fill'[r] \in {fill[r], NoFill},
         landing' = NoSave \/ (landing' = landing /\ x.event = orders[o].event)
  PROVE  OrdersInv'
<1>1. o \in 1 .. Len(orders) /\ o \in 1 .. Len(asked)
  BY DEF OrdersInv
<1>2. /\ orders' \in Seq(Order) /\ Len(orders') = Len(orders)
      /\ \A j \in 1 .. Len(orders) : orders'[j] = IF j = o THEN x ELSE orders[j]
  BY <1>1, ExceptSeq DEF OrdersInv
<1>3. /\ asked' \in Seq(Nat) /\ Len(asked') = Len(asked)
      /\ \A j \in 1 .. Len(asked) : asked'[j] = IF j = o THEN n ELSE asked[j]
  BY <1>1, ExceptSeq DEF OrdersInv
<1>4. ASSUME NEW j \in 1 .. Len(orders)
      PROVE  /\ orders[j].event \in Nat /\ orders'[j].event \in Nat
             /\ orders[j].remaining \in Nat /\ orders'[j].remaining \in Nat
             /\ asked[j] \in Nat /\ asked'[j] \in Nat
             /\ orders'[j].event <= orders[j].event /\ asked[j] <= asked'[j]
             /\ orders'[j].remaining <= orders[j].remaining \/ j \in raced'
             /\ j # o => orders'[j] = orders[j] /\ asked'[j] = asked[j]
  <2>1. orders[j] \in Order /\ orders'[j] \in Order /\ j \in 1 .. Len(asked)
        /\ asked[j] \in Nat /\ asked'[j] \in Nat
    BY <1>2, <1>3 DEF OrdersInv
  <2>2. /\ orders[j].event \in Nat /\ orders'[j].event \in Nat
        /\ orders[j].remaining \in Nat /\ orders'[j].remaining \in Nat
    BY <2>1, OrderFields
  <2>3. CASE j = o
    BY <1>2, <1>3, <2>1, <2>2, <2>3 DEF Lowers
  <2>4. CASE j # o
    BY <1>2, <1>3, <2>1, <2>2, <2>4
  <2> QED BY <2>3, <2>4
<1>5. ASSUME NEW j \in DOMAIN orders'
      PROVE  Consistent(orders'[j], asked'[j], j \in raced')
  <2>1. j \in 1 .. Len(orders) /\ j \in 1 .. Len(asked)
    BY <1>2 DEF OrdersInv
  <2>2. CASE j = o
    BY <1>2, <1>3, <2>1, <2>2
  <2>3. CASE j # o
    BY <1>2, <1>3, <2>1, <2>3 DEF OrdersInv, Consistent
  <2> QED BY <2>2, <2>3
<1>6. ASSUME NEW r \in Fills, fill'[r] # NoFill
      PROVE  Reading(fill[r])'
  <2>1. fill'[r] = fill[r] /\ Reading(fill[r])
    BY <1>6 DEF OrdersInv
  <2> DEFINE j == fill[r].order
             q == fill[r].read
  <2>2. j \in 1 .. Len(orders) /\ q \in Nat /\ orders[j].event - asked[j] <= q
    BY <2>1 DEF Reading
  <2> HIDE DEF j, q
  <2>3. orders'[j].event - asked'[j] <= q
    BY <1>4, <2>2
  <2> QED BY <1>2, <2>1, <2>2, <2>3 DEF Reading, j, q
<1>7. ASSUME landing' # NoSave
      PROVE  Landing(landing)'
  <2>1. landing' = landing /\ x.event = orders[o].event /\ Landing(landing)
    BY <1>7 DEF OrdersInv
  <2> DEFINE j == landing.order
  <2>2. /\ j \in 1 .. Len(orders) /\ landing.read \in Nat /\ landing.left \in Nat
        /\ landing.left < orders[j].event
        /\ orders[j].remaining <= landing.read \/ j \in raced
    BY <2>1 DEF Landing
  <2>3. orders'[j].event = orders[j].event
    BY <1>2, <2>1, <2>2
  <2> HIDE DEF j
  <2>4. orders'[j].remaining <= landing.read \/ j \in raced'
    BY <1>4, <2>2
  <2> QED BY <1>2, <2>1, <2>2, <2>3, <2>4 DEF Landing, j
<1> QED BY <1>2, <1>3, <1>5, <1>6, <1>7 DEF OrdersInv

LEMMA PostKeeps ==
  ASSUME OrdersInv, NEW side \in Sides, NEW maker \in Makers, NEW price \in Prices,
         NEW shares \in 1 .. MaxShares, PostOrder(side, maker, price, shares)
  PROVE  OrdersInv'
<1> DEFINE x == NewOrder(side, maker, price, shares)
<1>1. x \in Order /\ \A back : Consistent(x, 0, back)
  BY StatsAssumption, ListingAssumption DEF NewOrder, Order, Consistent
<1>2. orders' = Append(orders, x) /\ asked' = Append(asked, 0) /\ UNCHANGED fills
  BY DEF PostOrder
<1> HIDE DEF x
<1>3. /\ orders' \in Seq(Order) /\ Len(orders') = Len(orders) + 1
      /\ \A j \in 1 .. Len(orders) : orders'[j] = orders[j]
      /\ orders'[Len(orders) + 1] = x
  BY <1>1, <1>2, AppendProperties DEF OrdersInv
<1>4. /\ asked' \in Seq(Nat) /\ Len(asked') = Len(asked) + 1
      /\ \A j \in 1 .. Len(asked) : asked'[j] = asked[j]
      /\ asked'[Len(asked) + 1] = 0
  BY <1>2, AppendProperties DEF OrdersInv
<1>5. ASSUME NEW j \in DOMAIN orders'
      PROVE  Consistent(orders'[j], asked'[j], j \in raced')
  <2>1. Len(orders) \in Nat /\ Len(asked) = Len(orders) /\ j \in 1 .. Len(orders) + 1
    BY <1>3 DEF OrdersInv
  <2>2. CASE j = Len(orders) + 1
    BY <1>1, <1>3, <1>4, <2>1, <2>2
  <2>3. CASE j # Len(orders) + 1
    BY <1>2, <1>3, <1>4, <2>1, <2>3 DEF OrdersInv, fills
  <2> QED BY <2>2, <2>3
<1>6. Len(orders) \in Nat /\ Len(asked) = Len(orders)
  BY DEF OrdersInv
<1>7. \A r \in Fills : fill[r] # NoFill => Reading(fill[r])'
  BY <1>2, <1>3, <1>4, <1>6 DEF OrdersInv, Reading, fills
<1>8. landing # NoSave => Landing(landing)'
  BY <1>2, <1>3, <1>6 DEF OrdersInv, Landing, fills
<1> QED BY <1>2, <1>3, <1>4, <1>5, <1>6, <1>7, <1>8 DEF OrdersInv, fills

LEMMA FillReadKeeps ==
  ASSUME OrdersInv, NEW r \in Fills, NEW o \in DOMAIN orders, FillRead(r, o)
  PROVE  OrdersInv'
<1> DEFINE f == [order |-> o, read |-> orders[o].remaining]
<1>1. /\ UNCHANGED <<orders, asked, raced, landing>> /\ fill' = [fill EXCEPT ![r] = f]
  BY DEF FillRead
<1>2. orders[o] \in Order /\ Consistent(orders[o], asked[o], o \in raced)
  BY DEF OrdersInv
<1>3. orders[o].remaining \in Nat /\ orders[o].event - asked[o] <= orders[o].remaining
  BY <1>2, OrderFields DEF Consistent
<1>4. f.order = o /\ f.read = orders[o].remaining
  OBVIOUS
<1> HIDE DEF f
<1>5. Reading(f)
  BY <1>3, <1>4 DEF Reading, OrdersInv
<1>6. fill' = [s \in Fills |-> fill'[s]] /\ \A s \in Fills : fill'[s] \in {f, fill[s]}
  BY <1>1 DEF OrdersInv
<1>7. \A s \in Fills : fill'[s] # NoFill => Reading(fill'[s])
  BY <1>5, <1>6 DEF OrdersInv
<1>8. \A g : Reading(g)' <=> Reading(g)
  BY <1>1 DEF Reading
<1>9. Landing(landing)' <=> Landing(landing)
  BY <1>1 DEF Landing
<1> QED BY <1>1, <1>6, <1>7, <1>8, <1>9 DEF OrdersInv

\* A write of n for the shares left, computed from an older document.
LEMMA RacedFacts ==
  ASSUME NEW o, NEW read \in Nat, NEW n \in Nat, orders[o].remaining \in Nat,
         raced' = RacedBy(o, read, n), n <= read
  PROVE  /\ raced \subseteq raced' /\ raced' \subseteq raced \cup {o}
         /\ n <= orders[o].remaining \/ o \in raced'
BY DEF RacedBy

LEMMA AskKeeps ==
  ASSUME OrdersInv, NEW r \in Fills, NEW shares \in 1 .. MaxShares, AskShares(r, shares)
  PROVE  OrdersInv'
<1> DEFINE o == fill[r].order
           read == fill[r].read
           n == LeftFor(read, shares)
           w == orders[o]
           y == [w EXCEPT !.remaining = n]
           x == [y EXCEPT !.fresh = TRUE]
<1>1. fill[r] # NoFill /\ Reading(fill[r])
  BY DEF AskShares, OrdersInv
<1>2. /\ orders' = [orders EXCEPT ![o] = x] /\ asked' = [asked EXCEPT ![o] = asked[o] + shares]
      /\ raced' = RacedBy(o, read, n) /\ landing' = landing
      /\ fill' = [fill EXCEPT ![r] = NoFill]
  BY DEF AskShares
<1>3. /\ o \in DOMAIN orders /\ read \in Nat /\ w.event - asked[o] <= read
      /\ w \in Order /\ asked[o] \in Nat /\ Consistent(w, asked[o], o \in raced)
  BY <1>1 DEF OrdersInv, Reading
<1>0. shares \in Nat
  BY ListingAssumption
<1>4. w.remaining \in Nat /\ w.event \in Nat
  BY <1>3, OrderFields
<1>5. n \in Nat /\ n <= read /\ read - shares <= n
  BY <1>0, <1>3 DEF LeftFor, Atleast0
<1>6. /\ raced \subseteq raced' /\ raced' \subseteq raced \cup {o}
      /\ n <= w.remaining \/ o \in raced'
  <2> HIDE DEF n, read, o
  <2> QED BY <1>2, <1>3, <1>4, <1>5, RacedFacts DEF w
<1>7. fill' = [s \in Fills |-> fill'[s]] /\ \A s \in Fills : fill'[s] \in {fill[s], NoFill}
  BY <1>2 DEF OrdersInv
<1> HIDE DEF n, read, o
<1>8. y \in Order
  BY <1>3, <1>5 DEF Order
<1>9. x \in Order
  BY <1>8 DEF Order
<1>10. x.remaining = n /\ x.event = w.event
  BY <1>3 DEF Order
<1> HIDE DEF x, y
<1>11. asked[o] + shares \in Nat /\ asked[o] <= asked[o] + shares
  BY <1>0, <1>3
<1>12. Lowers(x, w, o \in raced')
  BY <1>4, <1>6, <1>10 DEF Lowers
<1>13. Consistent(x, asked[o] + shares, o \in raced')
  BY <1>0, <1>3, <1>4, <1>5, <1>6, <1>10 DEF Consistent
<1> HIDE DEF w
<1> QED BY <1>2, <1>3, <1>6, <1>7, <1>9, <1>10, <1>11, <1>12, <1>13, OneOrderMoves DEF w

LEMMA FilledKeeps ==
  ASSUME OrdersInv, NEW o \in DOMAIN orders, NEW left \in 0 .. MaxShares,
         OrderFilled(o, left)
  PROVE  OrdersInv'
<1>0. PICK s : s = [order |-> o, read |-> orders[o].remaining, left |-> left]
  OBVIOUS
<1>1. /\ UNCHANGED <<orders, asked, raced, fill>> /\ landing' = s /\ left < orders[o].event
  BY <1>0 DEF OrderFilled
<1>2. orders[o] \in Order /\ left \in Nat
  BY ListingAssumption DEF OrdersInv
<1>3. orders[o].remaining \in Nat
  BY <1>2, OrderFields
<1>4. s.order = o /\ s.read = orders[o].remaining /\ s.left = left
  BY <1>0
<1>5. Landing(s)
  BY <1>1, <1>2, <1>3, <1>4 DEF Landing, OrdersInv
<1>6. Landing(s)' <=> Landing(s)
  BY <1>1 DEF Landing
<1>7. \A g : Reading(g)' <=> Reading(g)
  BY <1>1 DEF Reading
<1>8. landing' # NoSave => Landing(landing)'
  BY <1>1, <1>5, <1>6 DEF Landing
<1>9. \A r \in Fills : fill'[r] # NoFill => Reading(fill[r])'
  BY <1>1, <1>7 DEF OrdersInv, Reading
<1> QED BY <1>1, <1>8, <1>9 DEF OrdersInv

LEMMA SavedKeeps ==
  ASSUME OrdersInv, FilledSaved
  PROVE  OrdersInv'
<1> DEFINE o == landing.order
           read == landing.read
           left == landing.left
           w == orders[o]
           n == IF left < read THEN left ELSE w.remaining
           y == [w EXCEPT !.event = left]
           x == [y EXCEPT !.remaining = n]
<1>1. landing # NoSave /\ Landing(landing)
  BY DEF FilledSaved, OrdersInv
<1>2. /\ o \in DOMAIN orders /\ read \in Nat /\ left \in Nat /\ left < w.event
      /\ w.remaining <= read \/ o \in raced
      /\ w \in Order /\ asked[o] \in Nat /\ Consistent(w, asked[o], o \in raced)
  BY <1>1 DEF OrdersInv, Landing
<1>3. w.remaining \in Nat /\ w.event \in Nat
  BY <1>2, OrderFields
<1>4. w.event - asked[o] <= w.remaining
  BY <1>2 DEF Consistent
<1>5. /\ orders' = [orders EXCEPT ![o] = AfterFill(w, read, left)]
      /\ raced' = IF left < read THEN RacedBy(o, read, left) ELSE raced
      /\ landing' = NoSave /\ UNCHANGED <<fill, asked>>
  BY DEF FilledSaved
<1>6. AfterFill(w, read, left) = x
  BY <1>2 DEF AfterFill, Order
<1>7. /\ raced \subseteq raced' /\ raced' \subseteq raced \cup {o}
      /\ n <= w.remaining \/ o \in raced'
  <2>1. CASE left < read
    <3>1. raced' = RacedBy(o, read, left) /\ left <= read /\ n = left
      BY <1>2, <1>5, <2>1
    <3> HIDE DEF n, read, left, o
    <3> QED BY <1>2, <1>3, <3>1, RacedFacts DEF w
  <2>2. CASE ~ (left < read)
    BY <1>3, <1>5, <2>2
  <2> QED BY <2>1, <2>2
<1>8. n \in Nat /\ left - asked[o] <= n /\ (n <= left \/ o \in raced')
  <2> HIDE DEF w, o, read, left
  <2>1. CASE left < read
    BY <1>2, <2>1
  <2>2. CASE ~ (left < read)
    BY <1>2, <1>3, <1>4, <1>7, <2>2
  <2> QED BY <2>1, <2>2
<1>9. asked' = [asked EXCEPT ![o] = asked[o]] /\ fill' = [r \in Fills |-> fill'[r]]
  BY <1>5 DEF OrdersInv
<1> HIDE DEF n, read, left, o
<1>10. y \in Order
  BY <1>2 DEF Order
<1>11. x \in Order
  BY <1>8, <1>10 DEF Order
<1>12. x.remaining = n /\ x.event = left
  BY <1>2 DEF Order
<1> HIDE DEF x, y
<1>13. Lowers(x, w, o \in raced')
  BY <1>2, <1>3, <1>7, <1>12 DEF Lowers
<1>14. Consistent(x, asked[o], o \in raced')
  BY <1>8, <1>12 DEF Consistent
<1>15. asked[o] <= asked[o]
  BY <1>2
<1> HIDE DEF w
<1> QED BY <1>2, <1>5, <1>6, <1>7, <1>9, <1>11, <1>13, <1>14, <1>15, OneOrderMoves DEF w

LEMMA MinutesKeep ==
  ASSUME OrdersInv, NEW o \in DOMAIN orders, TenMinutes(o)
  PROVE  OrdersInv'
<1> DEFINE w == orders[o]
           x == [w EXCEPT !.fresh = FALSE]
<1>0. w \in Order /\ asked[o] \in Nat /\ Consistent(w, asked[o], o \in raced)
  BY DEF OrdersInv
<1>1. x \in Order
  BY <1>0 DEF Order
<1>2. x.remaining = w.remaining /\ x.event = w.event
  BY <1>0 DEF Order
<1>3. w.remaining \in Nat /\ w.event \in Nat
  BY <1>0, OrderFields
<1>4. /\ orders' = [orders EXCEPT ![o] = x] /\ asked' = [asked EXCEPT ![o] = asked[o]]
      /\ UNCHANGED fills /\ fill' = [r \in Fills |-> fill'[r]]
  BY DEF TenMinutes, OrdersInv, fills
<1> HIDE DEF x, w
<1>5. Consistent(x, asked[o], o \in raced') /\ Lowers(x, w, o \in raced') /\ asked[o] <= asked[o]
  BY <1>0, <1>2, <1>3, <1>4 DEF Consistent, Lowers, fills
<1> QED BY <1>0, <1>1, <1>2, <1>4, <1>5, OneOrderMoves DEF fills, w

LEMMA OrdersStart == Init => OrdersInv
BY DEF Init, OrdersInv

LEMMA OrdersStep == OrdersInv /\ [Next]_allVars => OrdersInv'
<1> SUFFICES ASSUME OrdersInv, [Next]_allVars
             PROVE  OrdersInv'
  OBVIOUS
<1>0. Sizes \subseteq 1 .. MaxShares
  BY ListingAssumption
<1>1. CASE Trade
  BY <1>0, <1>1, PostKeeps, FillReadKeeps, AskKeeps, FilledKeeps, SavedKeeps, MinutesKeep DEF Trade
<1>2. CASE UNCHANGED <<orders, asked, fills>>
  BY <1>2 DEF OrdersInv, Reading, Landing, fills
<1>3. Browse => UNCHANGED <<orders, asked, fills>>
  BY DEF Browse, LoadWatches, ListWatches, ReadPage
<1>4. [Next]_allVars => Trade \/ Browse \/ UNCHANGED listings
  BY DEF Next, allVars
<1> QED BY <1>1, <1>2, <1>3, <1>4 DEF listings

LEMMA OrdersAreConsistent == Spec => []OrdersInv
BY OrdersStart, OrdersStep, PTL DEF Spec

-----------------------------------------------------------------------------
(* Reads of the order book. *)

InBook(x, side) == x.side = side /\ Open(x)

Better(side, x, y) == IF side = "sell" THEN x.price < y.price ELSE x.price > y.price

LEMMA BookReturns ==
  ASSUME orders \in Seq(Order), NEW side \in Sides
  PROVE  /\ Book(side) \in Seq(Order)
         /\ Elements(Book(side)) = {x \in OrderSet : InBook(x, side)}
         /\ \A k, l \in 1 .. Len(Book(side)) :
              k < l => Book(side)[k].price >= Book(side)[l].price
<1> DEFINE I == {i \in DOMAIN orders : orders[i].side = side /\ Open(orders[i])}
           open == Taken(orders, I, Zeros(I))
           rank == [i \in DOMAIN open |-> - open[i].price]
           book == Sorted(open, rank)
<1>1. Book(side) = book
  BY DEF Book, Only, Zeros
<1>2. open \in Seq(Order) /\ Elements(open) = {orders[i] : i \in I}
  BY KeptReturns
<1>3. {orders[i] : i \in I} = {x \in OrderSet : InBook(x, side)}
  BY DEF OrderSet, InBook
<1> HIDE DEF I, open
<1>4. \A i \in DOMAIN open : open[i].price \in Nat /\ rank[i] = - open[i].price
  BY <1>2, OrderFields
<1>5. Ranked(DOMAIN open, rank)
  BY <1>4 DEF Ranked
<1> HIDE DEF rank
<1>6. book \in Seq(Order) /\ Len(book) = Len(open) /\ Elements(book) = Elements(open)
  BY <1>2, <1>5, SortedReturns
<1>7. PICK p \in [1 .. Len(open) -> 1 .. Len(open)] :
        /\ \A k \in 1 .. Len(open) : book[k] = open[p[k]]
        /\ \A k, l \in 1 .. Len(open) : k < l => Before(rank, p[k], p[l])
  BY <1>2, <1>5, SortedReturns
<1> HIDE DEF book
<1>8. ASSUME NEW k \in 1 .. Len(book), NEW l \in 1 .. Len(book), k < l
      PROVE  book[k].price >= book[l].price
  <2>1. p[k] \in DOMAIN open /\ p[l] \in DOMAIN open
    BY <1>2, <1>6, <1>7
  <2>2. rank[p[k]] <= rank[p[l]]
    BY <1>4, <1>6, <1>7, <1>8, <2>1 DEF Before
  <2> QED BY <1>4, <1>6, <1>7, <2>1, <2>2
<1> QED BY <1>1, <1>2, <1>3, <1>6, <1>8

\* What a search finds is the beginning of all that fit, the best first.
LEMMA FindReturns ==
  ASSUME orders \in Seq(Order), NEW side \in Sides, NEW user, NEW n, NEW price
  PROVE  \E all \in Seq(Order) :
           /\ FindOrderToFill(side, user, n, price) = First(all, OrdersCount - 1)
           /\ Elements(all) = {x \in OrderSet : InBook(x, side) /\ Fits(x, user, n, price)}
           /\ \A k, l \in 1 .. Len(all) : k < l => ~ Better(side, all[l], all[k])
<1> DEFINE book == Book(side)
           I == {i \in DOMAIN book : Fits(book[i], user, n, price)}
           fit == Taken(book, I, Zeros(I))
           rank == [i \in DOMAIN fit |-> IF side = "sell" THEN fit[i].price ELSE - fit[i].price]
           all == Sorted(fit, rank)
<1>1. FindOrderToFill(side, user, n, price) = First(all, OrdersCount - 1)
  BY DEF FindOrderToFill, Only, Zeros
<1>2. book \in Seq(Order) /\ Elements(book) = {x \in OrderSet : InBook(x, side)}
  BY BookReturns
<1> HIDE DEF book
<1>3. fit \in Seq(Order) /\ Elements(fit) = {book[i] : i \in I}
  BY <1>2, KeptReturns
<1>4. {book[i] : i \in I} = {x \in Elements(book) : Fits(x, user, n, price)}
  BY DEF Elements
<1> HIDE DEF I, fit
<1>5. \A i \in DOMAIN fit :
        fit[i].price \in Nat /\ rank[i] = IF side = "sell" THEN fit[i].price ELSE - fit[i].price
  BY <1>3, OrderFields
<1>6. Ranked(DOMAIN fit, rank)
  BY <1>5 DEF Ranked
<1> HIDE DEF rank
<1>7. all \in Seq(Order) /\ Len(all) = Len(fit) /\ Elements(all) = Elements(fit)
  BY <1>3, <1>6, SortedReturns
<1>8. PICK p \in [1 .. Len(fit) -> 1 .. Len(fit)] :
        /\ \A k \in 1 .. Len(fit) : all[k] = fit[p[k]]
        /\ \A k, l \in 1 .. Len(fit) : k < l => Before(rank, p[k], p[l])
  BY <1>3, <1>6, SortedReturns
<1> HIDE DEF all
<1>9. ASSUME NEW k \in 1 .. Len(all), NEW l \in 1 .. Len(all), k < l
      PROVE  ~ Better(side, all[l], all[k])
  <2>1. p[k] \in DOMAIN fit /\ p[l] \in DOMAIN fit
    <3>1. DOMAIN fit = 1 .. Len(fit)
      BY <1>3
    <3>2. k \in 1 .. Len(fit) /\ l \in 1 .. Len(fit)
      BY <1>7
    <3> QED BY <1>8, <3>1, <3>2
  <2>2. rank[p[k]] <= rank[p[l]]
    <3>1. rank[p[k]] \in Int /\ rank[p[l]] \in Int
      BY <1>6, <2>1 DEF Ranked
    <3> QED BY <1>7, <1>8, <1>9, <3>1 DEF Before
  <2>3. all[k] = fit[p[k]] /\ all[l] = fit[p[l]]
    BY <1>7, <1>8
  <2>4. all[k].price \in Nat /\ all[l].price \in Nat
    BY <1>5, <2>1, <2>3
  <2>5. CASE side = "sell"
    BY <1>5, <2>1, <2>2, <2>3, <2>4, <2>5 DEF Better
  <2>6. CASE side # "sell"
    <3>1. - all[k].price <= - all[l].price
      BY <1>5, <2>1, <2>2, <2>3, <2>6
    <3> QED BY <2>4, <2>6, <3>1 DEF Better
  <2> QED BY <2>5, <2>6
<1>10. Elements(all) = {x \in OrderSet : InBook(x, side) /\ Fits(x, user, n, price)}
  BY <1>2, <1>3, <1>4, <1>7
<1> QED BY <1>1, <1>7, <1>9, <1>10

LEMMA FoundFill ==
  ASSUME OrdersInv
  PROVE  FoundCanFill
<1> SUFFICES ASSUME NEW side \in Sides, NEW user \in Makers, NEW n \in 1 .. MaxShares,
                    NEW p \in Prices
             PROVE  LET found == FindOrderToFill(side, user, n, p)
                        chosen == {found[i] : i \in DOMAIN found}
                        better(x, y) == IF side = "sell" THEN x.price < y.price ELSE x.price > y.price
                    IN /\ \A x \in chosen : x.maker # user
                       /\ \A o \in DOMAIN orders :
                            orders[o] \in chosen /\ o \notin raced =>
                              orders[o].event >= n /\ Remaining(orders[o]) >= n
                       /\ \A o \in DOMAIN orders :
                            /\ orders[o].side = side /\ orders[o] \notin chosen
                            /\ Fits([orders[o] EXCEPT !.remaining = orders[o].event - asked[o]], user, n, p)
                            => /\ Len(found) = OrdersCount - 1
                               /\ \A y \in chosen : ~ better(orders[o], y)
  BY DEF FoundCanFill
<1> DEFINE found == FindOrderToFill(side, user, n, p)
           chosen == {found[i] : i \in DOMAIN found}
<1>0. orders \in Seq(Order) /\ n \in Nat /\ n > 0 /\ OrdersCount - 1 \in Nat
  BY ListingAssumption DEF OrdersInv
<1>1. PICK all \in Seq(Order) :
        /\ found = First(all, OrdersCount - 1)
        /\ Elements(all) = {x \in OrderSet : InBook(x, side) /\ Fits(x, user, n, p)}
        /\ \A k, l \in 1 .. Len(all) : k < l => ~ Better(side, all[l], all[k])
  BY <1>0, FindReturns
<1> HIDE DEF found
<1>2. /\ found \in Seq(Order) /\ Len(found) = Lesser(OrdersCount - 1, Len(all))
      /\ Len(found) \in Nat /\ Len(found) <= Len(all)
      /\ \A k \in 1 .. Len(found) : found[k] = all[k]
  BY <1>0, <1>1, FirstReturns
<1>3. DOMAIN found = 1 .. Len(found) /\ DOMAIN all = 1 .. Len(all) /\ Len(all) \in Nat
  BY <1>1, <1>2
<1>4. \A x \in chosen : x \in Elements(all) /\ \E k \in 1 .. Len(found) : x = all[k]
  BY <1>2, <1>3 DEF Elements
<1>5. \A k \in 1 .. Len(all) : k <= Len(found) => all[k] \in chosen
  BY <1>2, <1>3
<1> HIDE DEF chosen
<1>6. \A x \in chosen : x.maker # user /\ x.remaining >= n
  BY <1>1, <1>4 DEF Fits
<1>8. ASSUME NEW o \in DOMAIN orders, orders[o] \in chosen, o \notin raced
      PROVE  orders[o].event >= n /\ Remaining(orders[o]) >= n
  <2>1. orders[o] \in Order /\ orders[o].remaining <= orders[o].event
    BY <1>8 DEF OrdersInv, Consistent
  <2>2. orders[o].remaining \in Nat /\ orders[o].event \in Nat
    BY <2>1, OrderFields
  <2> QED BY <1>0, <1>6, <1>8, <2>1, <2>2 DEF Remaining
<1>7. ASSUME NEW o \in DOMAIN orders, orders[o].side = side, orders[o] \notin chosen,
             Fits([orders[o] EXCEPT !.remaining = orders[o].event - asked[o]], user, n, p)
      PROVE  /\ Len(found) = OrdersCount - 1
             /\ \A y \in chosen : ~ Better(side, orders[o], y)
  <2> DEFINE x == orders[o]
             r == x.event - asked[o]
             z == [x EXCEPT !.remaining = r]
  <2>1. x \in Order /\ r <= x.remaining
    BY DEF OrdersInv, Consistent
  <2>2. asked[o] \in Nat /\ x.event \in Nat /\ x.remaining \in Nat /\ r \in Int
    BY <2>1, OrderFields DEF OrdersInv
  <2>3. /\ z.maker = x.maker /\ z.side = x.side /\ z.price = x.price /\ z.remaining = r
    BY <2>1 DEF Order
  <2>4. Fits(z, user, n, p)
    BY <1>7
  <2>5. x.side = side /\ x \notin chosen
    BY <1>7
  <2>0. r <= x.event
    BY <2>2
  <2> HIDE DEF x, z, r
  <2>6. x.remaining >= n /\ x.event >= n
    BY <1>0, <2>0, <2>1, <2>2, <2>3, <2>4 DEF Fits
  <2>7. Fits(x, user, n, p) /\ InBook(x, side)
    BY <1>0, <2>2, <2>3, <2>4, <2>5, <2>6 DEF Fits, InBook, Open
  <2>8. x \in OrderSet
    BY DEF x, OrderSet
  <2>9. PICK l \in 1 .. Len(all) : all[l] = x
    BY <1>1, <1>3, <2>7, <2>8 DEF Elements
  <2>10. l > Len(found)
    BY <1>2, <1>3, <1>5, <2>5, <2>9
  <2>11. Len(found) = OrdersCount - 1
    BY <1>0, <1>2, <1>3, <2>9, <2>10 DEF Lesser
  <2>12. ASSUME NEW y \in chosen
         PROVE  ~ Better(side, x, y)
    <3>1. PICK k \in 1 .. Len(found) : y = all[k]
      BY <1>4
    <3>2. k \in 1 .. Len(all) /\ k < l
      BY <1>2, <1>3, <2>10, <3>1
    <3> QED BY <1>1, <2>9, <3>1, <3>2
  <2> QED BY <2>11, <2>12 DEF x
<1> QED BY <1>6, <1>7, <1>8 DEF chosen, found, Better

\* The orders a request finds have what it asks for by the last event saved, but
\* for those to which a write computed from an old read gave shares back; and an
\* order is passed over only for better ones, or for shares that other requests
\* have asked for; however many orders there are and requests that overlap.
THEOREM FoundOrdersCanFill == Spec => []FoundCanFill
BY OrdersAreConsistent, FoundFill, PTL

\* The orders of a side with as many shares, before the list is cut.
Enough(side, min) == Only(Book(side), LAMBDA x : Remaining(x) >= min)

LEMMA EnoughReturns ==
  ASSUME orders \in Seq(Order), NEW side \in Sides, NEW min
  PROVE  /\ Enough(side, min) \in Seq(Order)
         /\ Elements(Enough(side, min)) =
              {x \in OrderSet : InBook(x, side) /\ Remaining(x) >= min}
         /\ \A k, l \in 1 .. Len(Enough(side, min)) :
              k < l => Enough(side, min)[k].price >= Enough(side, min)[l].price
<1> DEFINE book == Book(side)
           I == {i \in DOMAIN book : Remaining(book[i]) >= min}
           p == InOrder(I, Zeros(I))
           all == Taken(book, I, Zeros(I))
<1>1. Enough(side, min) = all
  BY DEF Enough, Only, Zeros
<1>2. /\ book \in Seq(Order) /\ Elements(book) = {x \in OrderSet : InBook(x, side)}
      /\ \A k, l \in 1 .. Len(book) : k < l => book[k].price >= book[l].price
  BY BookReturns
<1> HIDE DEF book
<1>3. all \in Seq(Order) /\ Len(all) = Cardinality(I) /\ Elements(all) = {book[i] : i \in I}
  BY <1>2, KeptReturns
<1>4. \A k \in 1 .. Cardinality(I) : p[k] \in I /\ all[k] = book[p[k]]
  BY <1>2, KeptReturns
<1>5. \A k, l \in 1 .. Cardinality(I) : k < l => p[k] < p[l]
  BY <1>2, KeptReturns
<1>6. {book[i] : i \in I} = {x \in Elements(book) : Remaining(x) >= min}
  BY DEF Elements
<1>7. I \subseteq 1 .. Len(book)
  BY <1>2
<1> HIDE DEF I, p, all
<1>8. ASSUME NEW k \in 1 .. Len(all), NEW l \in 1 .. Len(all), k < l
      PROVE  all[k].price >= all[l].price
  BY <1>2, <1>3, <1>4, <1>5, <1>7, <1>8
<1> QED BY <1>1, <1>2, <1>3, <1>6, <1>8

LEMMA PricesBest ==
  ASSUME OrdersInv
  PROVE  BestPrices
<1> DEFINE enough(side, min) == {x \in OrderSet : /\ x.side = side /\ Open(x)
                                                  /\ Remaining(x) >= min}
<1> SUFFICES ASSUME NEW min \in 1 .. MaxShares
             PROVE  /\ enough("buy", min) # {} =>
                         /\ \E x \in enough("buy", min) : x.price = BestSellPrice(min)
                         /\ \A x \in enough("buy", min) : x.price <= BestSellPrice(min)
                    /\ Len(Enough("sell", min)) < OrdersCount /\ enough("sell", min) # {} =>
                         /\ \E x \in enough("sell", min) : x.price = BestBuyPrice(min)
                         /\ \A x \in enough("sell", min) : x.price >= BestBuyPrice(min)
  BY DEF BestPrices, Enough
<1>0. /\ orders \in Seq(Order)
      /\ OrdersCount \in Nat /\ OrdersCount - 1 \in Nat /\ OrdersCount - 1 > 0
  BY ListingAssumption DEF OrdersInv
<1>1. ASSUME NEW side \in Sides
      PROVE  /\ Enough(side, min) \in Seq(Order)
             /\ Elements(Enough(side, min)) = enough(side, min)
             /\ \A k, l \in 1 .. Len(Enough(side, min)) :
                  k < l => Enough(side, min)[k].price >= Enough(side, min)[l].price
             /\ Listed(side, min) = First(Enough(side, min), OrdersCount - 1)
  <2>1. Listed(side, min) = First(Enough(side, min), OrdersCount - 1)
    BY DEF Enough, Listed
  <2>2. {x \in OrderSet : InBook(x, side) /\ Remaining(x) >= min} = enough(side, min)
    BY DEF InBook
  <2> HIDE DEF enough
  <2> QED BY <1>0, <2>1, <2>2, EnoughReturns
<1>2. \A side \in Sides : \A x \in enough(side, min) : x.price \in Nat
  BY <1>0, OrderFields DEF OrderSet
<1> HIDE DEF enough
<1>3. ASSUME enough("buy", min) # {}
      PROVE  /\ \E x \in enough("buy", min) : x.price = BestSellPrice(min)
             /\ \A x \in enough("buy", min) : x.price <= BestSellPrice(min)
  <2> DEFINE all == Enough("buy", min)
             buys == Listed("buy", min)
  <2>1. /\ all \in Seq(Order) /\ Elements(all) = enough("buy", min)
        /\ \A k, l \in 1 .. Len(all) : k < l => all[k].price >= all[l].price
        /\ buys = First(all, OrdersCount - 1)
    BY <1>1 DEF Sides
  <2>2. BestSellPrice(min) = IF buys = <<>> THEN One ELSE buys[1].price
    BY DEF BestSellPrice
  <2> HIDE DEF all, buys
  <2>3. Len(all) \in Nat /\ DOMAIN all = 1 .. Len(all) /\ Len(all) > 0
    BY <1>3, <2>1 DEF Elements
  <2>4. /\ buys \in Seq(Order) /\ Len(buys) = Lesser(OrdersCount - 1, Len(all))
        /\ \A k \in 1 .. Lesser(OrdersCount - 1, Len(all)) : buys[k] = all[k]
    BY <1>0, <2>1, FirstReturns
  <2>5. Lesser(OrdersCount - 1, Len(all)) \in Nat \ {0}
    BY <1>0, <2>3 DEF Lesser
  <2>6. buys # <<>> /\ buys[1] = all[1]
    BY <2>4, <2>5
  <2>7. all[1] \in enough("buy", min)
    BY <2>1, <2>3 DEF Elements
  <2>8. ASSUME NEW x \in enough("buy", min)
        PROVE  x.price <= all[1].price
    <3>1. PICK k \in 1 .. Len(all) : x = all[k]
      BY <2>1, <2>3 DEF Elements
    <3>2. x.price \in Nat /\ all[1].price \in Nat
      BY <1>2, <2>7 DEF Sides
    <3> QED BY <2>1, <2>3, <3>1, <3>2
  <2> QED BY <2>2, <2>6, <2>7, <2>8
<1>4. ASSUME Len(Enough("sell", min)) < OrdersCount, enough("sell", min) # {}
      PROVE  /\ \E x \in enough("sell", min) : x.price = BestBuyPrice(min)
             /\ \A x \in enough("sell", min) : x.price >= BestBuyPrice(min)
  <2> DEFINE all == Enough("sell", min)
             sells == Listed("sell", min)
             n == Len(all)
  <2>1. /\ all \in Seq(Order) /\ Elements(all) = enough("sell", min)
        /\ \A k, l \in 1 .. Len(all) : k < l => all[k].price >= all[l].price
        /\ sells = First(all, OrdersCount - 1)
    BY <1>1 DEF Sides
  <2>2. BestBuyPrice(min) = IF sells = <<>> THEN One ELSE sells[Len(sells)].price
    BY DEF BestBuyPrice, Last
  <2>3. n < OrdersCount
    BY <1>4
  <2> HIDE DEF all, sells
  <2>4. n \in Nat /\ DOMAIN all = 1 .. n /\ n > 0
    BY <1>4, <2>1 DEF Elements
  <2>5. Lesser(OrdersCount - 1, n) = n
    BY <1>0, <2>3, <2>4 DEF Lesser
  <2>6. sells \in Seq(Order) /\ Len(sells) = n /\ \A k \in 1 .. n : sells[k] = all[k]
    BY <1>0, <2>1, <2>5, FirstReturns
  <2>7. sells # <<>> /\ sells[Len(sells)] = all[n]
    BY <2>4, <2>6
  <2>8. all[n] \in enough("sell", min)
    BY <2>1, <2>4 DEF Elements
  <2>9. ASSUME NEW x \in enough("sell", min)
        PROVE  x.price >= all[n].price
    <3>1. PICK k \in 1 .. n : x = all[k]
      BY <2>1, <2>4 DEF Elements
    <3>2. x.price \in Nat /\ all[n].price \in Nat
      BY <1>2, <2>8 DEF Sides
    <3> QED BY <2>1, <2>4, <3>1, <3>2
  <2> QED BY <2>2, <2>7, <2>8, <2>9
<1> QED BY <1>3, <1>4

\* The order book says the best price of each side, whatever orders are in it,
\* as long as there are no more to sell than it lists.
THEOREM BestPricesAreBest == Spec => []BestPrices
BY OrdersAreConsistent, PricesBest, PTL

-----------------------------------------------------------------------------
(* The chart. *)

Tick == [at : Nat, price : Nat]

Timely(s) == \A i, j \in DOMAIN s : i < j => s[i].at <= s[j].at

ClockInv == now \in Nat /\ StartTime <= now

ChartInv ==
  /\ chart \in Seq(Tick) /\ Timely(chart)
  /\ \A i \in DOMAIN chart : StartTime <= chart[i].at /\ chart[i].at <= now

LEMMA TickFields ==
  ASSUME NEW x \in Tick
  PROVE  x.at \in Nat /\ x.price \in Nat
BY DEF Tick

LEMMA AtIsTick ==
  ASSUME NEW t \in Nat, NEW p \in Nat
  PROVE  At(t, p) \in Tick /\ At(t, p).at = t /\ At(t, p).price = p
BY DEF Tick, At

\* A tick that is not older than the others is added at the end.
LEMMA TimelyAppend ==
  ASSUME NEW s \in Seq(Tick), Timely(s), NEW x \in Tick,
         \A i \in DOMAIN s : s[i].at <= x.at
  PROVE  Append(s, x) \in Seq(Tick) /\ Timely(Append(s, x))
<1> DEFINE t == Append(s, x)
<1>1. /\ t \in Seq(Tick) /\ Len(t) = Len(s) + 1
      /\ \A i \in 1 .. Len(s) : t[i] = s[i]
      /\ t[Len(s) + 1] = x
  BY AppendProperties
<1>2. Len(s) \in Nat /\ DOMAIN s = 1 .. Len(s) /\ DOMAIN t = 1 .. Len(s) + 1
  BY <1>1
<1> HIDE DEF t
<1>3. ASSUME NEW i \in DOMAIN t, NEW j \in DOMAIN t, i < j
      PROVE  t[i].at <= t[j].at
  <2>1. i \in 1 .. Len(s) /\ t[i] = s[i]
    BY <1>1, <1>2, <1>3
  <2>2. CASE j = Len(s) + 1
    BY <1>1, <1>2, <2>1, <2>2
  <2>3. CASE j # Len(s) + 1
    BY <1>1, <1>2, <1>3, <2>1, <2>3 DEF Timely
  <2> QED BY <2>2, <2>3
<1> QED BY <1>1, <1>3 DEF Timely, t

\* Orders and lists leave the statistics alone.
StatsRest == UNCHANGED <<now, chart, watch, saving, priced, dealt>>

LEMMA StatsMoves == [Next]_allVars => StatsNext \/ StatsRest
<1> SUFFICES ASSUME [Next]_allVars
             PROVE  StatsNext \/ StatsRest
  OBVIOUS
<1>1. CASE Trade
  BY <1>1 DEF Trade, PostOrder, FillRead, AskShares, OrderFilled, FilledSaved, TenMinutes, Apart, StatsRest, stats
<1>2. CASE Browse
  BY <1>2 DEF Browse, LoadWatches, ListWatches, ReadPage, StatsRest, stats
<1>3. CASE UNCHANGED allVars
  BY <1>3 DEF allVars, stats, StatsRest
<1>4. CASE (\E p \in Prices : AddChartTick(p)) \/ AddPrice24
  BY <1>4 DEF StatsNext
<1> QED BY <1>1, <1>2, <1>3, <1>4 DEF Next

LEMMA ClockStep == ClockInv /\ [Next]_allVars => ClockInv'
<1>1. StatsNext => now' = now + 1 \/ now' = now
  <2>1. (\E p \in Prices : AddChartTick(p)) => now' = now
    BY DEF AddChartTick
  <2>2. (\E usd \in Amounts, t \in {now - 1, now} : UpdateDeal(usd, t)) => now' = now
    BY DEF UpdateDeal
  <2> QED BY <2>1, <2>2 DEF StatsNext, Tock, TradeAllowed, AddPrice24, PriceLost
<1>2. [Next]_allVars => now' = now + 1 \/ now' = now
  BY <1>1, StatsMoves DEF StatsRest
<1>3. StartTime \in Nat
  BY StatsAssumption
<1> QED BY <1>2, <1>3 DEF ClockInv

LEMMA ChartStep == ClockInv /\ ChartInv /\ [Next]_allVars => ChartInv'
<1> SUFFICES ASSUME ClockInv, ChartInv, [Next]_allVars
             PROVE  ChartInv'
  OBVIOUS
<1>1. CASE UNCHANGED <<now, chart>>
  BY <1>1 DEF ChartInv, Timely
<1>2. CASE Tock
  <2>1. now' = now + 1 /\ chart' = chart
    BY <1>2 DEF Tock
  <2>2. \A i \in DOMAIN chart : chart[i].at \in Nat
    BY TickFields DEF ChartInv
  <2> QED BY <2>1, <2>2 DEF ChartInv, ClockInv, Timely
<1>3. ASSUME NEW p \in Prices, AddChartTick(p)
      PROVE  ChartInv'
  <2> DEFINE x == At(now, p)
  <2>1. now' = now /\ chart' = Append(chart, x)
    BY <1>3 DEF AddChartTick
  <2>2. x \in Tick /\ x.at = now
    BY AtIsTick, StatsAssumption DEF ClockInv
  <2> HIDE DEF x
  <2>3. chart' \in Seq(Tick) /\ Timely(chart)' /\ chart \in Seq(Tick)
    BY <2>1, <2>2, TimelyAppend DEF ChartInv, Timely
  <2>4. /\ Len(chart') = Len(chart) + 1 /\ Len(chart) \in Nat
        /\ \A i \in 1 .. Len(chart) : chart'[i] = chart[i]
        /\ chart'[Len(chart) + 1] = x
    BY <2>1, <2>2, <2>3, AppendProperties
  <2>5. ASSUME NEW i \in DOMAIN chart'
        PROVE  StartTime <= chart'[i].at /\ chart'[i].at <= now'
    <3>1. i \in 1 .. Len(chart) + 1
      BY <2>3, <2>4
    <3>2. CASE i = Len(chart) + 1
      BY <2>1, <2>2, <2>4, <3>2 DEF ClockInv
    <3>3. CASE i # Len(chart) + 1
      BY <2>1, <2>3, <2>4, <3>1, <3>3 DEF ChartInv
    <3> QED BY <3>2, <3>3
  <2> QED BY <2>3, <2>5 DEF ChartInv
<1>4. [Next]_allVars => \/ Tock \/ (\E p \in Prices : AddChartTick(p))
                        \/ UNCHANGED <<now, chart>>
  BY StatsMoves DEF StatsRest, StatsNext, TradeAllowed, AddPrice24, PriceLost, UpdateDeal
<1> QED BY <1>1, <1>2, <1>3, <1>4

\* The first and the last place that pass a test.
LEMMA FirstAndLast ==
  ASSUME NEW n \in Nat, NEW I \in SUBSET (1 .. n), I # {}
  PROVE  /\ Min(I) \in I /\ \A i \in I : Min(I) <= i
         /\ Max(I) \in I /\ \A i \in I : i <= Max(I)
<1>1. \E m \in I : \A i \in I : m <= i
  <2>1. I \in SUBSET Nat
    OBVIOUS
  <2> QED BY <2>1, Least
<1>2. \E m \in I : \A i \in I : i <= m
  BY Greatest
<1>3. Min(I) \in I /\ \A i \in I : Min(I) <= i
  BY <1>1 DEF Min
<1>4. Max(I) \in I /\ \A i \in I : Max(I) >= i
  BY <1>2 DEF Max
<1> QED BY <1>3, <1>4

LEMMA PriceBefore ==
  ASSUME NEW s \in Seq(Tick), NEW t \in Int, \A i \in DOMAIN s : s[i].at > t
  PROVE  PriceAt(s, t) = One
<1>1. {i \in 1 .. Len(s) : s[i].at <= t} = {}
  <2>1. ASSUME NEW i \in 1 .. Len(s)
        PROVE  ~ (s[i].at <= t)
    <3>1. s[i].at \in Nat /\ s[i].at > t
      BY TickFields
    <3> QED BY <3>1
  <2> QED BY <2>1
<1> QED BY <1>1 DEF PriceAt, SelectLastInSeq

LEMMA PriceSince ==
  ASSUME NEW s \in Seq(Tick), NEW t \in Int, NEW m \in DOMAIN s, s[m].at <= t,
         \A i \in DOMAIN s : m < i => s[i].at > t
  PROVE  PriceAt(s, t) = s[m].price
<1> DEFINE I == {i \in 1 .. Len(s) : s[i].at <= t}
<1>1. Len(s) \in Nat /\ I \in SUBSET (1 .. Len(s)) /\ m \in I
  OBVIOUS
<1>2. \A i \in I : i <= m
  <2>1. \A i \in 1 .. Len(s) : s[i].at \in Nat
    BY TickFields
  <2> QED BY <2>1
<1>3. PriceAt(s, t) = LET i == IF I # {} THEN Max(I) ELSE 0
                      IN IF i = 0 THEN One ELSE s[i].price
  BY DEF PriceAt, SelectLastInSeq
<1> HIDE DEF I
<1>4. Max(I) \in I /\ \A i \in I : i <= Max(I)
  BY <1>1, FirstAndLast
<1>5. Max(I) = m /\ m # 0 /\ I # {}
  BY <1>1, <1>2, <1>4
<1> QED BY <1>3, <1>5

LEMMA FrameStarts ==
  ASSUME ClockInv, NEW frame \in DOMAIN Frames \cup {"all"}
  PROVE  /\ StartOf(frame) \in Int
         /\ StartOf(frame) < now - Gap \/ StartOf(frame) < StartTime
<1>0. /\ now \in Nat /\ StartTime <= now /\ StartTime \in Nat /\ Gap \in Nat
      /\ Day \in Nat /\ Week \in Nat /\ Month \in Nat
      /\ 0 < Gap /\ Gap < Day /\ Day < Week /\ Week < Month /\ Month <= StartTime
  BY StatsAssumption DEF ClockInv
<1>1. DOMAIN Frames = {"day", "week", "month"}
  BY DEF Frames
<1>2. Frames["day"] = Day /\ Frames["week"] = Week /\ Frames["month"] = Month
  BY DEF Frames
<1>3. CASE frame = "all"
  BY <1>0, <1>3 DEF StartOf
<1>4. CASE frame \in {"day", "week", "month"}
  <2>1. StartOf(frame) = now - Frames[frame]
    BY <1>4 DEF StartOf
  <2>2. Frames[frame] \in Nat /\ Gap < Frames[frame]
    BY <1>0, <1>2, <1>4
  <2> QED BY <1>0, <2>1, <2>2
<1> QED BY <1>1, <1>3, <1>4

\* The chart of one frame.
TrueFrom(frame, shown) ==
  LET ticks == {chart[i] : i \in DOMAIN chart}
      points == {shown[i] : i \in DOMAIN shown}
  IN /\ Last(shown) = At(now, IF chart = <<>> THEN One ELSE Last(chart).price)
     /\ {t \in ticks : t.at >= StartOf(frame)} \subseteq points
     /\ \A p \in points : p \in ticks \/ p.price = PriceAt(chart, p.at)

\* Two points that show the price of now.
LEMMA TwoPoints ==
  ASSUME NEW a \in Tick, NEW b \in Tick
  PROVE  /\ <<a, b>> \in Seq(Tick) /\ Last(<<a, b>>) = b
         /\ {<<a, b>>[i] : i \in DOMAIN <<a, b>>} = {a, b}
BY DEF Last

LEMMA StillTrue ==
  ASSUME ClockInv, ChartInv, NEW frame \in DOMAIN Frames \cup {"all"}, NEW still \in Nat,
         still = IF chart = <<>> THEN One ELSE Last(chart).price,
         \A i \in DOMAIN chart : chart[i].at < StartOf(frame)
  PROVE  TrueFrom(frame, <<At(now - Gap, still), At(now, still)>>)
<1> DEFINE ticks == {chart[i] : i \in DOMAIN chart}
           a == At(now - Gap, still)
           b == At(now, still)
           n == Len(chart)
<1>0. /\ now \in Nat /\ now - Gap \in Nat /\ Gap \in Nat /\ StartTime <= now /\ StartTime \in Nat
      /\ chart \in Seq(Tick) /\ n \in Nat /\ DOMAIN chart = 1 .. n
  BY StatsAssumption DEF ClockInv, ChartInv
<1>1. /\ a \in Tick /\ b \in Tick
      /\ a.at = now - Gap /\ b.at = now /\ a.price = still /\ b.price = still
  BY <1>0, AtIsTick
<1>2. \A i \in DOMAIN chart : chart[i].at \in Nat /\ StartTime <= chart[i].at
  BY <1>0, TickFields DEF ChartInv
<1>3. StartOf(frame) \in Int /\ (StartOf(frame) < now - Gap \/ StartOf(frame) < StartTime)
  BY FrameStarts
<1>4. \A i \in DOMAIN chart : chart[i].at <= now - Gap /\ chart[i].at <= now
  BY <1>0, <1>2, <1>3
<1>5. ASSUME NEW t \in {now - Gap, now}
      PROVE  PriceAt(chart, t) = still
  <2>1. CASE chart = <<>>
    <3>1. still = One /\ t \in Int /\ \A i \in DOMAIN chart : chart[i].at > t
      BY <1>0, <2>1
    <3> QED BY <1>0, <3>1, PriceBefore
  <2>2. CASE chart # <<>>
    <3>1. n \in DOMAIN chart /\ still = chart[n].price /\ t \in Int
      BY <1>0, <2>2 DEF Last
    <3>2. chart[n].at <= t
      BY <1>0, <1>2, <1>4, <3>1
    <3>3. \A i \in DOMAIN chart : ~ (n < i)
      BY <1>0
    <3> QED BY <1>0, <3>1, <3>2, <3>3, PriceSince
  <2> QED BY <2>1, <2>2
<1>6. /\ Last(<<a, b>>) = b
      /\ {<<a, b>>[i] : i \in DOMAIN <<a, b>>} = {a, b}
  BY <1>1, TwoPoints
<1>7. {t \in ticks : t.at >= StartOf(frame)} = {}
  <2>1. \A t \in ticks : ~ (t.at >= StartOf(frame))
    BY <1>2, <1>3
  <2> QED BY <2>1
<1>8. \A p \in {a, b} : p.price = PriceAt(chart, p.at)
  BY <1>1, <1>5
<1> HIDE DEF a, b, ticks
<1>9. b = At(now, IF chart = <<>> THEN One ELSE Last(chart).price)
  BY DEF b
<1>10. TrueFrom(frame, <<a, b>>)
  BY <1>6, <1>7, <1>8, <1>9 DEF TrueFrom, ticks
<1> QED BY <1>10 DEF a, b

LEMMA EmptyChartTrue ==
  ASSUME ClockInv, NEW frame \in DOMAIN Frames \cup {"all"}, chart = <<>>
  PROVE  TrueFrom(frame, <<At(now - Gap, One), At(now, One)>>)
<1> DEFINE a == At(now - Gap, One)
           b == At(now, One)
<1>1. now \in Nat /\ now - Gap \in Nat /\ One \in Nat
  BY StatsAssumption DEF ClockInv, One
<1>2. a \in Tick /\ b \in Tick /\ a.at \in Nat /\ b.at \in Nat /\ a.price = One /\ b.price = One
  BY <1>1, AtIsTick
<1>3. chart \in Seq(Tick) /\ \A t \in Int, i \in DOMAIN chart : chart[i].at > t
  OBVIOUS
<1>4. \A t \in Nat : PriceAt(chart, t) = One
  <2>1. ASSUME NEW t \in Nat
        PROVE  PriceAt(chart, t) = One
    <3>1. t \in Int /\ \A i \in DOMAIN chart : chart[i].at > t
      BY <1>3
    <3> QED BY <1>3, <3>1, PriceBefore
  <2> QED BY <2>1
<1>5. /\ Last(<<a, b>>) = b
      /\ {<<a, b>>[i] : i \in DOMAIN <<a, b>>} = {a, b}
  BY <1>2, TwoPoints
<1>6. {chart[i] : i \in DOMAIN chart} = {}
  OBVIOUS
<1>7. \A p \in {a, b} : p.price = PriceAt(chart, p.at)
  BY <1>2, <1>4
<1>8. b = At(now, IF chart = <<>> THEN One ELSE Last(chart).price)
  OBVIOUS
<1> HIDE DEF a, b
<1>9. TrueFrom(frame, <<a, b>>)
  BY <1>5, <1>6, <1>7, <1>8 DEF TrueFrom
<1> QED BY <1>9 DEF a, b

\* The ticks of the frame, after the price of the sale if they are all.
LEMMA TicksTrue ==
  ASSUME ClockInv, ChartInv, NEW frame \in DOMAIN Frames \cup {"all"},
         NEW first \in DOMAIN chart, NEW head \in Seq(Tick),
         head = IF first = 1 THEN <<At(chart[1].at - Gap, One)>> ELSE <<>>,
         \A i \in DOMAIN chart : chart[i].at >= StartOf(frame) => first <= i
  PROVE  TrueFrom(frame, head \o SubSeq(chart, first, Len(chart))
                           \o <<At(now, Last(chart).price)>>)
<1> DEFINE ticks == {chart[i] : i \in DOMAIN chart}
           n == Len(chart)
           tail == SubSeq(chart, first, n)
           b == At(now, Last(chart).price)
           front == head \o tail
           shown == front \o <<b>>
           points == {shown[i] : i \in DOMAIN shown}
<1>0. /\ now \in Nat /\ Gap \in Nat /\ 0 < Gap /\ StartTime \in Nat /\ Gap <= StartTime
      /\ chart \in Seq(Tick) /\ n \in Nat /\ DOMAIN chart = 1 .. n
      /\ first \in 1 .. n /\ n \in DOMAIN chart /\ chart # <<>>
  BY StatsAssumption DEF ClockInv, ChartInv
<1>1. \A i \in DOMAIN chart : /\ chart[i] \in Tick /\ chart[i].at \in Nat /\ chart[i].price \in Nat
                              /\ StartTime <= chart[i].at /\ chart[i].at <= now
  BY <1>0, TickFields DEF ChartInv
<1>2. b \in Tick /\ b.at = now /\ b.price = chart[n].price
  BY <1>0, <1>1, AtIsTick DEF Last
<1>3. tail \in Seq(Tick) /\ Len(tail) = n - first + 1
      /\ \A i \in 1 .. n - first + 1 : tail[i] = chart[first + i - 1]
  BY <1>0, <1>1, SubSeqProperties
<1>4. Len(head) \in Nat
  OBVIOUS
<1> HIDE DEF tail, b, front, shown
<1>5. /\ front \in Seq(Tick) /\ Len(front) = Len(head) + Len(tail)
      /\ \A i \in 1 .. Len(head) + Len(tail) :
           front[i] = IF i <= Len(head) THEN head[i] ELSE tail[i - Len(head)]
  BY <1>3, ConcatProperties DEF front
<1>6. <<b>> \in Seq(Tick) /\ Len(<<b>>) = 1 /\ <<b>>[1] = b
  BY <1>2
<1>7. /\ shown \in Seq(Tick) /\ Len(shown) = Len(front) + 1
      /\ \A i \in 1 .. Len(front) + 1 :
           shown[i] = IF i <= Len(front) THEN front[i] ELSE <<b>>[i - Len(front)]
  BY <1>5, <1>6, ConcatProperties DEF shown
<1>8. DOMAIN shown = 1 .. Len(head) + Len(tail) + 1
  BY <1>4, <1>3, <1>5, <1>7
<1>9. Last(shown) = b
  <2>1. Last(shown) = shown[Len(front) + 1] /\ Len(front) \in Nat
    BY <1>0, <1>3, <1>4, <1>5, <1>7 DEF Last
  <2> QED BY <1>6, <1>7, <2>1
<1>10. ASSUME NEW i \in first .. n
       PROVE  chart[i] \in points
  <2>1. i - first + 1 \in 1 .. n - first + 1 /\ tail[i - first + 1] = chart[i]
    BY <1>0, <1>3
  <2>2. /\ Len(head) + (i - first + 1) \in 1 .. Len(head) + Len(tail)
        /\ ~ (Len(head) + (i - first + 1) <= Len(head))
        /\ Len(head) + (i - first + 1) - Len(head) = i - first + 1
    BY <1>0, <1>3, <1>4, <2>1
  <2>3. front[Len(head) + (i - first + 1)] = chart[i]
    BY <1>5, <2>1, <2>2
  <2>4. shown[Len(head) + (i - first + 1)] = chart[i]
    BY <1>5, <1>7, <1>4, <1>3, <1>0, <2>2, <2>3
  <2> QED BY <1>8, <2>2, <2>4, <1>3, <1>4, <1>0
<1>11. {t \in ticks : t.at >= StartOf(frame)} \subseteq points
  <2>1. SUFFICES ASSUME NEW i \in DOMAIN chart, chart[i].at >= StartOf(frame)
                 PROVE  chart[i] \in points
    OBVIOUS
  <2>2. i \in first .. n
    BY <1>0, <2>1
  <2> QED BY <1>10, <2>2
<1>12. ASSUME NEW i \in DOMAIN shown
       PROVE  shown[i] \in ticks \/ shown[i].price = PriceAt(chart, shown[i].at)
  <2>1. CASE i <= Len(head)
    <3>1. first = 1 /\ Len(head) = 1 /\ i = 1 /\ head[1] = At(chart[1].at - Gap, One)
      BY <1>8, <2>1
    <3>2. shown[i] = At(chart[1].at - Gap, One)
      BY <1>3, <1>5, <1>7, <1>0, <3>1
    <3>3. 1 \in DOMAIN chart /\ chart[1].at - Gap \in Nat /\ One \in Nat
      BY <1>0, <1>1 DEF One
    <3>4. shown[i].at = chart[1].at - Gap /\ shown[i].price = One
      BY <3>2, <3>3, AtIsTick
    <3>5. \A j \in DOMAIN chart : chart[j].at > chart[1].at - Gap
      <4>1. ASSUME NEW j \in DOMAIN chart
            PROVE  chart[1].at <= chart[j].at
        <5>1. CASE j = 1
          BY <1>1, <5>1
        <5>2. CASE j # 1
          BY <1>0, <3>3, <5>2 DEF ChartInv, Timely
        <5> QED BY <5>1, <5>2
      <4> QED BY <1>0, <1>1, <3>3, <4>1
    <3> QED BY <1>0, <3>3, <3>4, <3>5, PriceBefore
  <2>2. CASE Len(head) < i /\ i <= Len(front)
    <3>1. i - Len(head) \in 1 .. Len(tail) /\ i \in 1 .. Len(head) + Len(tail)
      BY <1>3, <1>4, <1>5, <1>8, <1>0, <2>2
    <3>2. shown[i] = tail[i - Len(head)]
      BY <1>3, <1>4, <1>5, <1>7, <1>0, <2>2, <3>1
    <3>3. first + (i - Len(head)) - 1 \in DOMAIN chart
      BY <1>0, <1>3, <3>1
    <3> QED BY <1>3, <3>1, <3>2, <3>3
  <2>3. CASE i = Len(front) + 1
    <3>1. shown[i] = b
      BY <1>3, <1>4, <1>5, <1>6, <1>7, <1>0, <2>3
    <3>2. chart[n].at <= now /\ \A j \in DOMAIN chart : ~ (n < j)
      BY <1>0, <1>1
    <3> QED BY <1>0, <1>2, <3>1, <3>2, PriceSince
  <2> QED BY <1>3, <1>4, <1>5, <1>8, <1>0, <2>1, <2>2, <2>3
<1>13. \A p \in points : p \in ticks \/ p.price = PriceAt(chart, p.at)
  BY <1>12
<1>14. b = At(now, IF chart = <<>> THEN One ELSE Last(chart).price)
  BY <1>0 DEF b
<1> HIDE DEF ticks, points
<1>15. TrueFrom(frame, shown)
  BY <1>9, <1>11, <1>13, <1>14 DEF TrueFrom, ticks, points
<1> QED BY <1>15 DEF shown, front, tail, b

LEMMA ChartDataTrue ==
  ASSUME ClockInv, ChartInv, NEW frame \in DOMAIN Frames \cup {"all"}
  PROVE  TrueFrom(frame, GetChartData(frame))
<1> DEFINE n == Len(chart)
           I == {i \in 1 .. n : chart[i].at >= StartOf(frame)}
           first == SelectInSeq(chart, LAMBDA x : x.at >= StartOf(frame))
           head == IF first = 1 THEN <<At(chart[1].at - Gap, One)>> ELSE <<>>
           tail == SubSeq(chart, first, n)
           still == Last(chart).price
<1>0. /\ chart \in Seq(Tick) /\ n \in Nat /\ DOMAIN chart = 1 .. n
      /\ StartTime \in Nat /\ Gap \in Nat /\ Gap <= StartTime
  BY StatsAssumption DEF ChartInv
<1>1. GetChartData(frame) =
        IF chart = <<>> THEN <<At(now - Gap, One), At(now, One)>>
        ELSE IF first = 0 THEN <<At(now - Gap, still), At(now, still)>>
        ELSE head \o tail \o <<At(now, still)>>
  BY DEF GetChartData
<1>2. first = IF I # {} THEN Min(I) ELSE 0
  BY DEF SelectInSeq
<1>3. \A i \in DOMAIN chart : chart[i] \in Tick /\ chart[i].at \in Nat /\ StartTime <= chart[i].at
  BY <1>0, TickFields DEF ChartInv
<1>4. StartOf(frame) \in Int
  BY FrameStarts
<1> HIDE DEF first
<1>5. CASE chart = <<>>
  BY <1>1, <1>5, EmptyChartTrue
<1>6. CASE chart # <<>> /\ first = 0
  <2>1. I = {}
    <3>1. I # {} => Min(I) \in I
      BY <1>0, FirstAndLast
    <3> QED BY <1>0, <1>2, <1>6, <3>1
  <2>2. \A i \in DOMAIN chart : chart[i].at < StartOf(frame)
    BY <1>0, <1>3, <1>4, <2>1
  <2>3. still \in Nat
    BY <1>0, <1>6, <1>3, TickFields DEF Last
  <2>4. still = IF chart = <<>> THEN One ELSE Last(chart).price
    BY <1>6
  <2> HIDE DEF still, I
  <2>5. TrueFrom(frame, <<At(now - Gap, still), At(now, still)>>)
    BY <2>2, <2>3, <2>4, StillTrue
  <2> QED BY <1>1, <1>6, <2>5
<1>7. CASE chart # <<>> /\ first # 0
  <2>1. I # {} /\ first = Min(I)
    BY <1>2, <1>7
  <2>2. first \in I /\ \A i \in I : first <= i
    BY <1>0, <2>1, FirstAndLast
  <2>3. first \in DOMAIN chart /\ \A i \in DOMAIN chart : chart[i].at >= StartOf(frame) => first <= i
    BY <1>0, <2>2
  <2>4. head \in Seq(Tick)
    <3>1. CASE first = 1
      <4>1. chart[1].at - Gap \in Nat /\ One \in Nat
        BY <1>0, <1>3, <2>3, <3>1 DEF One
      <4>2. At(chart[1].at - Gap, One) \in Tick
        BY <4>1, AtIsTick
      <4> QED BY <3>1, <4>2
    <3>2. CASE first # 1
      BY <3>2
    <3> QED BY <3>1, <3>2
  <2>5. head = IF first = 1 THEN <<At(chart[1].at - Gap, One)>> ELSE <<>>
    OBVIOUS
  <2> HIDE DEF I, head
  <2>6. TrueFrom(frame, head \o SubSeq(chart, first, Len(chart)) \o <<At(now, Last(chart).price)>>)
    BY <2>3, <2>4, <2>5, TicksTrue
  <2> QED BY <1>1, <1>7, <2>6
<1> QED BY <1>5, <1>6, <1>7

LEMMA ChartsTrue == ClockInv /\ ChartInv => ChartTrue
BY ChartDataTrue DEF ChartTrue, TrueFrom

LEMMA ChartIsTimely == Spec => [](ClockInv /\ ChartInv)
<1>1. Init => ClockInv /\ ChartInv
  BY StatsAssumption DEF Init, StatsInit, ClockInv, ChartInv, Timely
<1> QED BY <1>1, ClockStep, ChartStep, PTL DEF Spec

\* A chart shows every tick of its frame and no price that was not in force,
\* for any number of ticks, any frames and any time since the last trade.
THEOREM ChartsAreTrue == Spec => []ChartTrue
BY ChartIsTimely, ChartsTrue, PTL

-----------------------------------------------------------------------------
(* The list of watches. *)

\* Two sequences that rise and have the same values are the same.
Rises(f, n) == \A k, l \in 1 .. n : k < l => f[k] < f[l]
Whole(f, n) == \A k \in 1 .. n : f[k] \in Int
Within(f, g, n) == \A k \in 1 .. n : \E l \in 1 .. n : g[l] = f[k]

LEMMA NotLower ==
  ASSUME NEW n \in Nat, NEW f, NEW g, Whole(f, n), Whole(g, n), Rises(f, n), Rises(g, n),
         Within(f, g, n), NEW m \in 1 .. n, \A k \in 1 .. n : k < m => f[k] = g[k]
  PROVE  ~ (f[m] < g[m])
<1> SUFFICES ASSUME f[m] < g[m] PROVE FALSE
  OBVIOUS
<1>1. PICK l \in 1 .. n : g[l] = f[m]
  BY DEF Within
<1>2. f[m] \in Int /\ g[m] \in Int /\ f[l] \in Int /\ g[l] \in Int
  BY DEF Whole
<1>3. CASE l < m
  <2>1. f[l] < f[m] /\ f[l] = g[l]
    BY <1>3 DEF Rises
  <2> QED BY <1>1, <1>2, <2>1
<1>4. CASE l = m
  BY <1>1, <1>2, <1>4
<1>5. CASE m < l
  <2>1. g[m] < g[l]
    BY <1>5 DEF Rises
  <2> QED BY <1>1, <1>2, <2>1
<1> QED BY <1>3, <1>4, <1>5

LEMMA SameSteps ==
  ASSUME NEW n \in Nat, NEW f, NEW g, Whole(f, n), Whole(g, n), Rises(f, n), Rises(g, n),
         Within(f, g, n), Within(g, f, n)
  PROVE  \A k \in 1 .. n : f[k] = g[k]
<1> DEFINE D == {k \in 1 .. n : f[k] # g[k]}
<1>1. SUFFICES ASSUME D # {} PROVE FALSE
  OBVIOUS
<1>2. PICK m \in D : \A k \in D : m <= k
  <2>1. D \in SUBSET Nat
    OBVIOUS
  <2> QED BY <1>1, <2>1, Least
<1>3. m \in 1 .. n /\ f[m] # g[m] /\ f[m] \in Int /\ g[m] \in Int
  BY <1>2 DEF Whole
<1>4. \A k \in 1 .. n : k < m => f[k] = g[k]
  BY <1>2
<1> HIDE DEF D
<1>5. ~ (f[m] < g[m])
  BY <1>3, <1>4, NotLower
<1>6. ~ (g[m] < f[m])
  <2>1. \A k \in 1 .. n : k < m => g[k] = f[k]
    BY <1>4
  <2> QED BY <1>3, <2>1, NotLower
<1> QED BY <1>3, <1>5, <1>6

Entry == [id : DOMAIN Costs, worth : Int]

\* Every watch is in the list, once.
Once(s) == \A i, j \in 1 .. Len(Costs) : s[i].id = s[j].id => i = j
Every(s) == \A w \in DOMAIN Costs : \E i \in 1 .. Len(Costs) : s[i].id = w
IsList(s) == s \in Seq(Entry) /\ Len(s) = Len(Costs) /\ Once(s) /\ Every(s)

\* What SortWatches compares.
RankOf(key, x) ==
  CASE key = "cheapest" -> x.worth
    [] key = "dearest"  -> - x.worth
    [] key = "oldest"   -> x.id
    [] key = "newest"   -> - x.id
    [] OTHER            -> 0

InRank(key, s) == \A k, l \in DOMAIN s : k < l => RankOf(key, s[k]) <= RankOf(key, s[l])

LEMMA EntryFields ==
  ASSUME NEW x \in Entry
  PROVE  /\ x.id \in DOMAIN Costs /\ x.id \in Int /\ x.worth \in Int
         /\ \A key \in Keys : RankOf(key, x) \in Int
<1>1. x.id \in DOMAIN Costs /\ x.worth \in Int
  BY DEF Entry
<1>2. x.id \in Int
  BY <1>1, ListingAssumption
<1>3. - x.id \in Int /\ - x.worth \in Int
  BY <1>1, <1>2
<1> QED BY <1>1, <1>2, <1>3 DEF RankOf, Keys

LEMMA ListLength ==
  ASSUME NEW s, IsList(s)
  PROVE  /\ Len(Costs) \in Nat /\ DOMAIN Costs = 1 .. Len(Costs)
         /\ DOMAIN s = 1 .. Len(Costs) /\ s \in Seq(Entry)
         /\ \A i \in 1 .. Len(Costs) : s[i] \in Entry
BY ListingAssumption DEF IsList

LEMMA SortReturns ==
  ASSUME NEW s, IsList(s), NEW key \in Keys
  PROVE  /\ IsList(SortWatches(s, key)) /\ InRank(key, SortWatches(s, key))
         /\ Elements(SortWatches(s, key)) = Elements(s)
         /\ InRank(key, s) => SortWatches(s, key) = s
<1> DEFINE n == Len(Costs)
           rank == [i \in DOMAIN s |-> RankOf(key, s[i])]
           t == Sorted(s, rank)
<1>1. SortWatches(s, key) = t
  BY DEF SortWatches, RankOf
<1>2. n \in Nat /\ DOMAIN Costs = 1 .. n /\ DOMAIN s = 1 .. n /\ s \in Seq(Entry) /\ Len(s) = n
      /\ \A i \in 1 .. n : s[i] \in Entry
  BY ListLength DEF IsList
<1>3. \A i \in 1 .. n : rank[i] = RankOf(key, s[i]) /\ rank[i] \in Int
  BY <1>2, EntryFields
<1> HIDE DEF n, rank
<1>4. Ranked(DOMAIN s, rank)
  BY <1>2, <1>3 DEF Ranked
<1>5. t \in Seq(Entry) /\ Len(t) = n /\ Elements(t) = Elements(s)
  BY <1>2, <1>4, SortedReturns
<1>6. PICK p \in [1 .. n -> 1 .. n] :
        /\ \A k \in 1 .. n : t[k] = s[p[k]]
        /\ p \in Surjection(1 .. n, 1 .. n)
        /\ \A k, l \in 1 .. n : k < l => Before(rank, p[k], p[l])
  BY <1>2, <1>4, SortedReturns
<1> HIDE DEF t
<1>7. DOMAIN t = 1 .. n
  BY <1>5
<1>8. \A k \in 1 .. n : p[k] \in 1 .. n /\ p[k] \in Int /\ rank[p[k]] \in Int
  BY <1>3, <1>6
<1>9. ASSUME NEW k \in 1 .. n, NEW l \in 1 .. n, k < l
      PROVE  rank[p[k]] <= rank[p[l]] /\ p[k] # p[l]
  <2>1. rank[p[k]] \in Int /\ rank[p[l]] \in Int /\ p[k] \in Int /\ p[l] \in Int
    BY <1>8
  <2> QED BY <1>6, <1>9, <2>1 DEF Before
<1>10. ASSUME NEW i \in 1 .. n, NEW j \in 1 .. n, t[i].id = t[j].id
       PROVE  i = j
  <2>1. p[i] = p[j]
    BY <1>6, <1>8, <1>10 DEF IsList, Once, n
  <2>2. ~ (i < j) /\ ~ (j < i) /\ i \in Int /\ j \in Int
    BY <1>9, <2>1
  <2> QED BY <2>2
<1>11. ASSUME NEW w \in DOMAIN Costs
       PROVE  \E k \in 1 .. n : t[k].id = w
  <2>1. PICK i \in 1 .. n : s[i].id = w
    BY DEF IsList, Every, n
  <2>2. PICK k \in 1 .. n : p[k] = i
    BY <1>6 DEF Surjection
  <2> QED BY <1>6, <2>1, <2>2
<1>12. IsList(t)
  BY <1>5, <1>10, <1>11 DEF IsList, Once, Every, n
<1>13. InRank(key, t)
  <2>1. SUFFICES ASSUME NEW k \in 1 .. n, NEW l \in 1 .. n, k < l
                 PROVE  RankOf(key, t[k]) <= RankOf(key, t[l])
    BY <1>7 DEF InRank
  <2>2. t[k] = s[p[k]] /\ t[l] = s[p[l]] /\ p[k] \in 1 .. n /\ p[l] \in 1 .. n
    BY <1>6, <1>8
  <2> QED BY <1>3, <1>9, <2>1, <2>2
<1>14. ASSUME InRank(key, s)
       PROVE  t = s
  <2> DEFINE f == [k \in 1 .. n |-> k]
  <2>1. ASSUME NEW k \in 1 .. n, NEW l \in 1 .. n, k < l
        PROVE  rank[k] <= rank[l]
    <3>1. RankOf(key, s[k]) <= RankOf(key, s[l])
      BY <1>2, <1>14, <2>1 DEF InRank
    <3> QED BY <1>3, <3>1
  <2>2. ASSUME NEW k \in 1 .. n, NEW l \in 1 .. n, k < l
        PROVE  p[k] < p[l]
    <3>1. p[k] \in 1 .. n /\ p[l] \in 1 .. n /\ Before(rank, p[k], p[l])
      BY <1>6, <1>8, <2>2
    <3>2. rank[p[k]] \in Int /\ rank[p[l]] \in Int /\ p[k] \in Int /\ p[l] \in Int
      BY <1>8
    <3>3. p[l] < p[k] => rank[p[l]] <= rank[p[k]]
      BY <2>1, <3>1
    <3> QED BY <3>1, <3>2, <3>3 DEF Before
  <2>3. \A k \in 1 .. n : f[k] = k
    OBVIOUS
  <2> HIDE DEF f
  <2>4. Rises(f, n) /\ Whole(f, n)
    BY <2>3 DEF Rises, Whole
  <2>5. Rises(p, n) /\ Whole(p, n)
    BY <1>8, <2>2 DEF Rises, Whole
  <2>6. Within(f, p, n)
    BY <1>6, <2>3 DEF Within, Surjection
  <2>7. Within(p, f, n)
    BY <1>8, <2>3 DEF Within
  <2>8. \A k \in 1 .. n : f[k] = p[k]
    BY <1>2, <2>4, <2>5, <2>6, <2>7, SameSteps
  <2>9. \A k \in 1 .. n : t[k] = s[k]
    BY <1>6, <2>3, <2>8
  <2> QED BY <1>2, <1>5, <1>7, <2>9
<1> QED BY <1>1, <1>5, <1>12, <1>13, <1>14

\* What the worth of a watch rests on.
WorthInv ==
  /\ {"prices24", "deals24", "price", "quarter"} \subseteq DOMAIN watch
  /\ watch.price \in Nat /\ saving.price \in Nat

LEMMA WorthStart == Init => WorthInv
BY DEF Init, StatsInit, WorthInv, NoPrice, One

LEMMA WorthStep == WorthInv /\ [Next]_allVars => WorthInv'
<1> SUFFICES ASSUME WorthInv, [Next]_allVars
             PROVE  WorthInv'
  OBVIOUS
<1>1. CASE UNCHANGED <<watch, saving>>
  BY <1>1 DEF WorthInv
<1>2. ASSUME NEW p \in Prices, AddChartTick(p)
      PROVE  WorthInv'
  <2>1. watch' = watch /\ saving' = At(now, p) /\ p \in Nat
    BY <1>2, StatsAssumption DEF AddChartTick
  <2> QED BY <2>1 DEF WorthInv, At
<1>3. CASE TradeAllowed
  BY <1>3 DEF TradeAllowed, WorthInv, At, One
<1>4. CASE AddPrice24
  <2> DEFINE prices == Append(KeptPrices(watch.prices24, now), saving)
             quarters == IF QuarterIsOver
                         THEN Append(watch.quarter, [day |-> now \div Day, price |-> saving.price])
                         ELSE watch.quarter
  <2>1. /\ watch' = [watch EXCEPT !.prices24 = prices, !.price = saving.price, !.quarter = quarters]
        /\ saving' = NoPrice
    BY <1>4 DEF AddPrice24
  <2> HIDE DEF prices, quarters
  <2>2. watch'.price = saving.price /\ DOMAIN watch' = DOMAIN watch
    BY <2>1 DEF WorthInv
  <2> QED BY <2>1, <2>2 DEF WorthInv, NoPrice
<1>5. CASE PriceLost
  BY <1>5 DEF PriceLost, WorthInv, NoPrice
<1>6. ASSUME NEW usd \in Amounts, NEW t \in {now - 1, now}, UpdateDeal(usd, t)
      PROVE  WorthInv'
  <2> DEFINE deals == DealsWith([at |-> t, usd |-> usd])
  <2>1. watch' = [watch EXCEPT !.deals24 = deals] /\ saving' = saving
    BY <1>6 DEF UpdateDeal
  <2> HIDE DEF deals
  <2>2. watch'.price = watch.price /\ DOMAIN watch' = DOMAIN watch
    BY <2>1 DEF WorthInv
  <2> QED BY <2>1, <2>2 DEF WorthInv
<1>7. CASE Tock
  BY <1>7, <1>1 DEF Tock
<1> QED BY <1>1, <1>2, <1>3, <1>4, <1>5, <1>6, <1>7, StatsMoves DEF StatsNext, StatsRest

\* One page of what a list has of the watches asked for.
PageOf(list, ids, k) == Page(Only(list, LAMBDA x : x.id \in ids), k)

\* A list that a page was taken from.
Shown(list) == IsList(list) /\ InRank(reader.key, list)

\* Every page the reader has comes from a sorted list; while the list was not
\* stirred, from the one that is there.
NoPages == reader.pages = <<>> /\ reader.seen = <<>>

OnePage(list) ==
  /\ Shown(list)
  /\ reader.pages = <<PageOf(list, reader.ids, 0)>> /\ reader.seen = <<Elements(list)>>
  /\ ~ stirred => cached = list

TwoPages(list, next) ==
  /\ Shown(list) /\ Shown(next)
  /\ reader.pages = <<PageOf(list, reader.ids, 0), PageOf(next, reader.ids, 1)>>
  /\ reader.seen = <<Elements(list), Elements(next)>>
  /\ ~ stirred => next = list

ReaderInv ==
  /\ IsList(cached)
  /\ reader.key \in Keys /\ reader.ids \subseteq DOMAIN Costs
  /\ NoPages \/ (\E list : OnePage(list)) \/ (\E list, next : TwoPages(list, next))

LEMMA LoadedIsList == WorthInv => IsList(Loaded)
<1> SUFFICES ASSUME WorthInv
             PROVE  IsList(Loaded)
  OBVIOUS
<1> DEFINE n == Len(Costs)
           s == Loaded
<1>1. n \in Nat /\ DOMAIN Costs = 1 .. n /\ \A w \in 1 .. n : Costs[w] \in Nat
  BY ListingAssumption
<1>2. ASSUME NEW w \in 1 .. n
      PROVE  Worth(w) \in Int
  <2>1. Costs[w] \in Nat /\ watch.price \in Nat
    BY <1>1 DEF WorthInv
  <2>2. Costs[w] * watch.price \in Int
    BY <2>1
  <2> QED BY <2>1, <2>2 DEF Worth
<1>3. s = [i \in 1 .. n |-> [id |-> n + 1 - i, worth |-> Worth(n + 1 - i)]]
  BY <1>1 DEF Loaded
<1> HIDE DEF n, s
<1>4. ASSUME NEW i \in 1 .. n
      PROVE  s[i] \in Entry /\ s[i].id = n + 1 - i
  <2>1. n + 1 - i \in 1 .. n
    BY <1>1
  <2>2. Worth(n + 1 - i) \in Int
    BY <1>2, <2>1
  <2> QED BY <1>1, <1>3, <2>1, <2>2 DEF Entry
<1>5. s \in Seq(Entry) /\ Len(s) = n
  <2>1. s \in [1 .. n -> Entry] /\ n \in Nat
    BY <1>1, <1>3, <1>4
  <2> QED BY <2>1
<1>6. Once(s)
  BY <1>1, <1>4 DEF Once, n
<1>7. ASSUME NEW w \in DOMAIN Costs
      PROVE  \E i \in 1 .. n : s[i].id = w
  <2>1. n + 1 - w \in 1 .. n /\ n + 1 - (n + 1 - w) = w
    BY <1>1
  <2> QED BY <1>4, <2>1
<1>8. IsList(s)
  BY <1>5, <1>6, <1>7 DEF IsList, Every, n
<1> QED BY <1>8 DEF s

LEMMA ReaderStart == Init => ReaderInv
<1>1. Init => IsList(Loaded) /\ cached = Loaded
  BY WorthStart, LoadedIsList DEF Init
<1>2. Init => reader = NoReader
  BY DEF Init
<1>3. NoReader.key \in Keys /\ NoReader.ids \subseteq DOMAIN Costs
      /\ NoReader.pages = <<>> /\ NoReader.seen = <<>>
  BY DEF NoReader, Keys
<1> QED BY <1>1, <1>2, <1>3 DEF ReaderInv, NoPages

LEMMA ListMoves == [Next]_allVars => Browse \/ UNCHANGED <<cached, reader, stirred>>
<1> SUFFICES ASSUME [Next]_allVars
             PROVE  Browse \/ UNCHANGED <<cached, reader, stirred>>
  OBVIOUS
<1>1. CASE Trade
  BY <1>1 DEF Trade, PostOrder, FillRead, AskShares, OrderFilled, FilledSaved, TenMinutes, Apart
<1>2. CASE UNCHANGED allVars
  BY <1>2 DEF allVars, listings
<1>3. CASE UNCHANGED listings
  BY <1>3 DEF listings
<1> QED BY <1>1, <1>2, <1>3 DEF Next

\* The cached list is another one, and the pages are as they were.
LEMMA StirredKeeps ==
  ASSUME ReaderInv, IsList(cached)', reader' = reader,
         stirred' = (stirred \/ reader.pages # <<>>)
  PROVE  ReaderInv'
<1>1. CASE NoPages
  BY <1>1 DEF ReaderInv, NoPages
<1>2. ASSUME NEW list, OnePage(list)
      PROVE  ReaderInv'
  <2>1. reader.pages # <<>>
    BY <1>2 DEF OnePage
  <2>2. OnePage(list)'
    BY <1>2, <2>1 DEF OnePage, Shown, PageOf, Page, Only
  <2> QED BY <2>2 DEF ReaderInv
<1>3. ASSUME NEW list, NEW next, TwoPages(list, next)
      PROVE  ReaderInv'
  <2>1. TwoPages(list, next)'
    BY <1>3 DEF TwoPages, Shown, PageOf, Page, Only
  <2> QED BY <2>1 DEF ReaderInv
<1> QED BY <1>1, <1>2, <1>3 DEF ReaderInv

LEMMA AppendSecond ==
  ASSUME NEW a, NEW b
  PROVE  Append(<<a>>, b) = <<a, b>>
<1> DEFINE s == Append(<<a>>, b)
           t == <<a, b>>
<1>1. <<a>> \in Seq({a, b}) /\ Len(<<a>>) = 1 /\ <<a>>[1] = a
  OBVIOUS
<1>2. s \in Seq({a, b}) /\ Len(s) = 2 /\ s[1] = a /\ s[2] = b
  BY <1>1, AppendProperties
<1>3. t \in Seq({a, b}) /\ Len(t) = 2 /\ t[1] = a /\ t[2] = b
  OBVIOUS
<1> HIDE DEF s, t
<1>4. s \in [1 .. 2 -> {a, b}] /\ t \in [1 .. 2 -> {a, b}]
  BY <1>2, <1>3
<1>5. \A i \in 1 .. 2 : s[i] = t[i]
  <2>1. \A i \in 1 .. 2 : i = 1 \/ i = 2
    OBVIOUS
  <2> QED BY <1>2, <1>3, <2>1
<1>6. s = t
  BY <1>4, <1>5
<1> QED BY <1>6 DEF s, t

LEMMA ReadKeeps ==
  ASSUME ReaderInv, NEW key \in Keys, NEW ids \in SUBSET DOMAIN Costs, ReadPage(key, ids)
  PROVE  ReaderInv'
<1>0. PICK list : list = SortWatches(cached, key)
  OBVIOUS
<1> DEFINE page == PageOf(list, ids, Len(reader.pages))
<1>1. /\ IsList(list) /\ InRank(key, list) /\ Elements(list) = Elements(cached)
      /\ InRank(key, cached) => list = cached
  BY <1>0, SortReturns DEF ReaderInv
<1>2. /\ Len(reader.pages) < 2
      /\ reader.pages # <<>> => key = reader.key /\ ids = reader.ids
      /\ cached' = list /\ stirred' = stirred
      /\ reader' = [key |-> key, ids |-> ids, pages |-> Append(reader.pages, page),
                    seen |-> Append(reader.seen, Elements(cached))]
  BY <1>0 DEF ReadPage, PageOf, Elements
<1>3. /\ reader'.key = key /\ reader'.ids = ids
      /\ reader'.pages = Append(reader.pages, page)
      /\ reader'.seen = Append(reader.seen, Elements(list))
  BY <1>1, <1>2
<1>4. CASE NoPages
  <2>1. Len(reader.pages) = 0 /\ reader'.pages = <<page>> /\ reader'.seen = <<Elements(list)>>
    BY <1>3, <1>4 DEF NoPages
  <2>2. reader'.pages = <<PageOf(list, ids, 0)>>
    BY <2>1
  <2>3. OnePage(list)'
    BY <1>1, <1>2, <1>3, <2>1, <2>2 DEF OnePage, Shown, PageOf, Page, Only
  <2> QED BY <1>1, <1>2, <1>3, <2>3 DEF ReaderInv
<1>5. ASSUME NEW old, OnePage(old)
      PROVE  ReaderInv'
  <2>1. reader.pages = <<PageOf(old, reader.ids, 0)>> /\ reader.seen = <<Elements(old)>>
    BY <1>5 DEF OnePage
  <2>2. Len(reader.pages) = 1 /\ reader.pages # <<>>
    BY <2>1
  <2>3. key = reader.key /\ ids = reader.ids
    BY <1>2, <2>2
  <2>4. /\ reader'.pages = <<PageOf(old, ids, 0), PageOf(list, ids, 1)>>
        /\ reader'.seen = <<Elements(old), Elements(list)>>
    BY <1>3, <2>1, <2>2, <2>3, AppendSecond
  <2>5. ~ stirred => list = old
    BY <1>1, <1>5, <2>3 DEF OnePage, Shown
  <2>6. IsList(old) /\ InRank(key, old)
    BY <1>5, <2>3 DEF OnePage, Shown
  <2>7. TwoPages(old, list)'
    BY <1>1, <1>2, <1>3, <2>4, <2>5, <2>6 DEF TwoPages, Shown, PageOf, Page, Only
  <2> QED BY <1>1, <1>2, <1>3, <2>7 DEF ReaderInv
<1>6. ASSUME NEW old, NEW next, TwoPages(old, next)
      PROVE  FALSE
  <2>1. Len(reader.pages) = 2
    BY <1>6 DEF TwoPages
  <2> QED BY <1>2, <2>1
<1> QED BY <1>4, <1>5, <1>6 DEF ReaderInv

LEMMA ReaderStep == WorthInv /\ ReaderInv /\ [Next]_allVars => ReaderInv'
<1> SUFFICES ASSUME WorthInv, ReaderInv, [Next]_allVars
             PROVE  ReaderInv'
  OBVIOUS
<1>1. CASE LoadWatches
  <2>1. cached' = Loaded /\ reader' = reader /\ stirred' = (stirred \/ reader.pages # <<>>)
    BY <1>1 DEF LoadWatches
  <2>2. IsList(cached')
    BY <2>1, LoadedIsList
  <2> QED BY <2>1, <2>2, StirredKeeps DEF IsList, Once, Every
<1>2. ASSUME NEW key \in Keys, ListWatches(key)
      PROVE  ReaderInv'
  <2>1. /\ cached' = SortWatches(cached, key) /\ reader' = reader
        /\ stirred' = (stirred \/ reader.pages # <<>>)
    BY <1>2 DEF ListWatches
  <2>2. IsList(cached')
    BY <2>1, SortReturns DEF ReaderInv
  <2> QED BY <2>1, <2>2, StirredKeeps DEF IsList, Once, Every
<1>3. ASSUME NEW key \in Keys, NEW ids \in SUBSET DOMAIN Costs, ReadPage(key, ids)
      PROVE  ReaderInv'
  BY <1>3, ReadKeeps
<1>4. CASE UNCHANGED <<cached, reader, stirred>>
  <2>1. reader' = reader /\ cached' = cached /\ stirred' = stirred
    BY <1>4
  <2>2. NoPages => NoPages'
    BY <2>1 DEF NoPages
  <2>3. \A list : OnePage(list) => OnePage(list)'
    BY <2>1 DEF OnePage, Shown, PageOf, Page, Only
  <2>4. \A list, next : TwoPages(list, next) => TwoPages(list, next)'
    BY <2>1 DEF TwoPages, Shown, PageOf, Page, Only
  <2> QED BY <2>1, <2>2, <2>3, <2>4 DEF ReaderInv
<1> QED BY <1>1, <1>2, <1>3, <1>4, ListMoves DEF Browse

\* In each of the steady cases the second page is taken from a list of the same
\* watches in the same order as the first.
SameOrder(list, next) == \A i \in 1 .. Len(Costs) : list[i].id = next[i].id

\* Ranks that tell watches apart rise along a sorted list.
LEMMA RanksRise ==
  ASSUME NEW list, IsList(list), NEW key \in Keys, InRank(key, list), NEW f,
         \A i \in 1 .. Len(Costs) : f[i] = RankOf(key, list[i]),
         \A i, j \in 1 .. Len(Costs) : f[i] = f[j] => list[i].id = list[j].id
  PROVE  Whole(f, Len(Costs)) /\ Rises(f, Len(Costs))
<1> DEFINE n == Len(Costs)
<1>1. n \in Nat /\ DOMAIN list = 1 .. n /\ \A i \in 1 .. n : list[i] \in Entry
  BY ListLength
<1>2. \A i \in 1 .. n : f[i] \in Int
  BY <1>1, EntryFields
<1>3. ASSUME NEW k \in 1 .. n, NEW l \in 1 .. n, k < l
      PROVE  f[k] < f[l]
  <2>1. f[k] <= f[l]
    BY <1>1, <1>3 DEF InRank
  <2>2. k # l
    BY <1>1, <1>3
  <2>3. f[k] # f[l]
    BY <2>2 DEF IsList, Once
  <2>4. f[k] \in Int /\ f[l] \in Int
    BY <1>2
  <2> QED BY <2>1, <2>3, <2>4
<1> QED BY <1>2, <1>3 DEF Whole, Rises

\* By date.
LEMMA SameByDate ==
  ASSUME NEW list, NEW next, NEW key \in {"oldest", "newest"},
         IsList(list), IsList(next), InRank(key, list), InRank(key, next)
  PROVE  SameOrder(list, next)
<1> DEFINE n == Len(Costs)
           f == [i \in 1 .. n |-> RankOf(key, list[i])]
           g == [i \in 1 .. n |-> RankOf(key, next[i])]
<1>1. /\ n \in Nat /\ DOMAIN Costs = 1 .. n /\ DOMAIN list = 1 .. n /\ DOMAIN next = 1 .. n
      /\ \A i \in 1 .. n : list[i] \in Entry /\ next[i] \in Entry
  BY ListLength
<1>2. \A i \in 1 .. n : f[i] = RankOf(key, list[i]) /\ g[i] = RankOf(key, next[i])
  OBVIOUS
<1> HIDE DEF f, g, n
<1>3. \A x \in Entry : RankOf(key, x) \in Int /\ x.id \in Int
  BY EntryFields DEF Keys
<1>4. ASSUME NEW x \in Entry, NEW y \in Entry
      PROVE  RankOf(key, x) = RankOf(key, y) <=> x.id = y.id
  <2>1. x.id \in Int /\ y.id \in Int
    BY <1>3
  <2>2. CASE key = "oldest"
    BY <2>2 DEF RankOf
  <2>3. CASE key = "newest"
    BY <2>1, <2>3 DEF RankOf
  <2> QED BY <2>2, <2>3
<1>5. Whole(f, n) /\ Rises(f, n)
  <2>1. \A i, j \in 1 .. n : f[i] = f[j] => list[i].id = list[j].id
    BY <1>1, <1>2, <1>4
  <2> QED BY <1>2, <2>1, RanksRise DEF Keys, n
<1>6. Whole(g, n) /\ Rises(g, n)
  <2>1. \A i, j \in 1 .. n : g[i] = g[j] => next[i].id = next[j].id
    BY <1>1, <1>2, <1>4
  <2> QED BY <1>2, <2>1, RanksRise DEF Keys, n
<1>7. Within(f, g, n)
  <2>1. SUFFICES ASSUME NEW k \in 1 .. n
                 PROVE  \E l \in 1 .. n : g[l] = f[k]
    BY DEF Within
  <2>2. list[k].id \in DOMAIN Costs
    BY <1>1, EntryFields
  <2>3. PICK l \in 1 .. n : next[l].id = list[k].id
    BY <2>2 DEF IsList, Every, n
  <2> QED BY <1>1, <1>2, <1>4, <2>3
<1>8. Within(g, f, n)
  <2>1. SUFFICES ASSUME NEW k \in 1 .. n
                 PROVE  \E l \in 1 .. n : f[l] = g[k]
    BY DEF Within
  <2>2. next[k].id \in DOMAIN Costs
    BY <1>1, EntryFields
  <2>3. PICK l \in 1 .. n : list[l].id = next[k].id
    BY <2>2 DEF IsList, Every, n
  <2> QED BY <1>1, <1>2, <1>4, <2>3
<1>9. \A k \in 1 .. n : f[k] = g[k]
  BY <1>1, <1>5, <1>6, <1>7, <1>8, SameSteps
<1> QED BY <1>1, <1>2, <1>4, <1>9 DEF SameOrder, n

\* By price, when prices differ and stay.
LEMMA SameByPrice ==
  ASSUME NEW list, NEW next, NEW key \in {"cheapest", "dearest"},
         IsList(list), IsList(next), InRank(key, list), InRank(key, next),
         Elements(list) = Elements(next), Distinct(Elements(list))
  PROVE  SameOrder(list, next)
<1> DEFINE n == Len(Costs)
           f == [i \in 1 .. n |-> RankOf(key, list[i])]
           g == [i \in 1 .. n |-> RankOf(key, next[i])]
<1>1. /\ n \in Nat /\ DOMAIN list = 1 .. n /\ DOMAIN next = 1 .. n
      /\ \A i \in 1 .. n : list[i] \in Entry /\ next[i] \in Entry
  BY ListLength
<1>2. \A i \in 1 .. n : f[i] = RankOf(key, list[i]) /\ g[i] = RankOf(key, next[i])
  OBVIOUS
<1> HIDE DEF f, g, n
<1>3. \A x \in Entry : RankOf(key, x) \in Int /\ x.worth \in Int
  BY EntryFields DEF Keys
<1>4. \A i \in 1 .. n : list[i] \in Elements(list) /\ next[i] \in Elements(list)
  <2>1. \A i \in 1 .. n : list[i] \in Elements(list) /\ next[i] \in Elements(next)
    BY <1>1 DEF Elements
  <2> QED BY <2>1
<1>5. ASSUME NEW x \in Elements(list), NEW y \in Elements(list), x \in Entry, y \in Entry,
             RankOf(key, x) = RankOf(key, y)
      PROVE  x = y
  <2>1. x.worth \in Int /\ y.worth \in Int
    BY <1>3, <1>5
  <2>2. CASE key = "cheapest"
    BY <1>5, <2>2 DEF RankOf, Distinct
  <2>3. CASE key = "dearest"
    <3>1. - x.worth = - y.worth
      BY <1>5, <2>3 DEF RankOf
    <3>2. x.worth = y.worth
      BY <2>1, <3>1
    <3> QED BY <3>2 DEF Distinct
  <2> QED BY <2>2, <2>3
<1>6. Whole(f, n) /\ Rises(f, n)
  <2>1. \A i, j \in 1 .. n : f[i] = f[j] => list[i].id = list[j].id
    BY <1>1, <1>2, <1>4, <1>5
  <2> QED BY <1>2, <2>1, RanksRise DEF Keys, n
<1>7. Whole(g, n) /\ Rises(g, n)
  <2>1. \A i, j \in 1 .. n : g[i] = g[j] => next[i].id = next[j].id
    BY <1>1, <1>2, <1>4, <1>5
  <2> QED BY <1>2, <2>1, RanksRise DEF Keys, n
<1>8. Within(f, g, n)
  <2>1. SUFFICES ASSUME NEW k \in 1 .. n
                 PROVE  \E l \in 1 .. n : g[l] = f[k]
    BY DEF Within
  <2>2. PICK l \in 1 .. n : next[l] = list[k]
    BY <1>1, <1>4 DEF Elements
  <2> QED BY <1>2, <2>2
<1>9. Within(g, f, n)
  <2>1. SUFFICES ASSUME NEW k \in 1 .. n
                 PROVE  \E l \in 1 .. n : f[l] = g[k]
    BY DEF Within
  <2>2. PICK l \in 1 .. n : list[l] = next[k]
    BY <1>1, <1>4 DEF Elements
  <2> QED BY <1>2, <2>2
<1>10. \A k \in 1 .. n : f[k] = g[k]
  BY <1>1, <1>6, <1>7, <1>8, <1>9, SameSteps
<1>11. ASSUME NEW k \in 1 .. n
       PROVE  list[k].id = next[k].id
  <2>1. RankOf(key, list[k]) = RankOf(key, next[k])
    BY <1>2, <1>10
  <2>2. list[k] = next[k]
    BY <1>1, <1>4, <1>5, <2>1
  <2> QED BY <2>2
<1> QED BY <1>11 DEF SameOrder, n

\* The places of the watches asked for.
Places(list, ids) == {i \in DOMAIN list : list[i].id \in ids}

Kept(list, ids) == Only(list, LAMBDA x : x.id \in ids)

LEMMA KeptWatches ==
  ASSUME NEW list, IsList(list), NEW ids \in SUBSET DOMAIN Costs
  PROVE  /\ Kept(list, ids) \in Seq(Entry)
         /\ Len(Kept(list, ids)) = Cardinality(ids) /\ Cardinality(ids) \in Nat
         /\ \A k \in 1 .. Cardinality(ids) : Kept(list, ids)[k].id =
              list[InOrder(Places(list, ids), Zeros(Places(list, ids)))[k]].id
         /\ {Kept(list, ids)[k].id : k \in 1 .. Cardinality(ids)} = ids
<1> DEFINE I == Places(list, ids)
           n == Len(Costs)
           kept == Kept(list, ids)
<1>1. /\ n \in Nat /\ DOMAIN Costs = 1 .. n /\ DOMAIN list = 1 .. n /\ list \in Seq(Entry)
      /\ \A i \in 1 .. n : list[i] \in Entry
  BY ListLength
<1>2. I \in SUBSET DOMAIN list /\ I \in SUBSET (1 .. n)
  BY <1>1 DEF Places
<1>3. kept = Taken(list, I, Zeros(I))
  BY DEF Kept, Only, Zeros, Places
<1>4. Cardinality(I) = Cardinality(ids)
  <2> DEFINE f == [i \in I |-> list[i].id]
  <2>1. f \in [I -> ids]
    BY DEF Places
  <2>2. f \in Injection(I, ids)
    <3>1. \A i, j \in I : f[i] = f[j] => i = j
      BY <1>2 DEF IsList, Once
    <3> QED BY <2>1, <3>1 DEF Injection, IsInjective
  <2>3. f \in Surjection(I, ids)
    <3>1. ASSUME NEW w \in ids
          PROVE  \E i \in I : f[i] = w
      <4>1. PICK i \in 1 .. n : list[i].id = w
        BY DEF IsList, Every
      <4>2. i \in I
        BY <1>1, <4>1 DEF Places
      <4> QED BY <4>1, <4>2
    <3> QED BY <2>1, <3>1 DEF Surjection
  <2> HIDE DEF f, I
  <2>4. f \in Bijection(I, ids)
    BY <2>2, <2>3 DEF Bijection
  <2>5. ExistsBijection(I, ids)
    BY <2>4 DEF ExistsBijection
  <2>6. IsFiniteSet(I)
    BY <1>1, <1>2, PlacesFinite
  <2> QED BY <2>5, <2>6, FS_Bijection
<1> HIDE DEF I, kept
<1>5. /\ kept \in Seq(Entry) /\ Len(kept) = Cardinality(I) /\ Cardinality(I) \in Nat
      /\ \A k \in 1 .. Cardinality(I) :
           InOrder(I, Zeros(I))[k] \in I /\ kept[k] = list[InOrder(I, Zeros(I))[k]]
  BY <1>1, <1>2, <1>3, KeptReturns
<1>6. \A i \in I : \E k \in 1 .. Cardinality(I) : InOrder(I, Zeros(I))[k] = i
  BY <1>1, <1>2, KeptReturns
<1>7. ASSUME NEW w \in ids
      PROVE  \E k \in 1 .. Cardinality(I) : kept[k].id = w
  <2>1. PICK i \in 1 .. n : list[i].id = w
    BY DEF IsList, Every
  <2>2. i \in I
    BY <1>1, <2>1 DEF Places, I
  <2>3. PICK k \in 1 .. Cardinality(I) : InOrder(I, Zeros(I))[k] = i
    BY <1>6, <2>2
  <2> QED BY <1>5, <2>1, <2>3
<1>8. ASSUME NEW k \in 1 .. Cardinality(I)
      PROVE  kept[k].id \in ids
  BY <1>5 DEF Places, I
<1>9. {kept[k].id : k \in 1 .. Cardinality(I)} = ids
  BY <1>7, <1>8
<1> QED BY <1>4, <1>5, <1>9 DEF kept, I

\* Two pages of what is kept.
LEMMA PageReturns ==
  ASSUME NEW S, NEW s \in Seq(S), NEW k \in {0, 1}
  PROVE  /\ Page(s, k) \in Seq(S)
         /\ Len(Page(s, k)) = IF Len(s) <= k * Limit THEN 0
                              ELSE Lesser(Limit, Len(s) - k * Limit)
         /\ \A i \in 1 .. Len(Page(s, k)) : Page(s, k)[i] = s[k * Limit + i]
<1>0. Limit \in Nat \ {0} /\ Len(s) \in Nat
  BY ListingAssumption
<1> DEFINE a == k * Limit
           m == Lesser((k + 1) * Limit, Len(s))
<1>1. a \in {0, Limit} /\ (k + 1) * Limit = a + Limit /\ a \in Nat
  <2>1. CASE k = 0
    BY <1>0, <2>1
  <2>2. CASE k = 1
    BY <1>0, <2>2
  <2> QED BY <2>1, <2>2
<1>2. m = Lesser(a + Limit, Len(s))
  BY <1>1
<1> HIDE DEF a
<1>3. m \in Nat /\ m <= Len(s) /\ m <= a + Limit /\ m \in {a + Limit, Len(s)}
  BY <1>0, <1>1, <1>2 DEF Lesser
<1>4. Page(s, k) = SubSeq(s, a + 1, m)
  BY DEF Page, a
<1> HIDE DEF m
<1>5. \A i \in a + 1 .. m : s[i] \in S
  BY <1>0, <1>1, <1>3
<1>6. /\ SubSeq(s, a + 1, m) \in Seq(S)
      /\ Len(SubSeq(s, a + 1, m)) = IF a + 1 <= m THEN m - (a + 1) + 1 ELSE 0
      /\ \A i \in 1 .. m - (a + 1) + 1 : SubSeq(s, a + 1, m)[i] = s[a + 1 + i - 1]
  BY <1>1, <1>3, <1>5, SubSeqProperties
<1>7. Len(Page(s, k)) = IF Len(s) <= a THEN 0 ELSE Lesser(Limit, Len(s) - a)
  BY <1>0, <1>1, <1>3, <1>4, <1>6, <1>2 DEF Lesser
<1>8. ASSUME NEW i \in 1 .. Len(Page(s, k))
      PROVE  Page(s, k)[i] = s[a + i]
  <2>1. i \in 1 .. m - (a + 1) + 1 /\ a + 1 + i - 1 = a + i
    BY <1>1, <1>3, <1>4, <1>6
  <2> QED BY <1>4, <1>6, <2>1
<1> QED BY <1>4, <1>6, <1>7, <1>8 DEF a

\* Two pages of lists in the same order have every watch asked for, once.
Covers(both, ids) ==
  {both[i].id : i \in DOMAIN both} = ids /\ Len(both) = Cardinality(ids)

LEMMA PagesWhole ==
  ASSUME NEW list, NEW next, IsList(list), IsList(next), SameOrder(list, next),
         NEW ids \in SUBSET DOMAIN Costs, Cardinality(ids) <= 2 * Limit,
         NEW both, both = PageOf(list, ids, 0) \o PageOf(next, ids, 1)
  PROVE  Covers(both, ids)
<1> DEFINE c == Cardinality(ids)
           a == Kept(list, ids)
           b == Kept(next, ids)
           p == PageOf(list, ids, 0)
           q == PageOf(next, ids, 1)
<1>1. Places(list, ids) = Places(next, ids)
  <2>1. DOMAIN list = 1 .. Len(Costs) /\ DOMAIN next = 1 .. Len(Costs)
    BY ListLength
  <2> QED BY <2>1 DEF Places, SameOrder
<1>2. /\ a \in Seq(Entry) /\ Len(a) = c /\ c \in Nat
      /\ b \in Seq(Entry) /\ Len(b) = c
      /\ {a[k].id : k \in 1 .. c} = ids
  BY KeptWatches
<1>3. ASSUME NEW k \in 1 .. c
      PROVE  a[k].id = b[k].id
  <2> DEFINE place == InOrder(Places(list, ids), Zeros(Places(list, ids)))
  <2>1. a[k].id = list[place[k]].id
    BY KeptWatches
  <2>2. b[k].id = next[place[k]].id
    BY <1>1, KeptWatches
  <2>3. place[k] \in 1 .. Len(Costs)
    <3>1. list \in Seq(Entry) /\ DOMAIN list = 1 .. Len(Costs)
      BY ListLength
    <3>2. Places(list, ids) \in SUBSET DOMAIN list
      BY DEF Places
    <3>3. Cardinality(Places(list, ids)) = c
      <4>1. Len(Kept(list, ids)) = Cardinality(Places(list, ids))
        BY <3>1, <3>2, KeptReturns DEF Kept, Only, Zeros, Places
      <4> QED BY <1>2, <4>1
    <3>4. place[k] \in Places(list, ids)
      BY <3>1, <3>2, <3>3, KeptReturns
    <3> QED BY <3>1, <3>2, <3>4
  <2> QED BY <2>1, <2>2, <2>3 DEF SameOrder
<1>4. Limit \in Nat \ {0}
  BY ListingAssumption
<1>5. p = Page(a, 0) /\ q = Page(b, 1)
  BY DEF PageOf, Kept
<1> HIDE DEF a, b, c, p, q
<1>6. /\ p \in Seq(Entry) /\ Len(p) = Lesser(Limit, c)
      /\ \A i \in 1 .. Len(p) : p[i] = a[i]
  <2>1. 0 * Limit = 0 /\ c - 0 = c
    BY <1>2, <1>4
  <2>2. /\ p \in Seq(Entry)
        /\ Len(p) = IF c <= 0 THEN 0 ELSE Lesser(Limit, c)
        /\ \A i \in 1 .. Len(p) : p[i] = a[0 + i]
    BY <1>2, <1>5, <2>1, PageReturns
  <2>3. Len(p) = Lesser(Limit, c) /\ Len(p) \in Nat
    BY <1>2, <1>4, <2>2 DEF Lesser
  <2>4. \A i \in 1 .. Len(p) : 0 + i = i
    OBVIOUS
  <2> QED BY <2>2, <2>3, <2>4
<1>7. /\ q \in Seq(Entry) /\ Len(q) = IF c <= Limit THEN 0 ELSE Lesser(Limit, c - Limit)
      /\ \A i \in 1 .. Len(q) : q[i] = b[Limit + i]
  <2>1. 1 * Limit = Limit
    BY <1>4
  <2> QED BY <1>2, <1>5, <2>1, PageReturns
<1>8. Len(p) + Len(q) = c /\ Len(p) \in Nat /\ Len(q) \in Nat /\ c <= 2 * Limit
      /\ (Len(q) # 0 => Len(p) = Limit)
  <2>1. c <= 2 * Limit
    BY DEF c
  <2> QED BY <1>2, <1>4, <1>6, <1>7, <2>1 DEF Lesser
<1>9. /\ both \in Seq(Entry) /\ Len(both) = c
      /\ \A i \in 1 .. c : both[i] = IF i <= Len(p) THEN p[i] ELSE q[i - Len(p)]
  <2>1. both = p \o q
    BY DEF p, q
  <2>2. p \in Seq(Entry) /\ q \in Seq(Entry) /\ Len(p) + Len(q) = c
    BY <1>6, <1>7, <1>8
  <2>3. /\ both \in Seq(Entry) /\ Len(both) = Len(p) + Len(q)
        /\ \A i \in 1 .. Len(p) + Len(q) :
             both[i] = IF i <= Len(p) THEN p[i] ELSE q[i - Len(p)]
    BY <2>1, <2>2, ConcatProperties
  <2> QED BY <2>2, <2>3
<1>10. ASSUME NEW i \in 1 .. c
       PROVE  both[i].id = a[i].id
  <2>1. CASE i <= Len(p)
    BY <1>6, <1>8, <1>9, <2>1
  <2>2. CASE ~ (i <= Len(p))
    <3>1. Len(p) \in Nat /\ Len(q) \in Nat /\ Len(p) + Len(q) = c /\ i \in 1 .. c
      BY <1>8
    <3>2. i - Len(p) \in 1 .. Len(q) /\ Len(q) # 0
      BY <2>2, <3>1
    <3>3. Limit + (i - Len(p)) = i
      <4>1. Len(p) = Limit
        BY <1>8, <3>2
      <4>2. i \in Int /\ Limit \in Int
        BY <1>4, <3>1
      <4> QED BY <4>1, <4>2
    <3>4. both[i] = b[i]
      BY <1>7, <1>9, <2>2, <3>2, <3>3
    <3> QED BY <1>3, <3>4
  <2> QED BY <2>1, <2>2
<1>11. DOMAIN both = 1 .. c
  BY <1>9
<1>12. {both[i].id : i \in DOMAIN both} = {a[k].id : k \in 1 .. c}
  BY <1>10, <1>11
<1> QED BY <1>2, <1>9, <1>12 DEF c, Covers

LEMMA ReaderSees == ReaderInv => PagesCover
<1> SUFFICES ASSUME ReaderInv, Len(reader.pages) = 2, Cardinality(reader.ids) <= 2 * Limit,
                    NEW both, both = reader.pages[1] \o reader.pages[2],
                    \/ reader.key \in {"oldest", "newest"}
                    \/ /\ reader.key \in {"cheapest", "dearest"}
                       /\ reader.seen[1] = reader.seen[2] /\ Distinct(reader.seen[1])
                    \/ ~ stirred
             PROVE  Covers(both, reader.ids)
  BY DEF PagesCover, Covers
<1>1. ~ NoPages /\ ~ (\E list : OnePage(list))
  <2>1. NoPages => Len(reader.pages) = 0
    BY DEF NoPages
  <2>2. \A list : OnePage(list) => Len(reader.pages) = 1
    BY DEF OnePage
  <2> QED BY <2>1, <2>2
<1>2. PICK list, next : TwoPages(list, next)
  BY <1>1 DEF ReaderInv
<1>3. /\ IsList(list) /\ IsList(next)
      /\ InRank(reader.key, list) /\ InRank(reader.key, next)
      /\ reader.pages[1] = PageOf(list, reader.ids, 0)
      /\ reader.pages[2] = PageOf(next, reader.ids, 1)
      /\ reader.seen[1] = Elements(list) /\ reader.seen[2] = Elements(next)
      /\ ~ stirred => next = list
  BY <1>2 DEF TwoPages, Shown
<1>4. SameOrder(list, next)
  <2>1. CASE reader.key \in {"oldest", "newest"}
    BY <1>3, <2>1, SameByDate
  <2>2. CASE /\ reader.key \in {"cheapest", "dearest"}
             /\ reader.seen[1] = reader.seen[2] /\ Distinct(reader.seen[1])
    BY <1>3, <2>2, SameByPrice
  <2>3. CASE ~ stirred
    BY <1>3, <2>3 DEF SameOrder
  <2> QED BY <2>1, <2>2, <2>3
<1>5. reader.ids \in SUBSET DOMAIN Costs
  BY DEF ReaderInv
<1>6. both = PageOf(list, reader.ids, 0) \o PageOf(next, reader.ids, 1)
  BY <1>3
<1>7. IsList(list) /\ IsList(next)
  BY <1>3
<1> QED BY <1>4, <1>5, <1>6, <1>7, PagesWhole

\* Pages together show every watch once: sorted by date whoever else sorts the
\* list, by price while prices differ and stay, and otherwise while nobody does;
\* for any number of watches, sizes of pages, and filters.
THEOREM PagesCoverTheList == Spec => []PagesCover
<1>1. Init => WorthInv /\ ReaderInv
  BY WorthStart, ReaderStart
<1>2. WorthInv /\ ReaderInv /\ [Next]_allVars => (WorthInv /\ ReaderInv)'
  BY WorthStep, ReaderStep
<1> QED BY <1>1, <1>2, ReaderSees, PTL DEF Spec

-----------------------------------------------------------------------------
(* The last day: what is recent of a sequence in the order of time. *)

Dated(s) == \A i \in DOMAIN s : s[i].at \in Int

\* The first e are over a day old at t.
OldUpTo(s, t, e) == \A i \in 1 .. Len(s) : t - s[i].at < Day <=> e < i

\* What is not recent is at the beginning.
LEMMA OldComeFirst ==
  ASSUME NEW S, NEW s \in Seq(S), Dated(s), Timely(s), NEW t \in Int
  PROVE  \E e \in 0 .. Len(s) : OldUpTo(s, t, e)
<1> USE DEF OldUpTo
<1> DEFINE n == Len(s)
           I == {i \in 1 .. n : ~ (t - s[i].at < Day)}
<1>1. n \in Nat /\ DOMAIN s = 1 .. n /\ Day \in Int
  BY StatsAssumption
<1>2. CASE I = {}
  <2>1. \A i \in 1 .. n : t - s[i].at < Day <=> 0 < i
    BY <1>2
  <2> QED BY <1>1, <2>1
<1>3. CASE I # {}
  <2>1. PICK e \in I : \A i \in I : i <= e
    <3>1. I \in SUBSET (1 .. n)
      OBVIOUS
    <3> HIDE DEF I
    <3> QED BY <1>1, <1>3, <3>1, Greatest
  <2>2. e \in 1 .. n /\ ~ (t - s[e].at < Day)
    BY <2>1
  <2>3. ASSUME NEW i \in 1 .. n
        PROVE  t - s[i].at < Day <=> e < i
    <3>1. s[i].at \in Int /\ s[e].at \in Int
      BY <1>1, <2>2 DEF Dated
    <3>2. CASE e < i
      <4>1. ~ (i <= e)
        BY <1>1, <2>2, <3>2
      <4> QED BY <2>1, <3>2, <4>1
    <3>3. CASE i = e
      BY <1>1, <2>2, <3>3
    <3>4. CASE i < e
      <4>1. s[i].at <= s[e].at
        BY <1>1, <2>2, <3>4 DEF Timely
      <4>2. ~ (t - s[i].at < Day)
        BY <1>1, <2>2, <3>1, <4>1
      <4> QED BY <1>1, <2>2, <3>4, <4>2
    <3> QED BY <1>1, <2>2, <3>2, <3>3, <3>4
  <2> QED BY <1>1, <2>2, <2>3
<1> QED BY <1>2, <1>3

LEMMA RecentReturns ==
  ASSUME NEW S, NEW s \in Seq(S), NEW t, NEW e \in 0 .. Len(s), OldUpTo(s, t, e)
  PROVE  /\ Recent(s, t) \in Seq(S) /\ Len(Recent(s, t)) = Len(s) - e
         /\ \A k \in 1 .. Len(s) - e : Recent(s, t)[k] = s[e + k]
<1> DEFINE n == Len(s)
           I == {i \in DOMAIN s : t - s[i].at < Day}
           r == Taken(s, I, Zeros(I))
           p == InOrder(I, Zeros(I))
           f == [k \in 1 .. n - e |-> e + k]
<1>1. n \in Nat /\ DOMAIN s = 1 .. n /\ e \in Nat /\ e <= n
  OBVIOUS
<1>2. Recent(s, t) = r
  BY DEF Recent, Only, Zeros
<1>3. I = e + 1 .. n
  BY <1>1 DEF OldUpTo
<1> HIDE DEF n, I
<1>4. Cardinality(I) = n - e
  <2>1. e + 1 \in Int /\ n \in Int
    BY <1>1
  <2>2. Cardinality(e + 1 .. n) = IF e + 1 > n THEN 0 ELSE n - (e + 1) + 1
    BY <2>1, FS_Interval
  <2> QED BY <1>1, <1>3, <2>2
<1>5. I \in SUBSET DOMAIN s
  BY <1>1, <1>3
<1>6. /\ r \in Seq(S) /\ Len(r) = n - e
      /\ \A k \in 1 .. n - e : p[k] \in I /\ r[k] = s[p[k]]
  BY <1>4, <1>5, KeptReturns
<1>7. Rises(p, n - e)
  BY <1>4, <1>5, KeptReturns DEF Rises
<1>8. \A i \in I : \E k \in 1 .. n - e : p[k] = i
  BY <1>4, <1>5, KeptReturns
<1>9. \A k \in 1 .. n - e : f[k] = e + k
  OBVIOUS
<1> HIDE DEF r, p, f
<1>10. Whole(p, n - e) /\ Whole(f, n - e) /\ Rises(f, n - e)
  BY <1>1, <1>3, <1>6, <1>9 DEF Whole, Rises
<1>11. Within(f, p, n - e)
  <2>1. SUFFICES ASSUME NEW k \in 1 .. n - e
                 PROVE  \E l \in 1 .. n - e : p[l] = f[k]
    BY DEF Within
  <2>2. f[k] \in I
    BY <1>1, <1>3, <1>9
  <2> QED BY <1>8, <2>2
<1>12. Within(p, f, n - e)
  <2>1. SUFFICES ASSUME NEW k \in 1 .. n - e
                 PROVE  \E l \in 1 .. n - e : f[l] = p[k]
    BY DEF Within
  <2>2. p[k] \in e + 1 .. n
    BY <1>3, <1>6
  <2>3. p[k] - e \in 1 .. n - e /\ e + (p[k] - e) = p[k]
    BY <1>1, <2>2
  <2> QED BY <1>9, <2>3
<1>13. n - e \in Nat
  BY <1>1
<1>14. \A k \in 1 .. n - e : f[k] = p[k]
  BY <1>7, <1>10, <1>11, <1>12, <1>13, SameSteps
<1> QED BY <1>2, <1>6, <1>9, <1>14 DEF n

-----------------------------------------------------------------------------
(* Sums over a sequence. *)

\* The first m turns of a recursion, of whatever step.
Turns(g, f, m) ==
  f \in [0 .. m -> Int] /\ f[0] = 0 /\ \A k \in 1 .. m : f[k] = g[k][f[k - 1]]

LEMMA TurnsExist ==
  ASSUME NEW n \in Nat, NEW g \in [1 .. n -> [Int -> Int]]
  PROVE  \E f : Turns(g, f, n)
<1> DEFINE X == {m \in Nat : m <= n => \E f : Turns(g, f, m)}
<1>1. 0 \in X
  <2> DEFINE f == [k \in 0 .. 0 |-> 0]
  <2>1. Turns(g, f, 0)
    BY DEF Turns
  <2> QED BY <2>1
<1>2. ASSUME NEW m \in Nat, m \in X, m + 1 <= n
      PROVE  \E f : Turns(g, f, m + 1)
  <2>1. PICK f : Turns(g, f, m)
    BY <1>2
  <2> DEFINE h == [k \in 0 .. m + 1 |-> IF k = m + 1 THEN g[m + 1][f[m]] ELSE f[k]]
  <2>2. f[m] \in Int /\ m + 1 \in 1 .. n
    BY <1>2, <2>1 DEF Turns
  <2>3. g[m + 1][f[m]] \in Int
    BY <2>2
  <2>4. h \in [0 .. m + 1 -> Int] /\ h[0] = 0
    BY <2>1, <2>3 DEF Turns
  <2>5. ASSUME NEW k \in 1 .. m + 1
        PROVE  h[k] = g[k][h[k - 1]]
    <3>1. CASE k = m + 1
      <4>1. h[k] = g[m + 1][f[m]] /\ h[k - 1] = f[m]
        BY <3>1
      <4> QED BY <3>1, <4>1
    <3>2. CASE k # m + 1
      <4>1. k \in 1 .. m /\ h[k] = f[k] /\ h[k - 1] = f[k - 1]
        BY <3>2
      <4> QED BY <2>1, <4>1 DEF Turns
    <3> QED BY <3>1, <3>2
  <2> HIDE DEF h
  <2>6. Turns(g, h, m + 1)
    BY <2>4, <2>5 DEF Turns
  <2> QED BY <2>6
<1>3. ASSUME NEW m \in Nat, m \in X
      PROVE  m + 1 \in X
  <2>1. m + 1 <= n => \E f : Turns(g, f, m + 1)
    BY <1>2, <1>3
  <2> QED BY <2>1
<1>4. n \in X
  <2> HIDE DEF X
  <2>1. Nat \subseteq X
    BY <1>1, <1>3, Inductive
  <2> QED BY <2>1
<1> QED BY <1>4

Deal == [at : Int, usd : Nat]

LEMMA DealFields ==
  ASSUME NEW deals \in Seq(Deal)
  PROVE  /\ Len(deals) \in Nat /\ DOMAIN deals = 1 .. Len(deals)
         /\ \A k \in 1 .. Len(deals) : deals[k].at \in Int /\ deals[k].usd \in Nat
<1>1. Len(deals) \in Nat /\ DOMAIN deals = 1 .. Len(deals)
  OBVIOUS
<1>2. \A k \in 1 .. Len(deals) : deals[k] \in Deal
  OBVIOUS
<1>3. \A x \in Deal : x.at \in Int /\ x.usd \in Nat
  BY DEF Deal
<1> QED BY <1>1, <1>2, <1>3

\* The sums of the model are what their equations say.
LEMMA VolumeOfSums ==
  ASSUME NEW deals \in Seq(Deal)
  PROVE  \E f : /\ VolumeOf(deals) = f[Len(deals)]
                /\ f = [n \in 0 .. Len(deals) |-> IF n = 0 THEN 0 ELSE f[n - 1] + deals[n].usd]
<1> DEFINE N == Len(deals)
           g == [k \in 1 .. N |-> [acc \in Int |-> acc + deals[k].usd]]
           Sums(f) == f = [n \in 0 .. N |-> IF n = 0 THEN 0 ELSE f[n - 1] + deals[n].usd]
<1>1. N \in Nat /\ \A k \in 1 .. N : deals[k].usd \in Int
  BY DealFields
<1>2. g \in [1 .. N -> [Int -> Int]]
  BY <1>1
<1>3. \A k \in 1 .. N, acc \in Int : g[k][acc] = acc + deals[k].usd
  OBVIOUS
<1> HIDE DEF g, N
<1>4. PICK f : Turns(g, f, N)
  BY <1>1, <1>2, TurnsExist
<1>5. Sums(f)
  <2>1. ASSUME NEW k \in 0 .. N
        PROVE  f[k] = IF k = 0 THEN 0 ELSE f[k - 1] + deals[k].usd
    <3>1. CASE k = 0
      BY <1>4, <3>1 DEF Turns
    <3>2. CASE k # 0
      <4>1. k \in 1 .. N /\ k - 1 \in 0 .. N
        BY <1>1, <3>2
      <4>2. f[k - 1] \in Int
        BY <1>4, <4>1 DEF Turns
      <4> QED BY <1>3, <1>4, <3>2, <4>1, <4>2 DEF Turns
    <3> QED BY <3>1, <3>2
  <2>2. f = [k \in 0 .. N |-> f[k]]
    BY <1>4 DEF Turns
  <2> QED BY <2>1, <2>2
<1>6. VolumeOf(deals) = (CHOOSE sum : Sums(sum))[N]
  BY DEF VolumeOf, N
<1> QED BY <1>5, <1>6 DEF N

LEMMA AddVolumeReturns ==
  ASSUME NEW acc \in Int, NEW deal, deal.at \in Int, deal.usd \in Nat, now \in Int
  PROVE  /\ AddVolume(acc, deal) \in Int
         /\ now - deal.at >= Day => AddVolume(acc, deal) = Undefined
         /\ ~ (now - deal.at >= Day) /\ acc < 0 => AddVolume(acc, deal) = NaN
         /\ ~ (now - deal.at >= Day) /\ ~ (acc < 0) => AddVolume(acc, deal) = acc + deal.usd
BY DEF AddVolume, Undefined, NaN

\* The volume of a day, turn by turn.
LEMMA VolumeTurns ==
  ASSUME watch.deals24 \in Seq(Deal), now \in Int
  PROVE  \E f : /\ Volume24 = IF f[Len(watch.deals24)] = Undefined THEN 0
                              ELSE f[Len(watch.deals24)]
                /\ f = [n \in 0 .. Len(watch.deals24) |->
                          IF n = 0 THEN 0 ELSE AddVolume(f[n - 1], watch.deals24[n])]
<1> DEFINE deals == watch.deals24
           N == Len(deals)
           g == [k \in 1 .. N |-> [acc \in Int |-> AddVolume(acc, deals[k])]]
           Sums(f) == f = [n \in 0 .. N |-> IF n = 0 THEN 0 ELSE AddVolume(f[n - 1], deals[n])]
<1>1. N \in Nat /\ \A k \in 1 .. N : deals[k].at \in Int /\ deals[k].usd \in Nat
  BY DealFields
<1>2. \A k \in 1 .. N, acc \in Int : AddVolume(acc, deals[k]) \in Int
  BY <1>1, AddVolumeReturns
<1>3. g \in [1 .. N -> [Int -> Int]]
  BY <1>2
<1>4. \A k \in 1 .. N, acc \in Int : g[k][acc] = AddVolume(acc, deals[k])
  OBVIOUS
<1> HIDE DEF g, N, deals
<1>5. PICK f : Turns(g, f, N)
  BY <1>1, <1>3, TurnsExist
<1>6. Sums(f)
  <2>1. ASSUME NEW k \in 0 .. N
        PROVE  f[k] = IF k = 0 THEN 0 ELSE AddVolume(f[k - 1], deals[k])
    <3>1. CASE k = 0
      BY <1>5, <3>1 DEF Turns
    <3>2. CASE k # 0
      <4>1. k \in 1 .. N /\ k - 1 \in 0 .. N
        BY <1>1, <3>2
      <4>2. f[k - 1] \in Int
        BY <1>5, <4>1 DEF Turns
      <4> QED BY <1>4, <1>5, <3>2, <4>1, <4>2 DEF Turns
    <3> QED BY <3>1, <3>2
  <2>2. f = [k \in 0 .. N |-> f[k]]
    BY <1>5 DEF Turns
  <2> QED BY <2>1, <2>2
<1>7. Volume24 = LET sum == CHOOSE sum : Sums(sum) IN IF sum[N] = Undefined THEN 0 ELSE sum[N]
  BY DEF Volume24, N, deals
<1> QED BY <1>6, <1>7 DEF N, deals

\* Deals that are all recent are summed up; one that is not makes the sum what
\* is not a number, or nothing if it is the last.
LEMMA VolumeReturns ==
  ASSUME watch.deals24 \in Seq(Deal), now \in Int, NEW e \in 0 .. Len(watch.deals24),
         OldUpTo(watch.deals24, now, e)
  PROVE  /\ e = 0 => Volume24 = VolumeOf(watch.deals24)
         /\ 0 < e /\ e = Len(watch.deals24) => Volume24 = 0
         /\ 0 < e /\ e < Len(watch.deals24) => Volume24 = NaN
<1> DEFINE deals == watch.deals24
           N == Len(deals)
<1>1. N \in Nat /\ \A k \in 1 .. N : deals[k].at \in Int /\ deals[k].usd \in Nat
  BY DealFields
<1>2. PICK f : /\ Volume24 = IF f[N] = Undefined THEN 0 ELSE f[N]
               /\ f = [n \in 0 .. N |-> IF n = 0 THEN 0 ELSE AddVolume(f[n - 1], deals[n])]
  BY VolumeTurns
<1>3. PICK h : /\ VolumeOf(deals) = h[N]
               /\ h = [n \in 0 .. N |-> IF n = 0 THEN 0 ELSE h[n - 1] + deals[n].usd]
  BY VolumeOfSums
<1>4. \A i \in 1 .. N : now - deals[i].at < Day <=> e < i
  BY DEF OldUpTo
<1>5. e \in Nat /\ e <= N
  OBVIOUS
<1>6. f[0] = 0 /\ \A k \in 1 .. N : f[k] = AddVolume(f[k - 1], deals[k])
  <2>1. \A k \in 0 .. N : f[k] = IF k = 0 THEN 0 ELSE AddVolume(f[k - 1], deals[k])
    BY <1>2
  <2>2. \A k \in 1 .. N : k \in 0 .. N /\ k # 0
    BY <1>1
  <2> QED BY <1>1, <2>1, <2>2
<1>7. h[0] = 0 /\ \A k \in 1 .. N : h[k] = h[k - 1] + deals[k].usd
  <2>1. \A k \in 0 .. N : h[k] = IF k = 0 THEN 0 ELSE h[k - 1] + deals[k].usd
    BY <1>3
  <2>2. \A k \in 1 .. N : k \in 0 .. N /\ k # 0
    BY <1>1
  <2> QED BY <1>1, <2>1, <2>2
<1>8. Volume24 = IF f[N] = Undefined THEN 0 ELSE f[N]
  BY <1>2
<1>9. VolumeOf(deals) = h[N]
  BY <1>3
<1> HIDE DEF deals, N
<1>10. \A k \in 1 .. N : ~ (now - deals[k].at >= Day) <=> e < k
  <2>1. \A k \in 1 .. N : now - deals[k].at \in Int /\ Day \in Int
    BY <1>1, StatsAssumption
  <2> QED BY <1>4, <2>1
<1>11. CASE e = 0
  <2> DEFINE X == {m \in Nat : m <= N => f[m] = h[m] /\ f[m] \in Nat}
  <2>1. 0 \in X
    BY <1>6, <1>7
  <2>2. ASSUME NEW m \in Nat, m \in X
        PROVE  m + 1 \in X
    <3>1. SUFFICES ASSUME m + 1 <= N
                   PROVE  f[m + 1] = h[m + 1] /\ f[m + 1] \in Nat
      OBVIOUS
    <3>2. f[m] = h[m] /\ f[m] \in Nat /\ m + 1 \in 1 .. N /\ m + 1 - 1 = m
      BY <1>1, <2>2, <3>1
    <3>3. ~ (now - deals[m + 1].at >= Day)
      BY <1>10, <1>11, <3>2
    <3>4. f[m + 1] = AddVolume(f[m], deals[m + 1]) /\ h[m + 1] = h[m] + deals[m + 1].usd
      BY <1>6, <1>7, <3>2
    <3>5. f[m] \in Int /\ ~ (f[m] < 0) /\ deals[m + 1].at \in Int /\ deals[m + 1].usd \in Nat
      BY <1>1, <3>2
    <3>6. f[m + 1] = f[m] + deals[m + 1].usd
      BY <3>3, <3>4, <3>5, AddVolumeReturns
    <3> QED BY <3>2, <3>4, <3>5, <3>6
  <2>3. N \in X
    <3> HIDE DEF X
    <3>1. Nat \subseteq X
      BY <2>1, <2>2, Inductive
    <3> QED BY <1>1, <3>1
  <2>4. f[N] = h[N] /\ f[N] \in Nat /\ f[N] # Undefined
    BY <1>1, <2>3 DEF Undefined
  <2> QED BY <1>8, <1>9, <1>11, <2>4 DEF N, deals
<1>12. CASE 0 < e
  <2> DEFINE P(m) == /\ f[m] \in Int
                     /\ 0 < m /\ m <= e => f[m] = Undefined
                     /\ e < m => f[m] = NaN
             X == {m \in Nat : m <= N => P(m)}
  <2>1. 0 \in X
    BY <1>5, <1>6
  <2>2. ASSUME NEW m \in Nat, m \in X
        PROVE  m + 1 \in X
    <3>1. SUFFICES ASSUME m + 1 <= N
                   PROVE  P(m + 1)
      OBVIOUS
    <3>2. P(m) /\ m + 1 \in 1 .. N /\ m + 1 - 1 = m
      BY <1>1, <2>2, <3>1
    <3>3. f[m + 1] = AddVolume(f[m], deals[m + 1])
      BY <1>6, <3>2
    <3>4. f[m] \in Int /\ deals[m + 1].at \in Int /\ deals[m + 1].usd \in Nat
      BY <1>1, <3>2
    <3>5. f[m + 1] \in Int
      BY <3>3, <3>4, AddVolumeReturns
    <3>6. CASE m + 1 <= e
      <4>1. now - deals[m + 1].at >= Day
        <5>1. ~ (e < m + 1)
          BY <1>5, <3>6
        <5> QED BY <1>10, <3>2, <5>1
      <4>2. f[m + 1] = Undefined
        BY <3>3, <3>4, <4>1, AddVolumeReturns
      <4> QED BY <1>5, <3>5, <3>6, <4>2
    <3>7. CASE e < m + 1
      <4>1. ~ (now - deals[m + 1].at >= Day)
        BY <1>10, <3>2, <3>7
      <4>2. f[m] < 0
        <5>1. 0 < m /\ (m <= e \/ e < m)
          BY <1>5, <1>12, <3>7
        <5> QED BY <3>2, <5>1 DEF Undefined, NaN
      <4>3. f[m + 1] = NaN
        BY <3>3, <3>4, <4>1, <4>2, AddVolumeReturns
      <4> QED BY <1>5, <3>5, <3>7, <4>3
    <3> QED BY <1>5, <3>6, <3>7
  <2>3. N \in X
    <3> HIDE DEF X
    <3>1. Nat \subseteq X
      BY <2>1, <2>2, Inductive
    <3> QED BY <1>1, <3>1
  <2>4. e = N => f[N] = Undefined
    BY <1>1, <1>5, <1>12, <2>3
  <2>5. e < N => f[N] = NaN
    BY <1>1, <1>5, <2>3
  <2> QED BY <1>5, <1>8, <1>12, <2>4, <2>5 DEF N, deals, NaN, Undefined
<1> QED BY <1>5, <1>11, <1>12

-----------------------------------------------------------------------------
(* The deals of a day. *)

\* The list of the last deals is the end of all deals; what is left out is over
\* a day old.
EndOf(s, all, m) ==
  Len(s) = Len(all) - m /\ \A k \in 1 .. Len(all) - m : s[k] = all[m + k]

LeftOut(m) ==
  /\ EndOf(watch.deals24, dealt, m)
  /\ \A j \in 1 .. m : ~ (now - dealt[j].at < Day)
  /\ dealt # <<>> => m < Len(dealt)

DealsInv ==
  /\ dealt \in Seq(Deal) /\ Timely(dealt)
  /\ \A i \in DOMAIN dealt : dealt[i].at <= now
  /\ watch.deals24 \in Seq(Deal)
  /\ \E m \in 0 .. Len(dealt) : LeftOut(m)

LEMMA DealsStart == Init => DealsInv
<1> SUFFICES ASSUME Init
             PROVE  DealsInv
  OBVIOUS
<1>1. dealt = <<>> /\ watch.deals24 = <<>>
  BY DEF Init, StatsInit
<1>2. LeftOut(0)
  BY <1>1 DEF LeftOut, EndOf
<1> QED BY <1>1, <1>2 DEF DealsInv, Timely

\* Time goes on.
LEMMA DealsAge ==
  ASSUME ClockInv, DealsInv, dealt' = dealt, watch'.deals24 = watch.deals24,
         now' = now + 1 \/ now' = now
  PROVE  DealsInv'
<1>1. PICK m \in 0 .. Len(dealt) : LeftOut(m)
  BY DEF DealsInv
<1>2. \A i \in 1 .. Len(dealt) : dealt[i].at \in Int
  BY DealFields DEF DealsInv
<1>3. now \in Int /\ Day \in Int
  BY StatsAssumption DEF ClockInv
<1>4. ASSUME NEW j \in 1 .. m
      PROVE  ~ (now' - dealt[j].at < Day)
  <2>1. ~ (now - dealt[j].at < Day) /\ j \in 1 .. Len(dealt)
    BY <1>1 DEF LeftOut
  <2>2. dealt[j].at \in Int
    BY <1>2, <2>1
  <2> QED BY <1>3, <2>1, <2>2
<1>5. LeftOut(m)'
  BY <1>1, <1>4 DEF LeftOut, EndOf
<1>6. ASSUME NEW i \in DOMAIN dealt'
      PROVE  dealt'[i].at <= now'
  <2>1. dealt[i].at <= now /\ dealt[i].at \in Int
    BY <1>2 DEF DealsInv
  <2> QED BY <1>3, <2>1
<1>7. Timely(dealt)'
  BY DEF Timely, DealsInv
<1> QED BY <1>1, <1>5, <1>6, <1>7 DEF DealsInv

\* A deal more.
LEMMA DealAdded ==
  ASSUME NEW s \in Seq(Deal), Timely(s), NEW x \in Deal,
         s # <<>> => s[Len(s)].at <= x.at
  PROVE  /\ Append(s, x) \in Seq(Deal) /\ Timely(Append(s, x))
         /\ Len(Append(s, x)) = Len(s) + 1 /\ Append(s, x)[Len(s) + 1] = x
         /\ \A i \in 1 .. Len(s) : Append(s, x)[i] = s[i] /\ s[i].at <= x.at
<1> DEFINE t == Append(s, x)
           n == Len(s)
<1>1. /\ t \in Seq(Deal) /\ Len(t) = n + 1 /\ t[n + 1] = x
      /\ \A i \in 1 .. n : t[i] = s[i]
  BY AppendProperties
<1>2. n \in Nat /\ DOMAIN s = 1 .. n /\ DOMAIN t = 1 .. n + 1
  BY <1>1
<1>3. \A i \in 1 .. n : s[i].at \in Int
  BY DealFields
<1>4. x.at \in Int
  BY DEF Deal
<1> HIDE DEF t
<1> HIDE DEF n
<1>5. ASSUME NEW i \in 1 .. n
      PROVE  s[i].at <= x.at
  <2>1. n \in 1 .. n /\ s[n].at <= x.at
    <3>1. s # <<>>
      BY <1>2 DEF n
    <3> QED BY <1>2, <3>1 DEF n
  <2>2. CASE i = n
    BY <2>1, <2>2
  <2>3. CASE i # n
    <3>1. i < n /\ i \in DOMAIN s /\ n \in DOMAIN s
      BY <1>2, <2>1, <2>3
    <3>2. s[i].at <= s[n].at
      BY <3>1 DEF Timely
    <3> QED BY <1>3, <1>4, <2>1, <3>2
  <2> QED BY <2>2, <2>3
<1>6. ASSUME NEW i \in 1 .. n + 1, NEW j \in 1 .. n + 1, i < j
      PROVE  t[i].at <= t[j].at
  <2>1. i \in 1 .. n /\ t[i] = s[i]
    BY <1>1, <1>2, <1>6
  <2>2. CASE j = n + 1
    BY <1>1, <1>5, <2>1, <2>2
  <2>3. CASE j # n + 1
    BY <1>1, <1>2, <1>6, <2>1, <2>3 DEF Timely
  <2> QED BY <2>2, <2>3
<1> QED BY <1>1, <1>2, <1>5, <1>6 DEF Timely, t, n

LEMMA DealKeeps ==
  ASSUME ClockInv, WorthInv, DealsInv, NEW usd \in Amounts, NEW t \in {now - 1, now},
         UpdateDeal(usd, t)
  PROVE  DealsInv'
<1> DEFINE deal == [at |-> t, usd |-> usd]
           deals == DealsWith(deal)
           old == watch.deals24
           n == Len(dealt)
<1>1. now \in Nat /\ Day \in Int /\ 0 < Day /\ t \in Int /\ t <= now /\ usd \in Nat
  BY StatsAssumption DEF ClockInv
<1>2. deal \in Deal /\ deal.at = t
  BY <1>1 DEF Deal
<1>3. /\ dealt' = Append(dealt, deal) /\ now' = now
      /\ watch' = [watch EXCEPT !.deals24 = deals]
      /\ dealt # <<>> => dealt[Len(dealt)].at <= t
  BY DEF UpdateDeal, Last
<1> HIDE DEF deal, deals
<1>4. watch'.deals24 = deals
  BY <1>3 DEF WorthInv
<1>5. /\ dealt' \in Seq(Deal) /\ Timely(Append(dealt, deal))
      /\ Len(dealt') = n + 1 /\ dealt'[n + 1] = deal
      /\ \A i \in 1 .. n : dealt'[i] = dealt[i] /\ dealt[i].at <= t
  BY <1>2, <1>3, DealAdded DEF DealsInv
<1>6. /\ n \in Nat /\ dealt \in Seq(Deal) /\ old \in Seq(Deal)
      /\ \A i \in 1 .. n : dealt[i].at \in Int
  BY DealFields DEF DealsInv
<1>7. PICK m \in 0 .. n : LeftOut(m)
  BY DEF DealsInv
<1>8. ASSUME NEW i \in DOMAIN dealt'
      PROVE  dealt'[i].at <= now'
  <2>1. i \in 1 .. n + 1
    BY <1>5, <1>6
  <2>2. CASE i = n + 1
    BY <1>1, <1>2, <1>3, <1>5, <2>2
  <2>3. CASE i # n + 1
    <3>1. i \in 1 .. n
      BY <1>6, <2>1, <2>3
    <3> QED BY <1>1, <1>3, <1>5, <1>6, <3>1
  <2> QED BY <2>2, <2>3
<1>9. CASE old = <<>>
  <2>1. n = 0
    <3>1. Len(old) = n - m /\ (n # 0 => m < n)
      BY <1>6, <1>7 DEF LeftOut, EndOf
    <3> QED BY <1>6, <1>9, <3>1
  <2> DEFINE s == Append(dealt, deal)
             I == {i \in DOMAIN s : s[i].at >= deal.at - Day}
  <2>2. s \in Seq(Deal) /\ Len(s) = 1 /\ s[1] = deal
    BY <1>3, <1>5, <2>1
  <2>3. deals = Taken(s, I, Zeros(I))
    BY <1>9 DEF deals, DealsWith, Only, Zeros
  <2>4. I = 1 .. 1
    <3>1. deal.at >= deal.at - Day
      BY <1>1, <1>2
    <3>2. DOMAIN s = 1 .. 1
      BY <2>2
    <3> QED BY <2>2, <3>1, <3>2
  <2>5. Cardinality(I) = 1
    <3> HIDE DEF I
    <3>1. I = {1}
      BY <2>4
    <3> QED BY <3>1, FS_Singleton
  <2> HIDE DEF I, s
  <2>6. I \in SUBSET DOMAIN s
    BY <2>2, <2>4
  <2>7. /\ deals \in Seq(Deal) /\ Len(deals) = 1
        /\ \A k \in 1 .. 1 : InOrder(I, Zeros(I))[k] \in I /\ deals[k] = s[InOrder(I, Zeros(I))[k]]
    BY <2>2, <2>3, <2>5, <2>6, KeptReturns
  <2>8. deals[1] = deal
    BY <2>2, <2>4, <2>7
  <2>9. LeftOut(0)'
    <3>1. \A k \in 1 .. 1 : k = 1 /\ 0 + k = 1
      OBVIOUS
    <3> QED BY <1>4, <1>5, <2>1, <2>7, <2>8, <3>1 DEF LeftOut, EndOf
  <2> QED BY <1>3, <1>4, <1>5, <1>8, <2>7, <2>9 DEF DealsInv
<1>10. CASE old # <<>>
  <2>1. deals = Append(Recent(old, t), deal)
    BY <1>2, <1>10 DEF deals, DealsWith
  <2>2. /\ Len(old) = n - m /\ \A k \in 1 .. n - m : old[k] = dealt[m + k]
        /\ m < n /\ m \in Nat
        /\ \A j \in 1 .. m : ~ (now - dealt[j].at < Day)
    <3>1. n # 0
      <4>1. Len(old) = n - m /\ Len(old) # 0
        BY <1>6, <1>7, <1>10 DEF LeftOut, EndOf
      <4> QED BY <1>6, <4>1
    <3> QED BY <1>6, <1>7, <3>1 DEF LeftOut, EndOf
  <2>3. Dated(old) /\ Timely(old)
    <3>1. DOMAIN old = 1 .. n - m
      BY <1>6, <2>2
    <3>2. \A k \in 1 .. n - m : m + k \in 1 .. n
      BY <1>6, <2>2
    <3>3. ASSUME NEW i \in 1 .. n - m, NEW j \in 1 .. n - m, i < j
          PROVE  old[i].at <= old[j].at
      <4>1. m + i < m + j /\ m + i \in DOMAIN dealt /\ m + j \in DOMAIN dealt
        BY <1>6, <2>2, <3>2, <3>3
      <4>2. dealt[m + i].at <= dealt[m + j].at
        BY <4>1 DEF DealsInv, Timely
      <4> QED BY <2>2, <4>2
    <3>4. \A i \in 1 .. n - m : old[i].at \in Int
      BY <1>6, <2>2, <3>2
    <3> QED BY <3>1, <3>3, <3>4 DEF Dated, Timely
  <2>4. PICK e \in 0 .. Len(old) : OldUpTo(old, t, e)
    BY <1>1, <1>6, <2>3, OldComeFirst
  <2>5. /\ Recent(old, t) \in Seq(Deal) /\ Len(Recent(old, t)) = n - m - e
        /\ \A k \in 1 .. n - m - e : Recent(old, t)[k] = old[e + k]
    <3>1. /\ Recent(old, t) \in Seq(Deal) /\ Len(Recent(old, t)) = Len(old) - e
          /\ \A k \in 1 .. Len(old) - e : Recent(old, t)[k] = old[e + k]
      BY <1>6, <2>4, RecentReturns
    <3> QED BY <2>2, <3>1
  <2> DEFINE r == Recent(old, t)
             c == n - m - e
  <2>6. e \in Nat /\ c \in Nat /\ m + e \in 0 .. n /\ n + 1 - (m + e) = c + 1
    BY <1>6, <2>2, <2>4
  <2> HIDE DEF r, c
  <2>7. /\ deals \in Seq(Deal) /\ Len(deals) = c + 1 /\ deals[c + 1] = deal
        /\ \A k \in 1 .. c : deals[k] = r[k]
    <3>1. r \in Seq(Deal) /\ Len(r) = c
      BY <2>5 DEF r, c
    <3>2. deals = Append(r, deal)
      BY <2>1 DEF r
    <3> QED BY <1>2, <3>1, <3>2, AppendProperties
  <2>8. ASSUME NEW k \in 1 .. c
        PROVE  deals[k] = dealt'[m + e + k]
    <3>1. r[k] = old[e + k]
      BY <2>5 DEF r, c
    <3>2. e + k \in 1 .. n - m /\ m + (e + k) = m + e + k /\ m + e + k \in 1 .. n
      BY <1>6, <2>2, <2>6 DEF c
    <3> QED BY <1>5, <2>2, <2>7, <3>1, <3>2
  <2>9. EndOf(deals, dealt', m + e)
    <3>1. ASSUME NEW k \in 1 .. c + 1
          PROVE  deals[k] = dealt'[m + e + k]
      <4>1. CASE k = c + 1
        <5>1. m + e + k = n + 1
          BY <1>6, <2>2, <2>6, <4>1 DEF c
        <5> QED BY <1>5, <2>7, <4>1, <5>1
      <4>2. CASE k # c + 1
        <5>1. k \in 1 .. c
          BY <2>6, <4>2
        <5> QED BY <2>8, <5>1
      <4> QED BY <4>1, <4>2
    <3> QED BY <1>5, <2>6, <2>7, <3>1 DEF EndOf
  <2>10. ASSUME NEW j \in 1 .. m + e
         PROVE  ~ (now' - dealt'[j].at < Day)
    <3>1. j \in 1 .. n /\ dealt'[j] = dealt[j] /\ dealt[j].at \in Int
      BY <1>5, <1>6, <2>6
    <3>2. CASE j <= m
      BY <1>3, <2>2, <3>1, <3>2
    <3>3. CASE m < j
      <4>1. j - m \in 1 .. Len(old) /\ ~ (e < j - m) /\ m + (j - m) = j
        BY <1>6, <2>2, <2>4, <2>6, <3>1, <3>3
      <4>2. ~ (t - old[j - m].at < Day) /\ old[j - m] = dealt[j]
        BY <2>2, <2>4, <4>1 DEF OldUpTo
      <4> QED BY <1>1, <1>3, <3>1, <4>2
    <3> QED BY <2>2, <3>1, <3>2, <3>3
  <2>11. LeftOut(m + e)'
    <3>1. m + e < n + 1
      BY <1>6, <2>6
    <3> QED BY <1>4, <1>5, <2>9, <2>10, <3>1 DEF LeftOut
  <2>12. m + e \in 0 .. Len(dealt')
    BY <1>5, <1>6, <2>6
  <2> QED BY <1>3, <1>4, <1>5, <1>8, <2>7, <2>11, <2>12 DEF DealsInv
<1> QED BY <1>9, <1>10

\* Prices leave the deals of the watch alone.
LEMMA DealsStay ==
  ASSUME WorthInv, AddPrice24
  PROVE  watch'.deals24 = watch.deals24
<1> DEFINE prices == Append(KeptPrices(watch.prices24, now), saving)
           quarters == IF QuarterIsOver
                       THEN Append(watch.quarter, [day |-> now \div Day, price |-> saving.price])
                       ELSE watch.quarter
<1>1. watch' = [watch EXCEPT !.prices24 = prices, !.price = saving.price, !.quarter = quarters]
  BY DEF AddPrice24
<1> HIDE DEF prices, quarters
<1> QED BY <1>1 DEF WorthInv

LEMMA DealsStep ==
  ClockInv /\ WorthInv /\ DealsInv /\ [Next]_allVars => DealsInv'
<1> SUFFICES ASSUME ClockInv, WorthInv, DealsInv, [Next]_allVars
             PROVE  DealsInv'
  OBVIOUS
<1>1. CASE StatsRest
  BY <1>1, DealsAge DEF StatsRest
<1>2. CASE Tock
  BY <1>2, DealsAge DEF Tock
<1>3. CASE \E p \in Prices : AddChartTick(p)
  BY <1>3, DealsAge DEF AddChartTick
<1>4. CASE TradeAllowed
  BY <1>4, DealsAge DEF TradeAllowed
<1>5. CASE AddPrice24
  <2>1. watch'.deals24 = watch.deals24
    BY <1>5, DealsStay
  <2>2. dealt' = dealt /\ now' = now
    BY <1>5 DEF AddPrice24
  <2> QED BY <2>1, <2>2, DealsAge
<1>6. CASE PriceLost
  BY <1>6, DealsAge DEF PriceLost
<1>7. ASSUME NEW usd \in Amounts, NEW t \in {now - 1, now}, UpdateDeal(usd, t)
      PROVE  DealsInv'
  BY <1>7, DealKeeps
<1> QED BY <1>1, <1>2, <1>3, <1>4, <1>5, <1>6, <1>7, StatsMoves DEF StatsNext

\* The deals of the last day are those of the list, all or none of them, or the
\* list has one that is older and one that is not.
LEMMA VolumeAgrees ==
  ASSUME ClockInv, DealsInv
  PROVE  \/ Volume24 = VolumeOf(Recent(dealt, now))
         \/ Volume24 = NaN /\ \E i \in DOMAIN watch.deals24 : now - watch.deals24[i].at >= Day
<1> DEFINE old == watch.deals24
           n == Len(dealt)
<1>1. /\ n \in Nat /\ DOMAIN dealt = 1 .. n /\ dealt \in Seq(Deal)
      /\ \A i \in 1 .. n : dealt[i].at \in Int
  BY DealFields DEF DealsInv
<1>2. /\ old \in Seq(Deal) /\ DOMAIN old = 1 .. Len(old) /\ Len(old) \in Nat
      /\ \A i \in 1 .. Len(old) : old[i].at \in Int
  BY DealFields DEF DealsInv
<1>3. PICK m \in 0 .. n : LeftOut(m)
  BY DEF DealsInv
<1>4. n \in Nat
  BY <1>1
<1>5. /\ m \in Nat /\ m <= n /\ Len(old) = n - m /\ \A k \in 1 .. n - m : old[k] = dealt[m + k]
      /\ \A j \in 1 .. m : ~ (now - dealt[j].at < Day)
  <2>1. m \in Nat /\ m <= n
    <3> HIDE DEF n
    <3> QED BY <1>4
  <2> QED BY <1>3, <2>1 DEF LeftOut, EndOf
<1>6. now \in Int /\ Day \in Int
  BY StatsAssumption DEF ClockInv
<1>7. Dated(dealt) /\ Timely(dealt)
  BY <1>1 DEF Dated, DealsInv
<1>8. PICK d \in 0 .. n : OldUpTo(dealt, now, d)
  BY <1>1, <1>6, <1>7, OldComeFirst
<1> DEFINE e == d - m
           r == Recent(dealt, now)
<1>9. /\ r \in Seq(Deal) /\ Len(r) = n - d
      /\ \A k \in 1 .. n - d : r[k] = dealt[d + k]
  BY <1>1, <1>8, RecentReturns
<1>10. m <= d
  <2>1. CASE m = 0
    BY <2>1
  <2>2. CASE m # 0
    <3>1. m \in 1 .. n /\ m \in 1 .. m /\ d \in Nat
      <4> HIDE DEF n, old
      <4> QED BY <1>4, <1>5, <2>2
    <3>2. ~ (d < m)
      BY <1>5, <1>8, <3>1 DEF OldUpTo
    <3> QED BY <1>5, <3>1, <3>2
  <2> QED BY <2>1, <2>2
<1>11. e \in 0 .. Len(old)
  <2> HIDE DEF n, old
  <2> QED BY <1>4, <1>5, <1>10
<1> HIDE DEF n, old, r
<1>12. OldUpTo(old, now, e)
  <2>1. ASSUME NEW i \in 1 .. Len(old)
        PROVE  now - old[i].at < Day <=> e < i
    <3>1. old[i] = dealt[m + i] /\ m + i \in 1 .. n
      BY <1>1, <1>5
    <3>2. now - dealt[m + i].at < Day <=> d < m + i
      BY <1>8, <3>1 DEF OldUpTo, n
    <3> QED BY <1>1, <1>5, <3>1, <3>2
  <2> QED BY <2>1 DEF OldUpTo
<1> HIDE DEF e
<1>13. /\ e = 0 => Volume24 = VolumeOf(old)
       /\ 0 < e /\ e = Len(old) => Volume24 = 0
       /\ 0 < e /\ e < Len(old) => Volume24 = NaN
  BY <1>2, <1>6, <1>11, <1>12, VolumeReturns DEF old
<1>14. CASE e = 0
  <2>1. d = m
    BY <1>1, <1>5, <1>14 DEF e
  <2>2. Len(r) = Len(old) /\ \A k \in 1 .. Len(old) : r[k] = old[k]
    BY <1>5, <1>9, <2>1
  <2>3. r = old
    BY <1>2, <1>9, <2>2
  <2> QED BY <1>13, <1>14, <2>3 DEF r
<1>15. CASE 0 < e /\ e = Len(old)
  <2>1. Len(r) = 0
    BY <1>1, <1>5, <1>9, <1>15 DEF e
  <2>2. PICK f : VolumeOf(r) = f[Len(r)]
                 /\ f = [k \in 0 .. Len(r) |-> IF k = 0 THEN 0 ELSE f[k - 1] + r[k].usd]
    BY <1>9, VolumeOfSums
  <2>3. f[0] = 0
    BY <2>1, <2>2
  <2> QED BY <1>13, <1>15, <2>1, <2>2, <2>3 DEF r
<1>16. CASE 0 < e /\ e < Len(old)
  <2>1. 1 \in 1 .. Len(old)
    BY <1>2, <1>11, <1>16
  <2>2. ~ (now - old[1].at < Day)
    BY <1>11, <1>12, <1>16, <2>1 DEF OldUpTo
  <2>3. now - old[1].at >= Day
    BY <1>2, <1>6, <2>1, <2>2
  <2> QED BY <1>2, <1>13, <1>16, <2>1, <2>3 DEF old
<1> QED BY <1>11, <1>14, <1>15, <1>16

-----------------------------------------------------------------------------
(* The prices of a day. *)

History(all) ==
  all \in Seq(Tick) /\ Timely(all) /\ \A i \in DOMAIN all : StartTime <= all[i].at

\* The price before those after the first m.
Origin(all, m) == IF m = 0 THEN At(StartTime, One) ELSE all[m]

\* The list of prices has those after the first m, and before them c times the
\* one in force until then.
KeptFrom(s, all, c, m) ==
  /\ s \in Seq(Tick) /\ Len(s) = c + (Len(all) - m)
  /\ \A k \in 1 .. c : s[k] = Origin(all, m)
  /\ \A j \in 1 .. Len(all) - m : s[c + j] = all[m + j]
  /\ 0 < c /\ (Len(all) # 0 => m < Len(all))

\* The first m are over a day old at t.
Over(all, m, t) == \A j \in 1 .. m : ~ (t - all[j].at < Day)

LEMMA HistoryFields ==
  ASSUME NEW all, History(all)
  PROVE  /\ all \in Seq(Tick) /\ Len(all) \in Nat /\ DOMAIN all = 1 .. Len(all)
         /\ \A i \in 1 .. Len(all) : /\ all[i] \in Tick /\ all[i].at \in Nat
                                     /\ all[i].price \in Nat /\ StartTime <= all[i].at
         /\ \A i, j \in 1 .. Len(all) : i < j => all[i].at <= all[j].at
<1>1. all \in Seq(Tick) /\ Len(all) \in Nat /\ DOMAIN all = 1 .. Len(all)
  BY DEF History
<1>2. \A i \in 1 .. Len(all) : all[i] \in Tick
  BY <1>1
<1>3. \A i \in 1 .. Len(all) : all[i].at \in Nat /\ all[i].price \in Nat
  BY <1>2, TickFields
<1>4. \A i \in 1 .. Len(all) : StartTime <= all[i].at
  BY <1>1 DEF History
<1>5. \A i, j \in 1 .. Len(all) : i < j => all[i].at <= all[j].at
  BY <1>1 DEF History, Timely
<1> QED BY <1>1, <1>2, <1>3, <1>4, <1>5

LEMMA OriginComesFirst ==
  ASSUME NEW all, History(all), NEW m \in 0 .. Len(all)
  PROVE  /\ Origin(all, m) \in Tick /\ Origin(all, m).at \in Nat
         /\ \A j \in 1 .. Len(all) : m < j => Origin(all, m).at <= all[j].at
<1>1. CASE m = 0
  <2>1. StartTime \in Nat /\ One \in Nat
    BY StatsAssumption DEF One
  <2>2. Origin(all, m) = At(StartTime, One)
    BY <1>1 DEF Origin
  <2>3. Origin(all, m) \in Tick /\ Origin(all, m).at = StartTime
    BY <2>1, <2>2, AtIsTick
  <2> QED BY <2>1, <2>3, HistoryFields
<1>2. CASE m # 0
  <2>1. Len(all) \in Nat
    BY HistoryFields
  <2>2. m \in 1 .. Len(all)
    BY <1>2, <2>1
  <2>3. Origin(all, m) = all[m]
    BY <1>2 DEF Origin
  <2> QED BY <2>2, <2>3, HistoryFields
<1> QED BY <1>1, <1>2

LEMMA KeptInOrder ==
  ASSUME NEW all, History(all), NEW s, NEW c \in Nat, NEW m \in 0 .. Len(all),
         KeptFrom(s, all, c, m)
  PROVE  s \in Seq(Tick) /\ Len(s) \in Nat /\ Dated(s) /\ Timely(s)
<1> DEFINE n == Len(all)
           l == Len(s)
           x == Origin(all, m)
<1>1. /\ s \in Seq(Tick) /\ l = c + (n - m) /\ \A k \in 1 .. c : s[k] = x
      /\ \A j \in 1 .. n - m : s[c + j] = all[m + j]
  BY DEF KeptFrom
<1>2. l \in Nat /\ DOMAIN s = 1 .. l
  BY <1>1
<1>3. n \in Nat /\ \A i, j \in 1 .. n : i < j => all[i].at <= all[j].at
  BY HistoryFields
<1>4. x.at \in Nat /\ \A j \in 1 .. n : m < j => x.at <= all[j].at
  BY OriginComesFirst
<1>5. \A i \in 1 .. l : s[i].at \in Int
  <2>1. \A i \in 1 .. l : s[i] \in Tick
    BY <1>1, <1>2
  <2> QED BY <2>1, TickFields
<1>6. m \in Nat /\ m <= n
  <2> HIDE DEF n
  <2> QED BY <1>3 DEF n
<1> HIDE DEF n, l, x
<1>7. ASSUME NEW i \in 1 .. l, c < i
      PROVE  i - c + m \in 1 .. n /\ m < i - c + m /\ s[i] = all[i - c + m]
  <2>1. i - c \in 1 .. n - m /\ c + (i - c) = i /\ m + (i - c) = i - c + m
    BY <1>1, <1>3, <1>6, <1>7
  <2>2. s[i] = all[i - c + m]
    BY <1>1, <2>1
  <2> QED BY <1>3, <1>6, <2>1, <2>2
<1>8. ASSUME NEW i \in 1 .. l, NEW j \in 1 .. l, i < j
      PROVE  s[i].at <= s[j].at
  <2>1. CASE j <= c
    <3>1. s[i] = x /\ s[j] = x
      BY <1>1, <1>2, <1>8, <2>1
    <3> QED BY <1>4, <3>1
  <2>2. CASE i <= c /\ c < j
    <3>1. s[i] = x
      BY <1>1, <1>2, <2>2
    <3> QED BY <1>4, <1>7, <2>2, <3>1
  <2>3. CASE c < i
    <3>1. c < j /\ i - c + m < j - c + m
      BY <1>2, <1>6, <1>8, <2>3
    <3>2. /\ i - c + m \in 1 .. n /\ s[i] = all[i - c + m]
          /\ j - c + m \in 1 .. n /\ s[j] = all[j - c + m]
      BY <1>7, <2>3, <3>1
    <3> QED BY <1>3, <3>1, <3>2
  <2> QED BY <1>2, <1>8, <2>1, <2>2, <2>3
<1> QED BY <1>1, <1>2, <1>5, <1>8 DEF Dated, Timely, l

\* The list s without its first e, the price before them, and a new one.
Renewed(w, s, e, x) ==
  /\ w \in Seq(Tick) /\ Len(w) = Len(s) - e + 2
  /\ w[1] = IF e > 0 THEN s[e] ELSE At(StartTime, One)
  /\ \A k \in 1 .. Len(s) - e : w[k + 1] = s[e + k]
  /\ w[Len(s) - e + 2] = x

LEMMA PriceListed ==
  ASSUME NEW s \in Seq(Tick), NEW t, NEW e \in 0 .. Len(s), OldUpTo(s, t, e), NEW x \in Tick
  PROVE  Renewed(Append(KeptPrices(s, t), x), s, e, x)
<1> DEFINE n == Len(s)
           r == Recent(s, t)
           y == IF e > 0 THEN s[e] ELSE At(StartTime, One)
           v == <<y>> \o r
           w == Append(v, x)
<1>1. n \in Nat /\ DOMAIN s = 1 .. n
  OBVIOUS
<1>2. /\ r \in Seq(Tick) /\ Len(r) = n - e
      /\ \A k \in 1 .. n - e : r[k] = s[e + k]
  BY RecentReturns
<1>3. e \in Nat /\ e <= n /\ n - e \in Nat /\ (e > 0 => e \in 1 .. n)
  <2> HIDE DEF n
  <2> QED BY <1>1 DEF n
<1>4. y \in Tick
  <2>1. StartTime \in Nat /\ One \in Nat
    BY StatsAssumption DEF One
  <2>2. At(StartTime, One) \in Tick
    BY <2>1, AtIsTick
  <2>3. e > 0 => s[e] \in Tick
    BY <1>3
  <2> QED BY <2>2, <2>3
<1>5. KeptPrices(s, t) = v
  <2> HIDE DEF n, r
  <2>1. n - Len(r) = e
    BY <1>1, <1>2, <1>3
  <2> QED BY <2>1 DEF KeptPrices, r, n
<1> HIDE DEF n, r, y
<1>6. /\ v \in Seq(Tick) /\ Len(v) = n - e + 1 /\ v[1] = y
      /\ \A k \in 1 .. n - e : v[k + 1] = r[k]
  <2>1. <<y>> \in Seq(Tick) /\ Len(<<y>>) = 1 /\ <<y>>[1] = y
    BY <1>4
  <2>2. /\ v \in Seq(Tick) /\ Len(v) = Len(<<y>>) + Len(r)
        /\ \A i \in 1 .. Len(<<y>>) + Len(r) :
             v[i] = IF i <= Len(<<y>>) THEN <<y>>[i] ELSE r[i - Len(<<y>>)]
    BY <1>2, <2>1, ConcatProperties
  <2> HIDE DEF v
  <2>3. \A k \in 1 .. n - e : k + 1 \in 1 .. 1 + Len(r) /\ ~ (k + 1 <= 1) /\ k + 1 - 1 = k
    BY <1>2, <1>3
  <2>4. 1 \in 1 .. 1 + Len(r) /\ 1 <= 1
    BY <1>2, <1>3
  <2>5. Len(v) = n - e + 1
    BY <1>2, <1>3, <2>1, <2>2
  <2> QED BY <2>1, <2>2, <2>3, <2>4, <2>5
<1> HIDE DEF v
<1>7. /\ w \in Seq(Tick) /\ Len(w) = n - e + 2 /\ w[n - e + 2] = x
      /\ \A k \in 1 .. n - e + 1 : w[k] = v[k]
  <2>1. w \in Seq(Tick) /\ Len(w) = Len(v) + 1 /\ w[Len(v) + 1] = x
        /\ \A k \in 1 .. Len(v) : w[k] = v[k]
    BY <1>6, AppendProperties
  <2>2. n - e + 1 + 1 = n - e + 2
    BY <1>3
  <2> HIDE DEF w
  <2> QED BY <1>6, <2>1, <2>2
<1> HIDE DEF w
<1>8. w[1] = y
  <2>1. 1 \in 1 .. n - e + 1
    BY <1>3
  <2> QED BY <1>6, <1>7, <2>1
<1>9. ASSUME NEW k \in 1 .. n - e
      PROVE  w[k + 1] = s[e + k]
  <2>1. k + 1 \in 1 .. n - e + 1
    BY <1>3
  <2> QED BY <1>2, <1>6, <1>7, <2>1
<1> QED BY <1>5, <1>7, <1>8, <1>9 DEF w, y, n, Renewed

\* A price is added to the list as to all prices.
LEMMA PriceKept ==
  ASSUME NEW all, History(all), NEW s, NEW c \in Nat, NEW m \in 0 .. Len(all),
         KeptFrom(s, all, c, m), NEW t \in Int, Over(all, m, t), NEW x \in Tick
  PROVE  \E d \in Nat, o \in 0 .. Len(all) + 1 :
           /\ KeptFrom(Append(KeptPrices(s, t), x), Append(all, x), d, o)
           /\ Over(Append(all, x), o, t)
<1> DEFINE n == Len(all)
           l == Len(s)
           a == Append(all, x)
           w == Append(KeptPrices(s, t), x)
<1>1. /\ s \in Seq(Tick) /\ l = c + (n - m)
      /\ \A k \in 1 .. c : s[k] = Origin(all, m)
      /\ \A j \in 1 .. n - m : s[c + j] = all[m + j]
      /\ 0 < c /\ (n # 0 => m < n)
      /\ \A j \in 1 .. m : ~ (t - all[j].at < Day)
  BY DEF KeptFrom, Over
<1>2. n \in Nat /\ all \in Seq(Tick) /\ \A i \in 1 .. n : all[i].at \in Nat
  BY HistoryFields
<1>3. l \in Nat /\ Dated(s) /\ Timely(s)
  BY KeptInOrder
<1>4. PICK e \in 0 .. l : OldUpTo(s, t, e)
  BY <1>1, <1>3, OldComeFirst
<1>5. /\ w \in Seq(Tick) /\ Len(w) = l - e + 2
      /\ w[1] = IF e > 0 THEN s[e] ELSE At(StartTime, One)
      /\ \A k \in 1 .. l - e : w[k + 1] = s[e + k]
      /\ w[l - e + 2] = x
  <2>1. Renewed(w, s, e, x)
    BY <1>1, <1>4, PriceListed
  <2> QED BY <2>1 DEF Renewed
<1>6. \A i \in 1 .. l : t - s[i].at < Day <=> e < i
  BY <1>4 DEF OldUpTo
<1>7. /\ Len(a) = n + 1 /\ a[n + 1] = x /\ \A i \in 1 .. n : a[i] = all[i]
  BY <1>2, AppendProperties
<1> HIDE DEF n, l, a, w
<1>8. /\ m \in Nat /\ m <= n /\ e \in Nat /\ e <= l
      /\ n \in Nat /\ l \in Nat /\ l = c + (n - m)
  BY <1>1, <1>2, <1>3 DEF n
<1>9. \A i \in 0 .. n : Origin(a, i) = Origin(all, i)
  <2>1. \A i \in 0 .. n : i # 0 => i \in 1 .. n
    BY <1>2
  <2> QED BY <1>7, <2>1 DEF Origin
<1>10. \A i \in 1 .. l - e : e + i \in 1 .. l
  BY <1>3, <1>8
\* Where the list begins and which prices follow.
<1> DEFINE Cut(d, o) ==
      /\ d \in Nat /\ o \in 0 .. n /\ 0 < d /\ l - e + 2 = d + (n + 1 - o)
      /\ w[1] = Origin(all, o)
      /\ \A k \in 1 .. l - e : k + 1 <= d => s[e + k] = Origin(all, o)
      /\ \A k \in 1 .. l - e : d < k + 1 => s[e + k] = all[o + (k + 1 - d)]
      /\ \A j \in 1 .. o : ~ (t - all[j].at < Day)
<1>11. ASSUME NEW d, NEW o, Cut(d, o)
       PROVE  \E d_1 \in Nat, o_1 \in 0 .. n + 1 : KeptFrom(w, a, d_1, o_1) /\ Over(a, o_1, t)
  <2>0. d \in Nat /\ 0 < d /\ o \in 0 .. n /\ l - e + 2 = d + (n + 1 - o)
    BY <1>11
  <2>1. o \in Nat /\ o <= n /\ o \in 0 .. n + 1
    BY <1>8, <2>0
  <2>2. ASSUME NEW k \in 1 .. d
        PROVE  w[k] = Origin(a, o)
    <3>1. CASE k = 1
      BY <1>9, <1>11, <3>1
    <3>2. CASE k # 1
      <4>1. k - 1 \in 1 .. l - e /\ k - 1 + 1 <= d /\ k - 1 + 1 = k
        BY <1>8, <2>0, <2>1, <3>2
      <4>2. w[k - 1 + 1] = s[e + (k - 1)] /\ s[e + (k - 1)] = Origin(all, o)
        BY <1>5, <1>11, <4>1
      <4> QED BY <1>9, <2>0, <4>1, <4>2
    <3> QED BY <3>1, <3>2
  <2>3. ASSUME NEW j \in 1 .. n + 1 - o
        PROVE  w[d + j] = a[o + j]
    <3>1. CASE j = n + 1 - o
      <4>1. d + j = l - e + 2 /\ o + j = n + 1
        BY <1>8, <2>0, <2>1, <3>1
      <4> QED BY <1>5, <1>7, <4>1
    <3>2. CASE j # n + 1 - o
      <4> DEFINE k == d + j - 1
      <4>1. k \in 1 .. l - e /\ d < k + 1 /\ k + 1 = d + j /\ k + 1 - d = j /\ o + j \in 1 .. n
        BY <1>8, <2>0, <2>1, <3>2
      <4> HIDE DEF k
      <4>2. w[k + 1] = s[e + k] /\ s[e + k] = all[o + (k + 1 - d)]
        BY <1>5, <1>11, <4>1
      <4> QED BY <1>7, <4>1, <4>2
    <3> QED BY <3>1, <3>2
  <2>4. n + 1 # 0 /\ o < n + 1
    BY <1>2, <2>1
  <2>5. KeptFrom(w, a, d, o)
    <3>1. Len(a) = n + 1
      BY <1>7
    <3> DEFINE h == Len(a)
    <3>2. w \in Seq(Tick) /\ Len(w) = d + (h - o)
      <4>1. w \in Seq(Tick) /\ Len(w) = d + (n + 1 - o)
        BY <1>5, <2>0
      <4> HIDE DEF h
      <4>2. h = n + 1
        BY <3>1 DEF h
      <4> QED BY <1>8, <2>0, <2>1, <4>1, <4>2
    <3>3. \A j \in 1 .. h - o : w[d + j] = a[o + j]
      <4> HIDE DEF h
      <4>1. h = n + 1
        BY <3>1 DEF h
      <4>2. h - o = n + 1 - o
        BY <1>8, <2>1, <4>1
      <4>3. \A j \in 1 .. n + 1 - o : w[d + j] = a[o + j]
        BY <2>3
      <4> QED BY <4>2, <4>3
    <3>4. 0 < d /\ (Len(a) # 0 => o < Len(a))
      BY <2>0, <2>4, <3>1
    <3>5. \A k \in 1 .. d : w[k] = Origin(a, o)
      BY <2>2
    <3> QED BY <3>2, <3>3, <3>4, <3>5 DEF KeptFrom
  <2>6. Over(a, o, t)
    <3>1. \A j \in 1 .. o : j \in 1 .. n
      BY <1>2, <2>1
    <3> QED BY <1>7, <1>11, <3>1 DEF Over
  <2> QED BY <2>0, <2>1, <2>5, <2>6
<1> HIDE DEF Cut
<1>12. CASE e = 0
  <2>1. m = 0
    <3>1. SUFFICES ASSUME m # 0
                   PROVE  FALSE
      OBVIOUS
    <3>2. 0 < c /\ 1 \in 1 .. c /\ 1 \in 1 .. l /\ m \in 1 .. m
      BY <1>1, <1>2, <1>8, <3>1
    <3>3. s[1] = all[m] /\ ~ (t - all[m].at < Day)
      BY <1>1, <3>1, <3>2 DEF Origin
    <3> QED BY <1>6, <1>12, <3>2, <3>3
  <2>2. w[1] = Origin(all, 0)
    BY <1>5, <1>12 DEF Origin
  <2>3. c + 1 \in Nat /\ 0 < c + 1 /\ 0 \in 0 .. n /\ l - e + 2 = (c + 1) + (n + 1 - 0)
    BY <1>8, <1>12, <2>1
  <2>4. \A k \in 1 .. l - e : k + 1 <= c + 1 => s[e + k] = Origin(all, 0)
    BY <1>1, <1>3, <1>12, <2>1
  <2>5. ASSUME NEW k \in 1 .. l - e, c + 1 < k + 1
        PROVE  s[e + k] = all[0 + (k + 1 - (c + 1))]
    <3>1. k - c \in 1 .. n - m /\ c + (k - c) = e + k
      BY <1>8, <1>12, <2>1, <2>5
    <3>2. m + (k - c) = 0 + (k + 1 - (c + 1))
      BY <2>1
    <3> QED BY <1>1, <3>1, <3>2
  <2>6. \A j \in 1 .. 0 : ~ (t - all[j].at < Day)
    OBVIOUS
  <2>7. Cut(c + 1, 0)
    BY <2>2, <2>3, <2>4, <2>5, <2>6 DEF Cut
  <2> QED BY <1>11, <2>7 DEF n, a, w
<1>13. CASE 0 < e /\ e <= c
  <2> DEFINE d == c - e + 1
  <2>1. w[1] = Origin(all, m)
    <3>1. e \in 1 .. c
      BY <1>8, <1>13
    <3> QED BY <1>1, <1>5, <1>13, <3>1
  <2>2. d \in Nat /\ 0 < d /\ m \in 0 .. n /\ l - e + 2 = d + (n + 1 - m)
    BY <1>8, <1>13
  <2>3. ASSUME NEW k \in 1 .. l - e, k + 1 <= d
        PROVE  s[e + k] = Origin(all, m)
    <3>1. e + k \in 1 .. c
      BY <1>8, <1>13, <2>3
    <3> QED BY <1>1, <3>1
  <2>4. ASSUME NEW k \in 1 .. l - e, d < k + 1
        PROVE  s[e + k] = all[m + (k + 1 - d)]
    <3>1. k + 1 - d \in 1 .. n - m /\ c + (k + 1 - d) = e + k
      BY <1>8, <1>13, <2>4
    <3> QED BY <1>1, <3>1
  <2> HIDE DEF d
  <2>5. Cut(d, m)
    BY <1>1, <2>1, <2>2, <2>3, <2>4 DEF Cut
  <2> QED BY <1>11, <2>5 DEF n, a, w
<1>14. CASE c < e
  <2> DEFINE o == m + (e - c)
  <2>1. e - c \in 1 .. n - m /\ c + (e - c) = e /\ o \in 1 .. n /\ o \in 0 .. n
    BY <1>8, <1>14
  <2>2. s[e] = all[o] /\ 0 < e /\ o # 0
    <3>1. s[c + (e - c)] = all[m + (e - c)]
      BY <1>1, <2>1
    <3>2. 0 < e /\ o # 0
      BY <1>8, <1>14
    <3> QED BY <2>1, <3>1, <3>2
  <2>3. w[1] = Origin(all, o)
    BY <1>5, <2>2 DEF Origin
  <2>4. l - e + 2 = 1 + (n + 1 - o)
    BY <1>8, <2>1
  <2>5. \A k \in 1 .. l - e : ~ (k + 1 <= 1)
    OBVIOUS
  <2>6. ASSUME NEW k \in 1 .. l - e, 1 < k + 1
        PROVE  s[e + k] = all[o + (k + 1 - 1)]
    <3>1. /\ e + k - c \in 1 .. n - m /\ c + (e + k - c) = e + k
          /\ m + (e + k - c) = o + (k + 1 - 1)
      BY <1>8, <1>14, <2>6
    <3> QED BY <1>1, <3>1
  <2>7. ASSUME NEW j \in 1 .. o
        PROVE  ~ (t - all[j].at < Day)
    <3>1. CASE j <= m
      BY <1>1, <1>8, <3>1
    <3>2. CASE m < j
      <4>1. /\ j - m \in 1 .. n - m /\ c + (j - m) \in 1 .. l /\ ~ (e < c + (j - m))
            /\ m + (j - m) = j
        BY <1>8, <1>14, <2>1, <3>2
      <4>2. s[c + (j - m)] = all[j]
        BY <1>1, <4>1
      <4> QED BY <1>6, <4>1, <4>2
    <3> QED BY <1>8, <2>1, <3>1, <3>2
  <2> HIDE DEF o
  <2>8. Cut(1, o)
    BY <2>1, <2>3, <2>4, <2>5, <2>6, <2>7 DEF Cut
  <2> QED BY <1>11, <2>8 DEF n, a, w
<1> QED BY <1>3, <1>8, <1>12, <1>13, <1>14

LEMMA OverAges ==
  ASSUME NEW all, History(all), NEW m \in 0 .. Len(all), NEW t \in Int, NEW u \in Int, t <= u,
         Over(all, m, t)
  PROVE  Over(all, m, u)
<1>1. ASSUME NEW j \in 1 .. m
      PROVE  ~ (u - all[j].at < Day)
  <2>1. Len(all) \in Nat
    BY HistoryFields
  <2>2. j \in 1 .. Len(all)
    BY <2>1
  <2>3. all[j].at \in Int
    BY <2>2, HistoryFields
  <2>4. Day \in Int /\ ~ (t - all[j].at < Day)
    BY StatsAssumption DEF Over
  <2> QED BY <2>3, <2>4
<1> QED BY <1>1 DEF Over

PricedInv ==
  /\ History(priced)
  /\ \A i \in DOMAIN priced : priced[i].at <= now
  /\ saving \in Tick
  /\ saving # NoPrice => /\ StartTime <= saving.at /\ saving.at <= now
                         /\ \A i \in DOMAIN priced : priced[i].at <= saving.at

KeptInv ==
  \E c \in Nat, m \in 0 .. Len(priced) :
    KeptFrom(watch.prices24, priced, c, m) /\ Over(priced, m, now)

LEMMA PricesStart == Init => PricedInv /\ KeptInv
<1> SUFFICES ASSUME Init
             PROVE  PricedInv /\ KeptInv
  OBVIOUS
<1>1. priced = <<>> /\ watch.prices24 = <<At(StartTime, One)>> /\ saving = NoPrice
  BY DEF Init, StatsInit
<1>2. NoPrice \in Tick
  BY DEF NoPrice, Tick
<1>3. History(priced)
  BY <1>1 DEF History, Timely
<1>4. KeptFrom(watch.prices24, priced, 1, 0) /\ Over(priced, 0, now)
  <2> DEFINE x == At(StartTime, One)
  <2>1. StartTime \in Nat /\ One \in Nat
    BY StatsAssumption DEF One
  <2>2. x \in Tick /\ x = Origin(priced, 0)
    BY <2>1, AtIsTick DEF Origin
  <2> HIDE DEF x
  <2>3. <<x>> \in Seq(Tick) /\ Len(<<x>>) = 1 /\ <<x>>[1] = x /\ Len(priced) = 0
    BY <1>1, <2>2
  <2> QED BY <1>1, <2>2, <2>3 DEF KeptFrom, Over, x
<1>5. 0 \in 0 .. Len(priced)
  BY <1>1
<1> QED BY <1>1, <1>2, <1>3, <1>4, <1>5 DEF PricedInv, KeptInv

\* Time goes on, or a price is to be saved, or is lost.
LEMMA PricesAge ==
  ASSUME ClockInv, PricedInv, KeptInv, priced' = priced, watch'.prices24 = watch.prices24,
         \/ (now' = now + 1 \/ now' = now) /\ saving' = saving
         \/ now' = now /\ saving' = NoPrice
         \/ now' = now /\ saving' \in Tick /\ saving'.at = now
  PROVE  (PricedInv /\ KeptInv)'
<1>1. now \in Int /\ now' \in Int /\ now <= now' /\ StartTime <= now
  BY DEF ClockInv
<1>2. /\ History(priced) /\ Len(priced) \in Nat /\ DOMAIN priced = 1 .. Len(priced)
      /\ \A i \in 1 .. Len(priced) : priced[i].at \in Nat
  BY HistoryFields DEF PricedInv
<1>3. ASSUME NEW i \in DOMAIN priced
      PROVE  priced[i].at <= now' /\ priced[i].at <= now
  <2>1. priced[i].at <= now /\ priced[i].at \in Nat
    BY <1>2 DEF PricedInv
  <2> QED BY <1>1, <2>1
<1>4. NoPrice \in Tick
  BY DEF NoPrice, Tick
<1>5. saving \in Tick /\ saving.at \in Nat
  BY TickFields DEF PricedInv
<1>6. saving' # NoPrice => /\ StartTime <= saving'.at /\ saving'.at <= now'
                           /\ \A i \in DOMAIN priced : priced[i].at <= saving'.at
  <2>1. CASE saving' = saving
    BY <1>1, <1>5, <2>1, StatsAssumption DEF PricedInv
  <2>2. CASE now' = now /\ saving'.at = now
    BY <1>1, <1>3, <2>2
  <2> QED BY <2>1, <2>2
<1>7. PricedInv'
  BY <1>2, <1>3, <1>4, <1>5, <1>6 DEF PricedInv
<1>8. PICK c \in Nat, m \in 0 .. Len(priced) :
        KeptFrom(watch.prices24, priced, c, m) /\ Over(priced, m, now)
  BY DEF KeptInv
<1>9. Over(priced, m, now')
  BY <1>1, <1>2, <1>8, OverAges
<1>10. KeptInv'
  BY <1>8, <1>9 DEF KeptInv
<1> QED BY <1>7, <1>10

LEMMA PricesAdd ==
  ASSUME ClockInv, WorthInv, PricedInv, KeptInv, AddPrice24
  PROVE  (PricedInv /\ KeptInv)'
<1> DEFINE prices == Append(KeptPrices(watch.prices24, now), saving)
           quarters == IF QuarterIsOver
                       THEN Append(watch.quarter, [day |-> now \div Day, price |-> saving.price])
                       ELSE watch.quarter
           n == Len(priced)
<1>1. /\ watch' = [watch EXCEPT !.prices24 = prices, !.price = saving.price, !.quarter = quarters]
      /\ priced' = Append(priced, saving) /\ saving' = NoPrice /\ now' = now /\ saving # NoPrice
  BY DEF AddPrice24
<1> HIDE DEF prices, quarters
<1>2. watch'.prices24 = prices
  BY <1>1 DEF WorthInv
<1>3. /\ saving \in Tick /\ StartTime <= saving.at /\ saving.at <= now
      /\ \A i \in DOMAIN priced : priced[i].at <= saving.at /\ priced[i].at <= now
  BY <1>1 DEF PricedInv
<1>4. /\ History(priced) /\ priced \in Seq(Tick) /\ n \in Nat /\ DOMAIN priced = 1 .. n
      /\ \A i \in 1 .. n : StartTime <= priced[i].at
  BY HistoryFields DEF PricedInv
<1>5. Append(priced, saving) \in Seq(Tick) /\ Timely(Append(priced, saving))
  BY <1>3, <1>4, TimelyAppend DEF History
<1>6. /\ Len(priced') = n + 1 /\ priced'[n + 1] = saving
      /\ \A i \in 1 .. n : priced'[i] = priced[i]
  BY <1>1, <1>3, <1>4, AppendProperties
<1> HIDE DEF n
<1>7. DOMAIN priced' = 1 .. n + 1 /\ priced' \in Seq(Tick) /\ Timely(priced')
  BY <1>1, <1>5, <1>6
<1>8. ASSUME NEW i \in DOMAIN priced'
      PROVE  StartTime <= priced'[i].at /\ priced'[i].at <= now'
  <2>1. CASE i = n + 1
    BY <1>1, <1>3, <1>6, <2>1
  <2>2. CASE i # n + 1
    <3>1. i \in 1 .. n
      BY <1>4, <1>7, <2>2
    <3> QED BY <1>1, <1>3, <1>4, <1>6, <3>1
  <2> QED BY <2>1, <2>2
<1>9. NoPrice \in Tick
  BY DEF NoPrice, Tick
<1>10. PricedInv'
  BY <1>1, <1>7, <1>8, <1>9 DEF PricedInv, History, Timely
<1>11. PICK c \in Nat, m \in 0 .. Len(priced) :
         KeptFrom(watch.prices24, priced, c, m) /\ Over(priced, m, now)
  BY DEF KeptInv
<1>12. PICK d \in Nat, o \in 0 .. Len(priced) + 1 :
         KeptFrom(prices, Append(priced, saving), d, o) /\ Over(Append(priced, saving), o, now)
  <2>1. now \in Int
    BY DEF ClockInv
  <2> QED BY <1>3, <1>4, <1>11, <2>1, PriceKept DEF prices
<1>13. KeptFrom(watch'.prices24, priced', d, o) /\ Over(priced', o, now')
  BY <1>1, <1>2, <1>12
<1>14. o \in 0 .. Len(priced')
  BY <1>6, <1>12 DEF n
<1> QED BY <1>10, <1>13, <1>14 DEF KeptInv

LEMMA PricesStep ==
  ClockInv /\ WorthInv /\ PricedInv /\ KeptInv /\ [Next]_allVars => (PricedInv /\ KeptInv)'
<1> SUFFICES ASSUME ClockInv, WorthInv, PricedInv, KeptInv, [Next]_allVars
             PROVE  (PricedInv /\ KeptInv)'
  OBVIOUS
<1>1. CASE StatsRest
  BY <1>1, PricesAge DEF StatsRest
<1>2. CASE Tock
  BY <1>2, PricesAge DEF Tock
<1>3. ASSUME NEW p \in Nat, saving' = At(now, p), UNCHANGED <<now, watch, priced>>
      PROVE  (PricedInv /\ KeptInv)'
  <2>1. now \in Nat
    BY DEF ClockInv
  <2>2. saving' \in Tick /\ saving'.at = now
    BY <1>3, <2>1, AtIsTick
  <2> QED BY <1>3, <2>2, PricesAge
<1>4. ASSUME NEW p \in Prices, AddChartTick(p)
      PROVE  (PricedInv /\ KeptInv)'
  <2>1. p \in Nat
    BY StatsAssumption
  <2> QED BY <1>3, <1>4, <2>1 DEF AddChartTick
<1>5. CASE TradeAllowed
  <2>1. One \in Nat
    BY DEF One
  <2> QED BY <1>3, <1>5, <2>1 DEF TradeAllowed
<1>6. CASE AddPrice24
  BY <1>6, PricesAdd
<1>7. CASE PriceLost
  BY <1>7, PricesAge DEF PriceLost
<1>8. ASSUME NEW usd \in Amounts, NEW t \in {now - 1, now}, UpdateDeal(usd, t)
      PROVE  (PricedInv /\ KeptInv)'
  <2> DEFINE deals == DealsWith([at |-> t, usd |-> usd])
  <2>1. /\ watch' = [watch EXCEPT !.deals24 = deals]
        /\ now' = now /\ saving' = saving /\ priced' = priced
    BY <1>8 DEF UpdateDeal
  <2> HIDE DEF deals
  <2>2. watch'.prices24 = watch.prices24
    BY <2>1 DEF WorthInv
  <2> QED BY <2>1, <2>2, PricesAge
<1> QED BY <1>1, <1>2, <1>4, <1>5, <1>6, <1>7, <1>8, StatsMoves DEF StatsNext

\* What is compared, by what is recent.
LEMMA ChangeReturns ==
  ASSUME NEW s \in Seq(Tick), s = watch.prices24, NEW e \in 0 .. Len(s), OldUpTo(s, now, e)
  PROVE  /\ e = Len(s) => PriceChange.from = PriceChange.to
         /\ e < Len(s) =>
              PriceChange = [from |-> s[IF e < 1 THEN 1 ELSE e].price, to |-> s[Len(s)].price]
<1> DEFINE r == Recent(s, now)
           n == Len(s)
<1>1. n \in Nat
  OBVIOUS
<1>2. r \in Seq(Tick) /\ Len(r) = n - e /\ \A k \in 1 .. n - e : r[k] = s[e + k]
  <2>1. \A t : \A q \in Seq(Tick) : \A d \in 0 .. Len(q) : OldUpTo(q, t, d) =>
          /\ Recent(q, t) \in Seq(Tick) /\ Len(Recent(q, t)) = Len(q) - d
          /\ \A k \in 1 .. Len(q) - d : Recent(q, t)[k] = q[d + k]
    BY RecentReturns
  <2> QED BY <2>1
<1> HIDE DEF n, r
<1>3. e \in Nat /\ e <= n
  BY <1>1 DEF n
<1>4. PriceChange = IF r = <<>> THEN [from |-> 0, to |-> 0]
                    ELSE [from |-> s[IF n - Len(r) < 1 THEN 1 ELSE n - Len(r)].price,
                          to |-> Last(r).price]
  BY DEF PriceChange, r, n
<1>5. CASE e = n
  <2>1. Len(r) = 0
    BY <1>1, <1>2, <1>5
  <2>2. r = <<>>
    BY <1>2, <2>1
  <2>3. PriceChange = [from |-> 0, to |-> 0]
    BY <1>4, <2>2
  <2> QED BY <1>1, <1>5, <2>3 DEF n
<1>6. CASE e < n
  <2>1. n - e \in 1 .. n - e /\ e + (n - e) = n /\ n - (n - e) = e /\ n - e # 0
    BY <1>1, <1>3, <1>6
  <2>2. r # <<>>
    BY <1>2, <2>1
  <2>3. Last(r) = s[n]
    BY <1>2, <2>1 DEF Last
  <2> QED BY <1>1, <1>2, <1>3, <1>4, <1>6, <2>1, <2>2, <2>3 DEF n
<1> QED BY <1>3, <1>5, <1>6 DEF n

\* The change of a day is from the price that was in force a day ago.
LEMMA ChangeAgrees ==
  ASSUME ClockInv, PricedInv, KeptInv
  PROVE  IF \E i \in DOMAIN priced : now - priced[i].at < Day
         THEN PriceChange = [from |-> PriceAt(priced, now - Day), to |-> Last(priced).price]
         ELSE PriceChange.from = PriceChange.to
<1> DEFINE s == watch.prices24
           n == Len(priced)
           l == Len(s)
           day == now - Day
<1>1. PICK c \in Nat, m \in 0 .. n : KeptFrom(s, priced, c, m) /\ Over(priced, m, now)
  BY DEF KeptInv
<1>2. /\ s \in Seq(Tick) /\ l = c + (n - m)
      /\ \A k \in 1 .. c : s[k] = Origin(priced, m)
      /\ \A j \in 1 .. n - m : s[c + j] = priced[m + j]
      /\ 0 < c /\ (n # 0 => m < n)
      /\ \A j \in 1 .. m : ~ (now - priced[j].at < Day)
  BY <1>1 DEF KeptFrom, Over
<1>3. /\ History(priced) /\ priced \in Seq(Tick) /\ n \in Nat /\ DOMAIN priced = 1 .. n
      /\ \A i \in 1 .. n : priced[i].at \in Nat /\ StartTime <= priced[i].at
      /\ \A i, j \in 1 .. n : i < j => priced[i].at <= priced[j].at
  BY HistoryFields DEF PricedInv
<1>4. now \in Int /\ Day \in Int /\ day \in Int /\ 0 < Day /\ StartTime \in Nat
  BY StatsAssumption DEF ClockInv
<1>5. l \in Nat /\ Dated(s) /\ Timely(s)
  BY <1>1, <1>3, KeptInOrder
<1>6. PICK e \in 0 .. l : OldUpTo(s, now, e)
  BY <1>2, <1>4, <1>5, OldComeFirst
<1>7. \A i \in 1 .. l : now - s[i].at < Day <=> e < i
  BY <1>6 DEF OldUpTo
<1>8. /\ e = l => PriceChange.from = PriceChange.to
      /\ e < l => PriceChange = [from |-> s[IF e < 1 THEN 1 ELSE e].price, to |-> s[l].price]
  BY <1>2, <1>6, ChangeReturns
<1> HIDE DEF s, n, l, day
<1>9. /\ m \in Nat /\ m <= n /\ e \in Nat /\ e <= l /\ n \in Nat /\ l \in Nat /\ l = c + (n - m)
      /\ c \in Nat
  BY <1>1, <1>2, <1>3, <1>5, <1>6
<1>10. \A i \in 1 .. n : now - priced[i].at < Day <=> priced[i].at > day
  BY <1>3, <1>4 DEF day
\* The prices of the list that are recent are the recent ones.
<1>11. ASSUME NEW j \in 1 .. n
       PROVE  now - priced[j].at < Day <=> m < j /\ e < c + (j - m)
  <2>1. CASE j <= m
    <3>1. j \in 1 .. m /\ ~ (m < j)
      BY <1>9, <2>1
    <3> QED BY <1>2, <3>1
  <2>2. CASE m < j
    <3>1. j - m \in 1 .. n - m /\ m + (j - m) = j /\ c + (j - m) \in 1 .. l
      BY <1>9, <2>2
    <3>2. s[c + (j - m)] = priced[j]
      BY <1>2, <3>1
    <3> QED BY <1>7, <2>2, <3>1, <3>2
  <2> QED BY <1>9, <2>1, <2>2
<1>12. CASE e = l
  <2>1. ASSUME NEW i \in 1 .. n
        PROVE  ~ (now - priced[i].at < Day)
    <3>1. ~ (m < i /\ e < c + (i - m))
      BY <1>9, <1>12
    <3> QED BY <1>11, <3>1
  <2> QED BY <1>3, <1>8, <1>12, <2>1
\* Only the price of the sale is listed.
<1>13. CASE e < l /\ n = 0
  <2>1. m = 0 /\ l = c /\ l \in 1 .. c
    BY <1>2, <1>9, <1>13
  <2>2. (IF e < 1 THEN 1 ELSE e) \in 1 .. c
    BY <1>9, <1>13, <2>1
  <2>3. PriceChange.from = PriceChange.to
    BY <1>2, <1>8, <1>13, <2>1, <2>2
  <2> QED BY <1>3, <1>13, <2>3
<1>14. CASE e < l /\ n # 0
  <2>2. 0 < c /\ m < n
    BY <1>2, <1>14
  <2>3. n - m \in 1 .. n - m /\ m + (n - m) = n /\ c + (n - m) = l /\ n \in 1 .. n
    BY <1>9, <2>2
  <2>4. s[l] = priced[n] /\ now - priced[n].at < Day
    <3>1. s[l] = priced[n]
      BY <1>2, <2>3
    <3>2. e < c + (n - m)
      BY <1>14, <2>3
    <3> QED BY <1>11, <2>2, <2>3, <3>1, <3>2
  <2>5. Last(priced).price = s[l].price
    BY <2>4 DEF Last, n
  \* The price before the first recent one.
  <2>6. ASSUME NEW o \in 0 .. n, \A j \in 1 .. n : now - priced[j].at < Day <=> o < j
        PROVE  PriceAt(priced, day) = Origin(priced, o).price
    <3>1. CASE o = 0
      <4>1. \A i \in DOMAIN priced : priced[i].at > day
        BY <1>3, <1>10, <2>6, <3>1
      <4>2. Origin(priced, o).price = One
        BY <3>1 DEF Origin, At
      <4> QED BY <1>3, <1>4, <4>1, <4>2, PriceBefore
    <3>2. CASE o # 0
      <4>1. o \in 1 .. n /\ ~ (o < o)
        BY <1>9, <3>2
      <4>2. ~ (priced[o].at > day)
        BY <1>10, <2>6, <4>1
      <4>3. priced[o].at <= day
        BY <1>3, <1>4, <4>1, <4>2
      <4>4. \A i \in DOMAIN priced : o < i => priced[i].at > day
        BY <1>3, <1>10, <2>6
      <4>5. Origin(priced, o) = priced[o]
        BY <3>2 DEF Origin
      <4>6. o \in DOMAIN priced /\ day \in Int /\ priced \in Seq(Tick)
        BY <1>3, <1>4, <4>1
      <4>7. PriceAt(priced, day) = priced[o].price
        BY <4>3, <4>4, <4>6, PriceSince
      <4> QED BY <4>5, <4>7
    <3> QED BY <3>1, <3>2
  <2>7. s[IF e < 1 THEN 1 ELSE e].price = PriceAt(priced, day)
    <3>1. CASE e <= c
      <4> DEFINE k == IF e < 1 THEN 1 ELSE e
      <4>1. k \in 1 .. c
        BY <1>9, <2>2, <3>1
      <4>2. s[k] = Origin(priced, m)
        BY <1>2, <4>1
      <4>3. ASSUME NEW j \in 1 .. n
            PROVE  now - priced[j].at < Day <=> m < j
        <5>1. m < j => e < c + (j - m)
          BY <1>9, <3>1
        <5> QED BY <1>11, <5>1
      <4>4. PriceAt(priced, day) = Origin(priced, m).price
        BY <1>1, <2>6, <4>3 DEF n
      <4> QED BY <4>2, <4>4
    <3>2. CASE c < e
      <4> DEFINE o == m + (e - c)
      <4>1. e - c \in 1 .. n - m /\ c + (e - c) = e /\ o \in 0 .. n /\ o # 0 /\ ~ (e < 1)
        BY <1>9, <3>2
      <4>2. s[e] = priced[o]
        <5>1. s[c + (e - c)] = priced[m + (e - c)]
          BY <1>2, <4>1
        <5> QED BY <4>1, <5>1
      <4>3. ASSUME NEW j \in 1 .. n
            PROVE  now - priced[j].at < Day <=> o < j
        <5>1. (m < j /\ e < c + (j - m)) <=> o < j
          BY <1>9, <3>2
        <5> QED BY <1>11, <5>1
      <4> HIDE DEF o
      <4>4. PriceAt(priced, day) = Origin(priced, o).price
        BY <2>6, <4>1, <4>3
      <4>5. Origin(priced, o) = priced[o]
        BY <4>1 DEF Origin
      <4> QED BY <4>1, <4>2, <4>4, <4>5
    <3> QED BY <1>9, <3>1, <3>2
  <2>8. PriceChange = [from |-> PriceAt(priced, day), to |-> Last(priced).price]
    BY <1>8, <1>14, <2>5, <2>7
  <2> QED BY <1>3, <2>3, <2>4, <2>8 DEF day
<1> QED BY <1>9, <1>12, <1>13, <1>14

LEMMA DayIsTold ==
  ClockInv /\ DealsInv /\ PricedInv /\ KeptInv => DayAgrees
BY ChangeAgrees, VolumeAgrees DEF DayAgrees

\* What a day is said to have brought: the change from the price in force a day
\* before, and the volume of its deals, or none that is a number.
THEOREM DaysAgree == Spec => []DayAgrees
<1> DEFINE Inv == ClockInv /\ WorthInv /\ DealsInv /\ PricedInv /\ KeptInv
<1>1. Init => Inv
  <2>1. Init => ClockInv
    BY StatsAssumption DEF Init, StatsInit, ClockInv
  <2> QED BY <2>1, WorthStart, DealsStart, PricesStart
<1>2. Inv /\ [Next]_allVars => Inv'
  BY ClockStep, WorthStep, DealsStep, PricesStep
<1>3. Inv => DayAgrees
  BY DayIsTold
<1> QED BY <1>1, <1>2, <1>3, PTL DEF Spec

=============================================================================
