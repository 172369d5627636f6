---------------------------- MODULE StanzasProofs ---------------------------
(***************************************************************************)
(* Theorems about Stanzas: what both ends of a call read from its stanzas, *)
(* for every answer of two levels and all arguments of a call.             *)
(***************************************************************************)
EXTENDS Stanzas, FunctionTheorems, FiniteSetTheorems, SequenceTheorems, TLAPS

-----------------------------------------------------------------------------
\* Lists in the order of a relation

\* A strict total order of S
Orders(R, S) ==
  /\ \A i \in S : <<i, i>> \notin R
  /\ \A i, j \in S : i # j => <<i, j>> \in R \/ <<j, i>> \in R
  /\ \A i, j, k \in S : <<i, j>> \in R /\ <<j, k>> \in R => <<i, k>> \in R

Below(S, R, i) == {j \in S : <<j, i>> \in R}

\* How many members lie below one grows with the order.
LEMMA BelowGrows ==
  ASSUME NEW S, IsFiniteSet(S), NEW R, Orders(R, S), NEW i \in S, NEW j \in S, <<i, j>> \in R
  PROVE  Cardinality(Below(S, R, i)) < Cardinality(Below(S, R, j))
<1>1. Below(S, R, i) \subseteq Below(S, R, j) /\ Below(S, R, i) # Below(S, R, j)
  BY DEF Below, Orders
<1>2. IsFiniteSet(Below(S, R, j))
  BY FS_Subset DEF Below
<1> QED
  BY <1>1, <1>2, FS_Subset, FS_CardinalityType

\* Every number from 0 on counts the members below exactly one member.
LEMMA BelowCounts ==
  ASSUME NEW S, IsFiniteSet(S), NEW R, Orders(R, S)
  PROVE  \A k \in 1 .. Cardinality(S) : \E i \in S : Cardinality(Below(S, R, i)) = k - 1
<1> DEFINE n == Cardinality(S)
           place == [i \in S |-> Cardinality(Below(S, R, i)) + 1]
           img == {place[i] : i \in S}
<1>1. n \in Nat
  BY FS_CardinalityType
<1>2. ASSUME NEW i \in S PROVE place[i] \in 1 .. n
  <2>1. Below(S, R, i) \subseteq S /\ Below(S, R, i) # S
    BY <1>2 DEF Below, Orders
  <2>2. IsFiniteSet(Below(S, R, i)) /\ Cardinality(Below(S, R, i)) < n
    BY <2>1, <1>1, FS_Subset, FS_CardinalityType
  <2> QED
    BY <2>2, <1>1, FS_CardinalityType
<1>3. \A i, j \in S : i # j => place[i] # place[j]
  <2> SUFFICES ASSUME NEW i \in S, NEW j \in S, i # j PROVE place[i] # place[j]
    OBVIOUS
  <2>1. <<i, j>> \in R \/ <<j, i>> \in R
    BY DEF Orders
  <2>2. Cardinality(Below(S, R, i)) # Cardinality(Below(S, R, j))
    <3>1. Cardinality(Below(S, R, i)) \in Nat /\ Cardinality(Below(S, R, j)) \in Nat
      BY FS_Subset, FS_CardinalityType DEF Below
    <3> QED
      BY <2>1, <3>1, BelowGrows
  <2>3. Cardinality(Below(S, R, i)) \in Nat /\ Cardinality(Below(S, R, j)) \in Nat
    BY FS_Subset, FS_CardinalityType DEF Below
  <2> QED
    BY <2>2, <2>3
<1>4. place \in Bijection(S, img)
  <2>1. place \in [S -> img]
    OBVIOUS
  <2> QED
    BY <2>1, <1>3, Fun_IsBij
<1>5. IsFiniteSet(img) /\ Cardinality(img) = n
  BY <1>4, FS_Bijection DEF ExistsBijection
<1>6. img \subseteq 1 .. n
  BY <1>2
<1>7. IsFiniteSet(1 .. n) /\ Cardinality(1 .. n) = n
  BY <1>1, FS_Interval
<1>8. img = 1 .. n
  <2> HIDE DEF img, n
  <2> QED
    BY <1>1, <1>5, <1>6, <1>7, FS_Subset
<1> SUFFICES ASSUME NEW k \in 1 .. n PROVE \E i \in S : Cardinality(Below(S, R, i)) = k - 1
  OBVIOUS
<1>9. PICK i \in S : place[i] = k
  BY <1>8
<1>10. Cardinality(Below(S, R, i)) \in Nat
  BY FS_Subset, FS_CardinalityType DEF Below
<1> QED
  BY <1>9, <1>10

\* A list of S, every member once, in the order of R
Lists(list, S, R) ==
  /\ Cardinality(S) \in Nat
  /\ list \in [1 .. Cardinality(S) -> S]
  /\ \A i \in S : \E k \in 1 .. Cardinality(S) : list[k] = i
  /\ \A k, l \in 1 .. Cardinality(S) : k < l => <<list[k], list[l]>> \in R

\* InOrder makes such a list.
LEMMA InOrderLists ==
  ASSUME NEW S, IsFiniteSet(S), NEW R, Orders(R, S)
  PROVE  Lists(InOrder(S, R), S, R)
<1> DEFINE n == Cardinality(S)
           list == InOrder(S, R)
           at(k) == CHOOSE i \in S : Cardinality(Below(S, R, i)) = k - 1
<1>1. n \in Nat
  BY FS_CardinalityType
<1>2. list = [k \in 1 .. n |-> at(k)]
  BY DEF InOrder, Below
<1>3. \A k \in 1 .. n : at(k) \in S /\ Cardinality(Below(S, R, at(k))) = k - 1
  BY BelowCounts
<1> HIDE DEF at, list
<1>4. \A k \in 1 .. n : list[k] \in S /\ Cardinality(Below(S, R, list[k])) = k - 1
  BY <1>2, <1>3
<1>5. list \in [1 .. n -> S]
  BY <1>2, <1>3
<1>6. ASSUME NEW i \in S PROVE \E k \in 1 .. n : list[k] = i
  <2>1. Below(S, R, i) \subseteq S /\ Below(S, R, i) # S
    BY DEF Below, Orders
  <2>2. /\ Cardinality(Below(S, R, i)) < n
        /\ Cardinality(Below(S, R, i)) \in Nat
    BY <2>1, FS_Subset, FS_CardinalityType
  <2> DEFINE k == Cardinality(Below(S, R, i)) + 1
  <2>3. k \in 1 .. n /\ k - 1 = Cardinality(Below(S, R, i))
    BY <2>2, <1>1
  <2>4. list[k] \in S /\ Cardinality(Below(S, R, list[k])) = Cardinality(Below(S, R, i))
    BY <2>3, <1>4
  <2>5. list[k] = i
    <3> SUFFICES ASSUME list[k] # i PROVE FALSE
      OBVIOUS
    <3>1. <<list[k], i>> \in R \/ <<i, list[k]>> \in R
      BY <2>4 DEF Orders
    <3> QED
      BY <2>2, <2>4, <3>1, BelowGrows
  <2> QED
    BY <2>3, <2>5
<1>7. ASSUME NEW k \in 1 .. n, NEW l \in 1 .. n, k < l PROVE <<list[k], list[l]>> \in R
  <2>1. /\ list[k] \in S /\ Cardinality(Below(S, R, list[k])) = k - 1
        /\ list[l] \in S /\ Cardinality(Below(S, R, list[l])) = l - 1
    BY <1>4
  <2>2. list[k] # list[l]
    BY <2>1, <1>1, <1>7
  <2>3. <<list[k], list[l]>> \in R \/ <<list[l], list[k]>> \in R
    BY <2>1, <2>2 DEF Orders
  <2>4. ~(<<list[l], list[k]>> \in R)
    <3> SUFFICES ASSUME <<list[l], list[k]>> \in R PROVE FALSE
      OBVIOUS
    <3>1. l - 1 < k - 1
      BY <2>1, BelowGrows
    <3> QED
      BY <3>1, <1>1, <1>7
  <2> QED
    BY <2>3, <2>4
<1> QED
  BY <1>1, <1>5, <1>6, <1>7 DEF list, Lists

\* Numbers are ordered by size, places by the child and then by the child's child.
LEMMA RisingOrders ==
  ASSUME NEW S, S \subseteq Int
  PROVE  Orders(Rising(S), S)
<1>1. \A i, j \in S : <<i, j>> \in Rising(S) <=> i < j
  BY DEF Rising
<1>2. \A i, j, k \in S : i < j /\ j < k => i < k
  OBVIOUS
<1>3. \A i, j \in S : i # j => i < j \/ j < i
  OBVIOUS
<1> QED
  BY <1>1, <1>2, <1>3 DEF Orders

LEMMA NestedOrders ==
  ASSUME NEW S, S \subseteq Int \X Int
  PROVE  Orders(Nested(S), S)
<1> DEFINE before(p, q) == p[1] < q[1] \/ (p[1] = q[1] /\ p[2] < q[2])
<1>1. \A p \in S : p[1] \in Int /\ p[2] \in Int /\ p = <<p[1], p[2]>>
  OBVIOUS
<1>2. \A p, q \in S : <<p, q>> \in Nested(S) <=> before(p, q)
  BY DEF Nested
<1>3. \A p, q \in S : p # q => before(p, q) \/ before(q, p)
  BY <1>1
<1>4. \A p, q, r \in S : before(p, q) /\ before(q, r) => before(p, r)
  BY <1>1
<1>5. \A p \in S : ~before(p, p)
  BY <1>1
<1> HIDE DEF before
<1> QED
  BY <1>2, <1>3, <1>4, <1>5 DEF Orders

\* A finite set that is not empty has a first member.
LEMMA FirstOf ==
  ASSUME NEW S, IsFiniteSet(S), S # {}, NEW R, Orders(R, S)
  PROVE  \E m \in S : \A i \in S : i = m \/ <<m, i>> \in R
<1> DEFINE list == InOrder(S, R)
<1>1. Lists(list, S, R)
  BY InOrderLists
<1> HIDE DEF list
<1>2. Cardinality(S) \in Nat /\ Cardinality(S) >= 1
  BY <1>1, FS_EmptySet DEF Lists
<1>3. list[1] \in S
  BY <1>1, <1>2 DEF Lists
<1>4. ASSUME NEW i \in S PROVE i = list[1] \/ <<list[1], i>> \in R
  <2>1. PICK k \in 1 .. Cardinality(S) : list[k] = i
    BY <1>1 DEF Lists
  <2>2. k # 1 => 1 \in 1 .. Cardinality(S) /\ 1 < k
    BY <1>2, <2>1
  <2> QED
    BY <1>1, <2>1, <2>2 DEF Lists
<1> QED
  BY <1>3, <1>4

LEMMA LeastOf ==
  ASSUME NEW S, S \subseteq Int, IsFiniteSet(S), S # {}
  PROVE  \E m \in S : \A i \in S : m <= i
<1>1. PICK m \in S : \A i \in S : i = m \/ <<m, i>> \in Rising(S)
  BY RisingOrders, FirstOf
<1>2. \A i \in S : <<m, i>> \in Rising(S) => m < i
  BY DEF Rising
<1>3. \A i \in S : m < i => m <= i
  OBVIOUS
<1>4. m <= m
  OBVIOUS
<1> QED
  BY <1>1, <1>2, <1>3, <1>4

\* More numbers do not fit into fewer.
LEMMA Squeeze ==
  ASSUME NEW k \in Nat \ {0}, NEW f, f \in [1 .. k -> 1 .. k - 1],
         \A x, y \in 1 .. k : x # y => f[x] # f[y]
  PROVE  FALSE
<1>1. f \in Injection(1 .. k, 1 .. k - 1)
  BY Fun_IsInj
<1>2. /\ IsFiniteSet(1 .. k) /\ Cardinality(1 .. k) = k
      /\ IsFiniteSet(1 .. k - 1) /\ Cardinality(1 .. k - 1) = k - 1
  BY FS_Interval
<1>3. Cardinality(1 .. k) <= Cardinality(1 .. k - 1)
  BY <1>1, <1>2, FS_Injection
<1> QED
  BY <1>2, <1>3

-----------------------------------------------------------------------------
\* Round-trip times

Times == Nat \cup {-1}
noLater(a, b) == b >= 0 => a \in 0 .. b

LEMMA NoLaterOrders ==
  /\ \A a, b \in Times : noLater(a, b) \/ noLater(b, a)
  /\ \A a, b \in Times : noLater(a, b) /\ noLater(b, a) => a = b
  /\ \A a, b, c \in Times : noLater(a, b) /\ noLater(b, c) => noLater(a, c)
BY DEF Times, noLater

Permutes(h, n) ==
  /\ h \in [1 .. n -> 1 .. n]
  /\ \A i, j \in 1 .. n : i # j => h[i] # h[j]
  /\ \A j \in 1 .. n : \E i \in 1 .. n : h[i] = j
Ranked(t, n) == t \in [1 .. n -> Times] /\ \A i, j \in 1 .. n : i < j => noLater(t[i], t[j])

\* Two ranked lists of the same times are the same list.
LEMMA SameTimes ==
  ASSUME NEW n \in Nat, NEW f, Ranked(f, n), NEW h, Permutes(h, n),
         NEW g, Ranked(g, n), \A i \in 1 .. n : g[i] = f[h[i]]
  PROVE  \A k \in 1 .. n : g[k] = f[k]
<1> SUFFICES ASSUME NEW k \in 1 .. n, f[h[k]] # f[k] PROVE FALSE
  OBVIOUS
<1>0. /\ f \in [1 .. n -> Times] /\ h \in [1 .. n -> 1 .. n]
      /\ \A i, j \in 1 .. n : i # j => h[i] # h[j]
      /\ \A j \in 1 .. n : \E i \in 1 .. n : h[i] = j
      /\ \A i, j \in 1 .. n : i < j => noLater(f[i], f[j])
      /\ \A i, j \in 1 .. n : i < j => noLater(f[h[i]], f[h[j]])
  BY DEF Permutes, Ranked
<1> HIDE DEF Times
<1>1. \A i \in 1 .. n : h[i] \in 1 .. n /\ f[i] \in Times /\ f[h[i]] \in Times
  BY <1>0
<1>2. \A j \in 1 .. k : j \in 1 .. n
  OBVIOUS
<1>3. \A i, j \in 1 .. n : i < j \/ i = j \/ j < i
  OBVIOUS
<1>4. \A j \in 1 .. n : ~(k < j) /\ k # j => j \in 1 .. k - 1
  OBVIOUS
<1>5. \A j \in 1 .. k : j = k \/ j < k
  OBVIOUS
<1>6. ASSUME NEW j \in 1 .. k PROVE noLater(f[j], f[k]) /\ noLater(f[h[j]], f[h[k]])
  <2>1. CASE j = k
    BY <1>1, <2>1, NoLaterOrders
  <2>2. CASE j < k
    BY <1>0, <1>2, <2>2
  <2> QED
    BY <1>5, <2>1, <2>2
<1>7. CASE ~noLater(f[h[k]], f[k])
  <2> DEFINE back == [j \in 1 .. k |-> CHOOSE i \in 1 .. n : h[i] = j]
  <2>1. \A j \in 1 .. k : \E i \in 1 .. n : h[i] = j
    BY <1>0, <1>2
  <2>2. \A j \in 1 .. k : back[j] \in 1 .. n /\ h[back[j]] = j
    BY <2>1
  <2>3. back \in [1 .. k -> 1 .. n]
    BY <2>2
  <2> HIDE DEF back
  <2>4. ASSUME NEW j \in 1 .. k PROVE back[j] \in 1 .. k - 1
    <3> DEFINE b == back[j]
    <3>1. b \in 1 .. n /\ h[b] = j /\ f[j] \in Times
      BY <1>1, <1>2, <2>2
    <3> HIDE DEF b
    <3>2. ~noLater(f[h[k]], f[h[b]])
      BY <1>1, <1>6, <1>7, <3>1, NoLaterOrders
    <3>3. ~(k < b)
      BY <1>0, <3>1, <3>2
    <3>4. k # b
      BY <1>1, <3>1, <3>2, NoLaterOrders
    <3> QED
      BY <1>4, <3>1, <3>3, <3>4 DEF b
  <2>5. back \in [1 .. k -> 1 .. k - 1]
    BY <2>3, <2>4
  <2>6. \A i, j \in 1 .. k : i # j => back[i] # back[j]
    BY <2>2
  <2>7. k \in Nat \ {0}
    OBVIOUS
  <2> QED
    BY <2>5, <2>6, <2>7, Squeeze
<1>8. CASE ~noLater(f[k], f[h[k]])
  <2> DEFINE low == [j \in 1 .. k |-> h[j]]
  <2>1. ASSUME NEW j \in 1 .. k PROVE h[j] \in 1 .. k - 1
    <3> DEFINE b == h[j]
    <3>1. b \in 1 .. n /\ j \in 1 .. n /\ f[b] \in Times /\ f[h[k]] \in Times /\ f[k] \in Times
      BY <1>1, <1>2
    <3>2. noLater(f[b], f[h[k]])
      BY <1>6
    <3> HIDE DEF b
    <3>3. ~noLater(f[k], f[b])
      BY <1>8, <3>1, <3>2, NoLaterOrders
    <3>4. ~(k < b)
      BY <1>0, <3>1, <3>3
    <3>5. k # b
      BY <3>1, <3>3, NoLaterOrders
    <3> QED
      BY <1>4, <3>1, <3>4, <3>5 DEF b
  <2>2. low \in [1 .. k -> 1 .. k - 1]
    BY <2>1
  <2>3. \A i, j \in 1 .. k : i # j => low[i] # low[j]
    BY <1>0, <1>2
  <2>4. k \in Nat \ {0}
    OBVIOUS
  <2> HIDE DEF low
  <2> QED
    BY <2>2, <2>3, <2>4, Squeeze
<1> QED
  BY <1>1, <1>7, <1>8, NoLaterOrders

\* The order of a sort: the shorter time first, of equal ones the one that came first.
LEMMA EarlierOrders ==
  ASSUME NEW n \in Nat, NEW relays, DOMAIN relays = 1 .. n, \A i \in 1 .. n : relays[i].rtt \in Times
  PROVE  /\ Orders(Earlier(relays), 1 .. n)
         /\ \A i, j \in 1 .. n : <<i, j>> \in Earlier(relays) => noLater(relays[i].rtt, relays[j].rtt)
<1> DEFINE t(i) == relays[i].rtt
           less(a, b) == a >= 0 /\ (b < 0 \/ a < b)
           before(i, j) == less(t(i), t(j)) \/ (~less(t(j), t(i)) /\ i < j)
<1>1. \A i, j \in 1 .. n : <<i, j>> \in Earlier(relays) <=> before(i, j)
  <2>1. Earlier(relays) = {p \in (1 .. n) \X (1 .. n) : before(p[1], p[2])}
    BY DEF Earlier, rttLess
  <2> HIDE DEF before
  <2> QED
    BY <2>1
<1>2. \A a, b \in Times : ~less(b, a) <=> noLater(a, b)
  BY DEF Times, noLater
<1>3. \A a, b \in Times : less(a, b) => noLater(a, b)
  BY DEF Times, noLater
<1>4. \A a, b, c \in Times : /\ less(a, b) /\ noLater(b, c) => less(a, c)
                             /\ noLater(a, b) /\ less(b, c) => less(a, c)
  BY DEF Times, noLater
<1>5. \A a \in Times : ~less(a, a)
  BY DEF Times
<1>6. \A i \in 1 .. n : t(i) \in Times
  OBVIOUS
<1>7. \A i, j, k \in 1 .. n : i < j /\ j < k => i < k
  OBVIOUS
<1>8. \A i, j \in 1 .. n : i # j => i < j \/ j < i
  OBVIOUS
<1>9. \A i \in 1 .. n : ~(i < i)
  OBVIOUS
<1> HIDE DEF less, t
<1>10. \A i \in 1 .. n : ~before(i, i)
  BY <1>5, <1>6, <1>9
<1>11. ASSUME NEW i \in 1 .. n, NEW j \in 1 .. n, i # j PROVE before(i, j) \/ before(j, i)
  <2>1. i < j \/ j < i
    BY <1>8, <1>11
  <2>2. CASE less(t(i), t(j)) \/ less(t(j), t(i))
    BY <2>2
  <2>3. CASE ~less(t(i), t(j)) /\ ~less(t(j), t(i))
    BY <2>1, <2>3
  <2> QED
    BY <2>2, <2>3
<1>12. ASSUME NEW i \in 1 .. n, NEW j \in 1 .. n, NEW k \in 1 .. n, before(i, j), before(j, k)
       PROVE  before(i, k)
  BY <1>2, <1>3, <1>4, <1>6, <1>7, <1>12, NoLaterOrders
<1>13. \A i, j \in 1 .. n : before(i, j) => noLater(t(i), t(j))
  BY <1>2, <1>3, <1>6
<1> HIDE DEF before
<1>14. Orders(Earlier(relays), 1 .. n)
  BY <1>1, <1>10, <1>11, <1>12 DEF Orders
<1> QED
  BY <1>1, <1>13, <1>14 DEF t

\* A list names no member twice.
LEMMA ListsOnce ==
  ASSUME NEW S, NEW R, Orders(R, S), NEW list, Lists(list, S, R)
  PROVE  \A k, l \in 1 .. Cardinality(S) : k # l => list[k] # list[l]
<1> SUFFICES ASSUME NEW k \in 1 .. Cardinality(S), NEW l \in 1 .. Cardinality(S), k # l
             PROVE  list[k] # list[l]
  OBVIOUS
<1>1. list[k] \in S /\ list[l] \in S
  BY DEF Lists
<1>2. <<list[k], list[l]>> \in R \/ <<list[l], list[k]>> \in R
  <2>1. k < l \/ l < k
    BY DEF Lists
  <2> QED
    BY <2>1 DEF Lists
<1> QED
  BY <1>1, <1>2 DEF Orders

\* Sorting permutes the relays, the ones that answer sooner first.
LEMMA SortRanks ==
  ASSUME NEW n \in Nat, NEW relays, DOMAIN relays = 1 .. n, \A i \in 1 .. n : relays[i].rtt \in Times
  PROVE  \E h :
           /\ Permutes(h, n)
           /\ sortRelaysByRtt(relays) = [k \in 1 .. n |-> relays[h[k]]]
           /\ \A i, j \in 1 .. n : i < j => noLater(relays[h[i]].rtt, relays[h[j]].rtt)
<1> DEFINE S == 1 .. n
           h == InOrder(S, Earlier(relays))
<1>1. IsFiniteSet(S) /\ Cardinality(S) = n
  BY FS_Interval
<1>2. Orders(Earlier(relays), S)
  BY EarlierOrders
<1>3. Lists(h, S, Earlier(relays))
  BY <1>1, <1>2, InOrderLists
<1>4. \A i, j \in S : <<i, j>> \in Earlier(relays) => noLater(relays[i].rtt, relays[j].rtt)
  BY EarlierOrders
<1>5. sortRelaysByRtt(relays) = [k \in DOMAIN h |-> relays[h[k]]]
  BY DEF sortRelaysByRtt
<1> HIDE DEF h
<1>6. \A i, j \in 1 .. Cardinality(S) : i # j => h[i] # h[j]
  <2> HIDE DEF S
  <2> QED
    BY <1>2, <1>3, ListsOnce
<1>7. /\ h \in [1 .. n -> S]
      /\ \A i \in S : \E k \in 1 .. n : h[k] = i
      /\ \A k, l \in 1 .. n : k < l => <<h[k], h[l]>> \in Earlier(relays)
  BY <1>1, <1>3 DEF Lists
<1>8. \A i, j \in 1 .. n : i < j => noLater(relays[h[i]].rtt, relays[h[j]].rtt)
  BY <1>4, <1>7
<1>9. sortRelaysByRtt(relays) = [k \in 1 .. n |-> relays[h[k]]]
  BY <1>5, <1>7
<1>10. Permutes(h, n)
  BY <1>1, <1>6, <1>7 DEF Permutes
<1> QED
  BY <1>8, <1>9, <1>10

-----------------------------------------------------------------------------
\* Places of a node

\* A node of two levels
TwoLevels(node) ==
  /\ Len(node.kids) \in Nat /\ DOMAIN node.kids = 1 .. Len(node.kids)
  /\ \A i \in 1 .. Len(node.kids) :
       Len(node.kids[i].kids) \in Nat /\ DOMAIN node.kids[i].kids = 1 .. Len(node.kids[i].kids)

LEMMA PlacesFinite ==
  ASSUME NEW node, TwoLevels(node)
  PROVE  /\ IsFiniteSet(Places(node))
         /\ \A p \in Places(node) : /\ p \in Int \X Int /\ p = <<p[1], p[2]>>
                                    /\ p[1] \in 1 .. Len(node.kids)
                                    /\ p[2] \in 0 .. Len(node.kids[p[1]].kids)
         /\ \A i \in 1 .. Len(node.kids) : \A j \in 0 .. Len(node.kids[i].kids) : <<i, j>> \in Places(node)
<1> DEFINE D == 1 .. Len(node.kids)
           row == [i \in D |-> {i} \X (0 .. Len(node.kids[i].kids))]
           rows == {row[i] : i \in D}
<1>1. Places(node) = UNION rows
  BY DEF Places, TwoLevels
<1>2. IsFiniteSet(rows)
  <2>1. IsFiniteSet(D)
    BY FS_Interval DEF TwoLevels
  <2>2. row \in Surjection(D, rows)
    BY DEF Surjection
  <2> HIDE DEF row, rows, D
  <2> QED
    BY <2>1, <2>2, FS_Surjection
<1>3. ASSUME NEW i \in D PROVE IsFiniteSet(row[i])
  <2>1. IsFiniteSet({i})
    BY FS_Singleton
  <2>2. IsFiniteSet(0 .. Len(node.kids[i].kids))
    <3> DEFINE m == Len(node.kids[i].kids)
    <3>1. m \in Nat
      BY DEF TwoLevels
    <3> HIDE DEF m
    <3>2. IsFiniteSet(0 .. m)
      BY <3>1, FS_Interval
    <3> QED
      BY <3>2 DEF m
  <2>3. row[i] = {i} \X (0 .. Len(node.kids[i].kids))
    OBVIOUS
  <2> HIDE DEF row
  <2> QED
    BY <2>1, <2>2, <2>3, FS_Product
<1>4. IsFiniteSet(UNION rows)
  <2>1. \A T \in rows : IsFiniteSet(T)
    BY <1>3
  <2> HIDE DEF rows
  <2> QED
    BY <1>2, <2>1, FS_UNION
<1>5. \A p \in Places(node) : \E i \in D : p \in {i} \X (0 .. Len(node.kids[i].kids))
  BY <1>1
<1>6. ASSUME NEW p \in Places(node)
      PROVE  /\ p \in Int \X Int /\ p = <<p[1], p[2]>>
             /\ p[1] \in D /\ p[2] \in 0 .. Len(node.kids[p[1]].kids)
  <2>1. PICK i \in D : p \in {i} \X (0 .. Len(node.kids[i].kids))
    BY <1>5
  <2>2. p[1] = i /\ p[2] \in 0 .. Len(node.kids[i].kids) /\ p = <<p[1], p[2]>>
    BY <2>1
  <2>3. p[1] \in Int /\ p[2] \in Int
    BY <2>1, <2>2 DEF TwoLevels
  <2> QED
    BY <2>2, <2>3
<1>7. ASSUME NEW i \in D, NEW j \in 0 .. Len(node.kids[i].kids) PROVE <<i, j>> \in Places(node)
  <2>1. <<i, j>> \in row[i]
    OBVIOUS
  <2> QED
    BY <2>1, <1>1
<1> QED
  BY <1>1, <1>4, <1>6, <1>7

-----------------------------------------------------------------------------
\* The shape of an answer

LEMMA GrownOnce ==
  ASSUME NEW kid \in Grown, NEW n \in Leaves
  PROVE  [kid EXCEPT !.kids = Append(@, n)] \in Grown
<1>1. kid.kids \in Seq(Kids) /\ n \in Kids
  BY DEF Grown, Kids
<1>2. Append(kid.kids, n) \in Seq(Kids)
  BY <1>1
<1> QED
  BY <1>2 DEF Grown


\* TypeOK holds of every state (AddBranch, AddLeaf).
THEOREM StanzasTyped == Spec => []TypeOK
<1>1. Init => TypeOK
  BY DEF Init, TypeOK, Node, NoAttrs
<1>2. TypeOK /\ [Next]_<<ack, call>> => TypeOK'
  <2> SUFFICES ASSUME TypeOK, [Next]_<<ack, call>> PROVE TypeOK'
    OBVIOUS
  <2>1. ack.kids \in Seq(Grown)
    BY DEF TypeOK
  <2>2. ASSUME NEW n \in Branches, AddBranch(n) PROVE TypeOK'
    <3>1. n \in Grown
      BY <2>2, StanzaAssumption
    <3>2. Append(ack.kids, n) \in Seq(Grown)
      BY <2>1, <3>1
    <3>3. ack' = [ack EXCEPT !.kids = Append(ack.kids, n)] /\ call' = call
      BY <2>2 DEF AddBranch
    <3> QED
      BY <3>2, <3>3 DEF TypeOK, NoCall
  <2>3. ASSUME NEW n \in Leaves, AddLeaf(n) PROVE TypeOK'
    <3> DEFINE last == Len(ack.kids)
               kid == [ack.kids[last] EXCEPT !.kids = Append(@, n)]
               kids == [ack.kids EXCEPT ![last] = kid]
    <3>1. last \in 1 .. Len(ack.kids)
      BY <2>1, <2>3 DEF AddLeaf
    <3>2. kid \in Grown
      BY <2>1, <3>1, GrownOnce
    <3>3. kids \in Seq(Grown)
      <4> HIDE DEF kid, last
      <4> QED
        BY <2>1, <3>1, <3>2, ExceptSeq
    <3>4. ack' = [ack EXCEPT !.kids = kids]
      <4>1. ack' = [ack EXCEPT !.kids[last].kids = Append(@, n)]
        BY <2>3 DEF AddLeaf
      <4> QED
        BY <4>1, Zenon
    <3>5. call' = call
      BY <2>3 DEF AddLeaf
    <3> HIDE DEF kids
    <3> QED
      BY <3>3, <3>4, <3>5 DEF TypeOK, NoCall
  <2>4. CASE UNCHANGED <<ack, call>>
    BY <2>4 DEF TypeOK, NoCall
  <2> QED
    BY <2>2, <2>3, <2>4 DEF Next
<1> QED
  BY <1>1, <1>2, PTL DEF Spec

\* What TypeOK says of the answer's children, and of theirs.
LEMMA AckShape ==
  ASSUME TypeOK
  PROVE  /\ TwoLevels(ack)
         /\ \A i \in 1 .. Len(ack.kids) : \A j \in 1 .. Len(ack.kids[i].kids) : ack.kids[i].kids[j] \in Kids
<1>1. ack.kids \in Seq(Grown)
  BY DEF TypeOK
<1>2. /\ Len(ack.kids) \in Nat /\ DOMAIN ack.kids = 1 .. Len(ack.kids)
      /\ \A i \in 1 .. Len(ack.kids) : ack.kids[i] \in Grown
  BY <1>1
<1>3. \A kid \in Grown : kid.kids \in Seq(Kids)
  BY DEF Grown
<1>4. \A s \in Seq(Kids) : /\ Len(s) \in Nat /\ DOMAIN s = 1 .. Len(s)
                           /\ \A j \in 1 .. Len(s) : s[j] \in Kids
  OBVIOUS
<1> QED
  BY <1>2, <1>3, <1>4 DEF TwoLevels

\* Some places of a node, in the order in which they come
LEMMA PlacesListed ==
  ASSUME NEW node, TwoLevels(node), NEW T \in SUBSET Places(node)
  PROVE  /\ Lists(InOrder(T, Nested(T)), T, Nested(T))
         /\ Orders(Nested(T), T)
<1>1. IsFiniteSet(T) /\ T \subseteq Int \X Int
  BY PlacesFinite, FS_Subset
<1>2. Orders(Nested(T), T)
  BY <1>1, NestedOrders
<1> QED
  BY <1>1, <1>2, InOrderLists

-----------------------------------------------------------------------------
\* The relays of an answer

LEMMA EndpointTime ==
  ASSUME NEW content, NEW rc \in Kids
  PROVE  relayEndpoint(content, rc).rtt \in Times
<1>1. relayEndpoint(content, rc).rtt
        = IF HasAttr(rc.attrs, "c2r_rtt") THEN AttrInt(rc.attrs, "c2r_rtt", 0) ELSE -1
  BY DEF relayEndpoint
<1>2. HasAttr(rc.attrs, "c2r_rtt") => rc.attrs["c2r_rtt"] \in Nat \cup {NotANumber}
  BY StanzaAssumption
<1> QED
  BY <1>1, <1>2 DEF AttrInt, Times, NotANumber

\* endpointsOf finds what is offered and nothing else.
LEMMA EndpointsOffered ==
  ASSUME TypeOK
  PROVE  \E n \in Nat : /\ DOMAIN endpointsOf(ack) = 1 .. n
                        /\ \A k \in 1 .. n : /\ endpointsOf(ack)[k] \in offered
                                             /\ endpointsOf(ack)[k].rtt \in Times
                        /\ \A ep \in offered : \E k \in 1 .. n : endpointsOf(ack)[k] = ep
<1> DEFINE isTe2(i, j) == /\ ack.kids[i].tag = "relay" /\ ack.kids[i].kids[j].tag = "te2"
                          /\ Len(ack.kids[i].kids[j].bytes) = 6
           ep(i, j) == relayEndpoint(ack.kids[i].kids, ack.kids[i].kids[j])
           te2s == {p \in Places(ack) : p[2] > 0 /\ ack.kids[p[1]].tag = "relay" /\ At(ack, p).tag = "te2"
                                          /\ Len(At(ack, p).bytes) = 6}
           places == InOrder(te2s, Nested(te2s))
           n == Cardinality(te2s)
<1>1. TwoLevels(ack) /\ \A i \in 1 .. Len(ack.kids) : \A j \in 1 .. Len(ack.kids[i].kids) : ack.kids[i].kids[j] \in Kids
  BY AckShape
<1>2. te2s \in SUBSET Places(ack)
  OBVIOUS
<1>3. endpointsOf(ack) = [k \in DOMAIN places |-> relayEndpoint(ack.kids[places[k][1]].kids, At(ack, places[k]))]
  BY DEF endpointsOf
<1>4. \A p \in te2s : /\ p[1] \in 1 .. Len(ack.kids) /\ p[2] \in 1 .. Len(ack.kids[p[1]].kids)
                      /\ isTe2(p[1], p[2]) /\ At(ack, p) = ack.kids[p[1]].kids[p[2]]
  BY <1>1, PlacesFinite DEF At
<1>5. ASSUME NEW i \in 1 .. Len(ack.kids), NEW j \in 1 .. Len(ack.kids[i].kids), isTe2(i, j)
      PROVE  <<i, j>> \in te2s
  <2>1. j > 0 /\ j \in 0 .. Len(ack.kids[i].kids)
    BY <1>1 DEF TwoLevels
  <2>2. <<i, j>> \in Places(ack)
    BY <1>1, <2>1, PlacesFinite
  <2>3. At(ack, <<i, j>>) = ack.kids[i].kids[j]
    BY <2>1 DEF At
  <2> QED
    BY <1>5, <2>1, <2>2, <2>3
<1> HIDE DEF te2s
<1>6. Lists(places, te2s, Nested(te2s))
  BY <1>1, <1>2, PlacesListed
<1> HIDE DEF places
<1>7. /\ n \in Nat /\ DOMAIN places = 1 .. n /\ \A k \in 1 .. n : places[k] \in te2s
      /\ \A p \in te2s : \E k \in 1 .. n : places[k] = p
  BY <1>6 DEF Lists
<1> HIDE DEF n
<1>8. \A k \in 1 .. n : endpointsOf(ack)[k] = ep(places[k][1], places[k][2])
  BY <1>3, <1>4, <1>7
<1>9. ASSUME NEW i \in 1 .. Len(ack.kids), NEW j \in 1 .. Len(ack.kids[i].kids), isTe2(i, j)
      PROVE  ep(i, j) \in offered
  <2>1. i \in DOMAIN ack.kids /\ j \in DOMAIN ack.kids[i].kids
    BY <1>1 DEF TwoLevels
  <2> QED
    BY <1>9, <2>1 DEF offered
<1>10. ASSUME NEW e \in offered
       PROVE  \E i \in 1 .. Len(ack.kids) : \E j \in 1 .. Len(ack.kids[i].kids) : isTe2(i, j) /\ e = ep(i, j)
  <2>1. PICK kid \in {ack.kids[i] : i \in {i \in DOMAIN ack.kids : ack.kids[i].tag = "relay"}} :
          \E j \in DOMAIN kid.kids : /\ kid.kids[j].tag = "te2" /\ Len(kid.kids[j].bytes) = 6
                                     /\ e = relayEndpoint(kid.kids, kid.kids[j])
    BY DEF offered
  <2>2. PICK i \in DOMAIN ack.kids : ack.kids[i].tag = "relay" /\ kid = ack.kids[i]
    BY <2>1
  <2> QED
    BY <1>1, <2>1, <2>2 DEF TwoLevels
<1> HIDE DEF ep, isTe2
<1>11. \A k \in 1 .. n : endpointsOf(ack)[k] \in offered
  BY <1>4, <1>7, <1>8, <1>9
<1>12. ASSUME NEW k \in 1 .. n PROVE endpointsOf(ack)[k].rtt \in Times
  <2> DEFINE p == places[k]
  <2>1. p \in te2s
    BY <1>7
  <2>2. ack.kids[p[1]].kids[p[2]] \in Kids
    BY <1>1, <1>4, <2>1
  <2>3. endpointsOf(ack)[k] = relayEndpoint(ack.kids[p[1]].kids, ack.kids[p[1]].kids[p[2]])
    BY <1>8 DEF ep
  <2> HIDE DEF p
  <2> QED
    BY <2>2, <2>3, EndpointTime
<1>13. ASSUME NEW e \in offered PROVE \E k \in 1 .. n : endpointsOf(ack)[k] = e
  <2>1. PICK i \in 1 .. Len(ack.kids) : \E j \in 1 .. Len(ack.kids[i].kids) : isTe2(i, j) /\ e = ep(i, j)
    BY <1>10
  <2>2. PICK j \in 1 .. Len(ack.kids[i].kids) : isTe2(i, j) /\ e = ep(i, j)
    BY <2>1
  <2>3. PICK k \in 1 .. n : places[k] = <<i, j>>
    BY <1>5, <1>7, <2>2
  <2> QED
    BY <1>8, <2>2, <2>3
<1>14. DOMAIN endpointsOf(ack) = 1 .. n
  BY <1>3, <1>7
<1> QED
  BY <1>7, <1>11, <1>12, <1>13, <1>14

\* The relays of an answer are those offered, the ones that answer sooner first.
LEMMA RelaysSorted ==
  ASSUME TypeOK
  PROVE  LET relays == ParseRelayFromAck(ack).relays
         IN  \E n \in Nat : /\ DOMAIN relays = 1 .. n /\ Len(relays) = n
                            /\ \A k \in 1 .. n : relays[k] \in offered /\ relays[k].rtt \in Times
                            /\ \A ep \in offered : \E k \in 1 .. n : relays[k] = ep
                            /\ \A i, j \in 1 .. n : i < j => noLater(relays[i].rtt, relays[j].rtt)
<1> DEFINE eps == endpointsOf(ack)
           relays == ParseRelayFromAck(ack).relays
<1>1. PICK n \in Nat : /\ DOMAIN eps = 1 .. n
                       /\ \A k \in 1 .. n : eps[k] \in offered /\ eps[k].rtt \in Times
                       /\ \A ep \in offered : \E k \in 1 .. n : eps[k] = ep
  BY EndpointsOffered
<1>2. relays = sortRelaysByRtt(eps)
  BY DEF ParseRelayFromAck
<1> HIDE DEF eps, relays
<1>3. PICK h :
        /\ Permutes(h, n)
        /\ relays = [k \in 1 .. n |-> eps[h[k]]]
        /\ \A i, j \in 1 .. n : i < j => noLater(eps[h[i]].rtt, eps[h[j]].rtt)
  BY <1>1, <1>2, SortRanks
<1>4. /\ \A k \in 1 .. n : h[k] \in 1 .. n /\ relays[k] = eps[h[k]]
      /\ \A j \in 1 .. n : \E i \in 1 .. n : h[i] = j
  BY <1>3 DEF Permutes
<1>5. DOMAIN relays = 1 .. n /\ Len(relays) = n
  BY <1>3
<1>6. \A k \in 1 .. n : relays[k] \in offered /\ relays[k].rtt \in Times
  BY <1>1, <1>4
<1>7. ASSUME NEW ep \in offered PROVE \E k \in 1 .. n : relays[k] = ep
  <2>1. PICK j \in 1 .. n : eps[j] = ep
    BY <1>1
  <2>2. PICK k \in 1 .. n : h[k] = j
    BY <1>4
  <2> QED
    BY <1>4, <2>1, <2>2
<1>8. \A i, j \in 1 .. n : i < j => noLater(relays[i].rtt, relays[j].rtt)
  BY <1>3, <1>4
<1>9. \E m \in Nat : /\ DOMAIN relays = 1 .. m /\ Len(relays) = m
                     /\ \A k \in 1 .. m : relays[k] \in offered /\ relays[k].rtt \in Times
                     /\ \A ep \in offered : \E k \in 1 .. m : relays[k] = ep
                     /\ \A i, j \in 1 .. m : i < j => noLater(relays[i].rtt, relays[j].rtt)
  BY <1>5, <1>6, <1>7, <1>8
<1> QED
  BY <1>9 DEF relays

\* The first usable endpoint of every address, in the order of the list; f says where it was.
KeepsFirst(configs, eps, n, m, f) ==
  /\ m \in Nat /\ f \in [1 .. m -> 1 .. n]
  /\ configs = [k \in 1 .. m |-> eps[f[k]]]
  /\ \A k \in 1 .. m : usable(eps[f[k]]) /\ \A i \in 1 .. n : usable(eps[i]) /\ i < f[k] => eps[i].ip # eps[f[k]].ip
  /\ \A k, l \in 1 .. m : k < l => f[k] < f[l]
  /\ \A i \in 1 .. n : usable(eps[i]) => \E k \in 1 .. m : configs[k].ip = eps[i].ip

LEMMA ConfigsKept ==
  ASSUME NEW n \in Nat, NEW eps, DOMAIN eps = 1 .. n
  PROVE  \E m, f : KeepsFirst(buildRelayConfigs(eps), eps, n, m, f)
<1> DEFINE good == {i \in 1 .. n : usable(eps[i])}
           kept == {i \in good : \A j \in good : j < i => eps[j].ip # eps[i].ip}
           f == InOrder(kept, Rising(kept))
           configs == buildRelayConfigs(eps)
           m == Cardinality(kept)
<1>1. configs = [k \in DOMAIN f |-> eps[f[k]]]
  BY DEF buildRelayConfigs, usable
<1>2. good \in SUBSET (1 .. n) /\ kept \in SUBSET (1 .. n) /\ kept \subseteq Int
  OBVIOUS
<1>3. \A S \in SUBSET (1 .. n) : IsFiniteSet(S)
  <2>1. IsFiniteSet(1 .. n)
    BY FS_Interval
  <2> QED
    BY <2>1, FS_Subset
<1>4. ASSUME NEW i \in 1 .. n, usable(eps[i]) PROVE \E j \in kept : eps[j].ip = eps[i].ip
  <2> DEFINE same == {j \in good : eps[j].ip = eps[i].ip}
  <2>1. same \subseteq Int /\ IsFiniteSet(same) /\ same # {}
    <3>1. i \in same
      BY <1>4
    <3>2. same \in SUBSET (1 .. n)
      OBVIOUS
    <3> HIDE DEF same
    <3>3. same \subseteq Int
      BY <3>2
    <3> QED
      BY <1>3, <3>1, <3>2, <3>3
  <2>2. PICK j \in same : \A l \in same : j <= l
    <3> HIDE DEF same
    <3> QED
      BY <2>1, LeastOf
  <2>3. j \in good /\ eps[j].ip = eps[i].ip /\ j \in 1 .. n
    OBVIOUS
  <2>4. ASSUME NEW l \in good, l < j PROVE eps[l].ip # eps[j].ip
    <3>1. l \in same => j <= l
      BY <2>2
    <3>2. l \in 1 .. n /\ ~(j <= l)
      BY <2>3, <2>4
    <3> QED
      BY <2>3, <3>1, <3>2
  <2>5. j \in kept
    BY <2>3, <2>4
  <2> QED
    BY <2>3, <2>5
<1>5. \A i \in kept : /\ i \in 1 .. n /\ usable(eps[i])
                      /\ \A j \in 1 .. n : usable(eps[j]) /\ j < i => eps[j].ip # eps[i].ip
  OBVIOUS
<1> HIDE DEF kept, good, configs
<1>6. Lists(f, kept, Rising(kept))
  BY <1>2, <1>3, RisingOrders, InOrderLists
<1> HIDE DEF f
<1>7. /\ m \in Nat /\ f \in [1 .. m -> kept]
      /\ \A i \in kept : \E k \in 1 .. m : f[k] = i
      /\ \A k, l \in 1 .. m : k < l => <<f[k], f[l]>> \in Rising(kept)
  BY <1>6 DEF Lists
<1> HIDE DEF m
<1>8. f \in [1 .. m -> 1 .. n]
  BY <1>2, <1>7
<1>9. configs = [k \in 1 .. m |-> eps[f[k]]] /\ \A k \in 1 .. m : configs[k] = eps[f[k]] /\ f[k] \in kept
  BY <1>1, <1>7
<1>10. \A k, l \in 1 .. m : k < l => f[k] < f[l]
  BY <1>7 DEF Rising
<1>11. ASSUME NEW i \in 1 .. n, usable(eps[i]) PROVE \E k \in 1 .. m : configs[k].ip = eps[i].ip
  BY <1>4, <1>7, <1>9, <1>11
<1>12. \A k \in 1 .. m : usable(eps[f[k]]) /\ \A i \in 1 .. n : usable(eps[i]) /\ i < f[k] => eps[i].ip # eps[f[k]].ip
  BY <1>5, <1>9
<1>13. KeepsFirst(configs, eps, n, m, f)
  BY <1>7, <1>8, <1>9, <1>10, <1>11, <1>12 DEF KeepsFirst
<1> QED
  BY <1>13 DEF configs

\* The node that lists relays by attribute
LEMMA ListedShape ==
  ASSUME NEW n \in Nat, NEW relays, Len(relays) = n, DOMAIN relays = 1 .. n,
         \A k \in 1 .. n : relays[k].rtt \in Times
  PROVE  LET kid == listed(relays)
         IN  /\ kid.tag = "relays" /\ Len(kid.kids) = n /\ DOMAIN kid.kids = 1 .. n
             /\ \A j \in 1 .. n :
                  LET one == kid.kids[j]
                  IN  /\ one.tag = "relay" /\ HasAttr(one.attrs, "ip") /\ HasAttr(one.attrs, "token")
                      /\ (IF HasAttr(one.attrs, "c2r_rtt") THEN AttrInt(one.attrs, "c2r_rtt", 0) ELSE -1)
                           = relays[n + 1 - j].rtt
<1> DEFINE kid == listed(relays)
           attrs(ep) == IF ep.rtt < 0 THEN [ip |-> ep.ip, token |-> <<1>>, key |-> <<1>>]
                        ELSE [ip |-> ep.ip, token |-> <<1>>, key |-> <<1>>, c2r_rtt |-> ep.rtt]
<1>1. /\ kid.tag = "relays"
      /\ kid.kids = [i \in 1 .. n |-> Leaf("relay", attrs(relays[n + 1 - i]), <<>>)]
  BY DEF listed, Node
<1> HIDE DEF kid
<1>2. Len(kid.kids) = n /\ DOMAIN kid.kids = 1 .. n
  <2> HIDE DEF attrs
  <2>1. \A i \in 1 .. n : Leaf("relay", attrs(relays[n + 1 - i]), <<>>)
                            \in {Leaf("relay", attrs(relays[n + 1 - j]), <<>>) : j \in 1 .. n}
    OBVIOUS
  <2>2. kid.kids \in [1 .. n -> {Leaf("relay", attrs(relays[n + 1 - j]), <<>>) : j \in 1 .. n}]
    BY <1>1, <2>1
  <2> QED
    BY <2>2
<1>3. ASSUME NEW j \in 1 .. n
      PROVE  LET one == kid.kids[j]
             IN  /\ one.tag = "relay" /\ HasAttr(one.attrs, "ip") /\ HasAttr(one.attrs, "token")
                 /\ (IF HasAttr(one.attrs, "c2r_rtt") THEN AttrInt(one.attrs, "c2r_rtt", 0) ELSE -1)
                      = relays[n + 1 - j].rtt
  <2> DEFINE ep == relays[n + 1 - j]
  <2>1. ep.rtt \in Times
    OBVIOUS
  <2>2. kid.kids[j].tag = "relay" /\ kid.kids[j].attrs = attrs(ep)
    BY <1>1 DEF Leaf
  <2> HIDE DEF ep
  <2>3. HasAttr(attrs(ep), "ip") /\ HasAttr(attrs(ep), "token")
    BY DEF HasAttr
  <2>4. (IF HasAttr(attrs(ep), "c2r_rtt") THEN AttrInt(attrs(ep), "c2r_rtt", 0) ELSE -1) = ep.rtt
    <3>1. CASE ep.rtt < 0
      BY <2>1, <3>1 DEF HasAttr, Times
    <3>2. CASE ~(ep.rtt < 0)
      BY <2>1, <3>2 DEF HasAttr, AttrInt, NotANumber, Times
    <3> QED
      BY <3>1, <3>2
  <2> HIDE DEF attrs
  <2> QED
    BY <2>2, <2>3, <2>4 DEF ep
<1> QED
  BY <1>1, <1>2, <1>3 DEF kid

\* The same relays listed by attribute are read in the order of their times.
LEMMA ByAttribute ==
  ASSUME NEW n \in Nat, NEW relays, Len(relays) = n, DOMAIN relays = 1 .. n,
         \A k \in 1 .. n : relays[k].rtt \in Times,
         \A i, j \in 1 .. n : i < j => noLater(relays[i].rtt, relays[j].rtt)
  PROVE  LET read == ExtractRelayEndpoints(transport(relays))
         IN  /\ Len(read) = n /\ DOMAIN read = 1 .. n
             /\ \A k \in 1 .. n : read[k].rtt = relays[k].rtt
<1> DEFINE node == transport(relays)
           read == ExtractRelayEndpoints(node)
           parse(x) == [ip |-> x.attrs.ip, token |-> x.attrs.token, rawToken |-> <<>>, protocol |-> 0,
                   key |-> attrStringOr(x.attrs, "relay_key", attrStringOr(x.attrs, "key", <<>>)),
                   port |-> AttrInt(x.attrs, "port", 3480), relayID |-> AttrInt(x.attrs, "relay_id", 0),
                   rtt |-> IF HasAttr(x.attrs, "c2r_rtt") THEN AttrInt(x.attrs, "c2r_rtt", 0) ELSE -1]
           fits(p) == /\ p[2] = 0 \/ node.kids[p[1]].tag = "relays"
                      /\ At(node, p).tag = "relay"
                      /\ HasAttr(At(node, p).attrs, "ip") /\ HasAttr(At(node, p).attrs, "token")
           L == {p \in Places(node) : fits(p)}
           places == InOrder(L, Nested(L))
           eps == [k \in DOMAIN places |-> parse(At(node, places[k]))]
<1>1. read = sortRelaysByRtt(eps)
  BY DEF ExtractRelayEndpoints
<1>2. /\ Len(node.kids) = 1 /\ DOMAIN node.kids = 1 .. 1
      /\ node.kids[1].tag = "relays" /\ Len(node.kids[1].kids) = n /\ DOMAIN node.kids[1].kids = 1 .. n
      /\ \A j \in 1 .. n : At(node, <<1, j>>) = node.kids[1].kids[j]
      /\ At(node, <<1, 0>>) = node.kids[1]
  <2>1. node.kids = <<listed(relays)>>
    BY DEF transport, Node
  <2> HIDE DEF node
  <2>2. Len(node.kids) = 1 /\ DOMAIN node.kids = 1 .. 1 /\ node.kids[1] = listed(relays)
    BY <2>1
  <2>3. \A j \in 1 .. n : At(node, <<1, j>>) = node.kids[1].kids[j]
    BY DEF At
  <2>4. At(node, <<1, 0>>) = node.kids[1]
    BY DEF At
  <2> QED
    BY <2>2, <2>3, <2>4, ListedShape
<1>3. \A j \in 1 .. n : /\ node.kids[1].kids[j].tag = "relay"
                        /\ HasAttr(node.kids[1].kids[j].attrs, "ip") /\ HasAttr(node.kids[1].kids[j].attrs, "token")
                        /\ parse(node.kids[1].kids[j]).rtt = relays[n + 1 - j].rtt
  <2>1. node.kids[1] = listed(relays)
    BY DEF transport, Node
  <2> HIDE DEF node
  <2> QED
    BY <2>1, ListedShape
<1> HIDE DEF node, parse, read
<1>5. TwoLevels(node)
  BY <1>2 DEF TwoLevels
<1>6. L = {<<1, j>> : j \in 1 .. n}
  <2>1. ASSUME NEW p \in L PROVE \E j \in 1 .. n : p = <<1, j>>
    <3>1. p = <<p[1], p[2]>> /\ p[1] \in 1 .. 1 /\ p[2] \in 0 .. Len(node.kids[p[1]].kids)
      BY <1>2, <1>5, PlacesFinite
    <3>2. p[1] = 1 /\ p[2] \in 0 .. n
      BY <1>2, <3>1
    <3>3. At(node, p).tag = "relay"
      OBVIOUS
    <3>4. p[2] # 0
      BY <1>2, <3>1, <3>2, <3>3
    <3> QED
      BY <3>1, <3>2, <3>4
  <2>2. ASSUME NEW j \in 1 .. n PROVE <<1, j>> \in L
    <3>1. 1 \in 1 .. Len(node.kids) /\ j \in 0 .. Len(node.kids[1].kids)
      BY <1>2
    <3>2. <<1, j>> \in Places(node)
      BY <1>5, <3>1, PlacesFinite
    <3>3. fits(<<1, j>>)
      BY <1>2, <1>3
    <3> QED
      BY <3>2, <3>3
  <2> HIDE DEF L
  <2> QED
    BY <2>1, <2>2
<1>7. L \in SUBSET Places(node)
  OBVIOUS
<1> HIDE DEF L
<1>8. Lists(places, L, Nested(L)) /\ Orders(Nested(L), L)
  BY <1>5, <1>7, PlacesListed
<1>9. Cardinality(L) = n
  <2> DEFINE f == [j \in 1 .. n |-> <<1, j>>]
  <2>1. f \in [1 .. n -> L]
    BY <1>6
  <2>2. \A i, j \in 1 .. n : f[i] = f[j] => i = j
    OBVIOUS
  <2>3. \A p \in L : \E j \in 1 .. n : f[j] = p
    BY <1>6
  <2> HIDE DEF f
  <2>4. f \in Bijection(1 .. n, L)
    BY <2>1, <2>2, <2>3, Fun_IsBij
  <2>5. IsFiniteSet(1 .. n) /\ Cardinality(1 .. n) = n
    BY FS_Interval
  <2> QED
    BY <2>4, <2>5, FS_Bijection DEF ExistsBijection
<1>10. \A k, l \in 1 .. n : k # l => places[k] # places[l]
  <2> HIDE DEF places
  <2>1. \A k, l \in 1 .. Cardinality(L) : k # l => places[k] # places[l]
    BY <1>8, ListsOnce
  <2> QED
    BY <1>9, <2>1
<1> HIDE DEF places
<1>11. /\ places \in [1 .. n -> L]
       /\ \A p \in L : \E k \in 1 .. n : places[k] = p
  BY <1>8, <1>9 DEF Lists
<1> DEFINE g == [k \in 1 .. n |-> n + 1 - places[k][2]]
<1>12. ASSUME NEW k \in 1 .. n
       PROVE  /\ \E j \in 1 .. n : places[k] = <<1, j>> /\ g[k] = n + 1 - j
              /\ \E j \in 1 .. n : eps[k] = parse(node.kids[1].kids[j])
              /\ g[k] \in 1 .. n /\ eps[k].rtt = relays[g[k]].rtt
  <2> HIDE DEF eps, g
  <2>1. places[k] \in {<<1, j>> : j \in 1 .. n}
    BY <1>6, <1>11
  <2>2. PICK j \in 1 .. n : places[k] = <<1, j>>
    BY <2>1
  <2>3. eps[k] = parse(At(node, places[k]))
    BY <1>11 DEF eps
  <2>4. eps[k] = parse(node.kids[1].kids[j])
    BY <1>2, <2>2, <2>3
  <2>5. g[k] = n + 1 - j
    BY <2>2 DEF g
  <2> QED
    BY <1>3, <2>2, <2>4, <2>5
<1>13. g \in [1 .. n -> 1 .. n]
  BY <1>12
<1>14. ASSUME NEW i \in 1 .. n, NEW j \in 1 .. n, i # j PROVE g[i] # g[j]
  <2>1. PICK x \in 1 .. n : places[i] = <<1, x>> /\ g[i] = n + 1 - x
    BY <1>12
  <2>2. PICK y \in 1 .. n : places[j] = <<1, y>> /\ g[j] = n + 1 - y
    BY <1>12
  <2>3. x # y
    BY <1>10, <1>14, <2>1, <2>2
  <2> QED
    BY <2>1, <2>2, <2>3
<1>15. ASSUME NEW j \in 1 .. n PROVE \E i \in 1 .. n : g[i] = j
  <2>1. n + 1 - j \in 1 .. n
    OBVIOUS
  <2>2. PICK k \in 1 .. n : places[k] = <<1, n + 1 - j>>
    BY <1>6, <1>11, <2>1
  <2> QED
    BY <2>2
<1>16. DOMAIN eps = 1 .. n
  BY <1>11
<1> HIDE DEF eps, g
<1>17. \A k \in 1 .. n : eps[k].rtt \in Times
  BY <1>12
<1>18. PICK h : /\ Permutes(h, n)
                /\ sortRelaysByRtt(eps) = [k \in 1 .. n |-> eps[h[k]]]
                /\ \A i, j \in 1 .. n : i < j => noLater(eps[h[i]].rtt, eps[h[j]].rtt)
  BY <1>16, <1>17, SortRanks
<1> DEFINE t == [k \in 1 .. n |-> relays[k].rtt]
           gh == [k \in 1 .. n |-> g[h[k]]]
           u == [k \in 1 .. n |-> eps[h[k]].rtt]
<1>19. /\ \A k \in 1 .. n : h[k] \in 1 .. n
       /\ \A i, j \in 1 .. n : i # j => h[i] # h[j]
       /\ \A j \in 1 .. n : \E i \in 1 .. n : h[i] = j
  BY <1>18 DEF Permutes
<1>20. Permutes(gh, n)
  <2>1. gh \in [1 .. n -> 1 .. n]
    BY <1>13, <1>19
  <2>2. ASSUME NEW i \in 1 .. n, NEW j \in 1 .. n, i # j PROVE gh[i] # gh[j]
    <3>1. h[i] \in 1 .. n /\ h[j] \in 1 .. n /\ h[i] # h[j]
      BY <1>19, <2>2
    <3> QED
      BY <1>14, <3>1
  <2>3. ASSUME NEW j \in 1 .. n PROVE \E i \in 1 .. n : gh[i] = j
    <3>1. PICK m \in 1 .. n : g[m] = j
      BY <1>15
    <3>2. PICK i \in 1 .. n : h[i] = m
      BY <1>19
    <3> QED
      BY <3>1, <3>2
  <2> HIDE DEF gh
  <2> QED
    BY <2>1, <2>2, <2>3 DEF Permutes
<1>21. Ranked(t, n)
  BY DEF Ranked
<1>22. Ranked(u, n)
  <2>1. u \in [1 .. n -> Times]
    BY <1>17, <1>19
  <2>2. \A i, j \in 1 .. n : i < j => noLater(u[i], u[j])
    BY <1>18
  <2> HIDE DEF u
  <2> QED
    BY <2>1, <2>2 DEF Ranked
<1>23. \A k \in 1 .. n : u[k] = t[gh[k]]
  BY <1>12, <1>13, <1>19
<1>24. \A k \in 1 .. n : u[k] = t[k]
  <2> HIDE DEF u, t, gh
  <2> QED
    BY <1>20, <1>21, <1>22, <1>23, SameTimes
<1>25. \A k \in 1 .. n : read[k] = eps[h[k]]
  BY <1>1, <1>17, <1>18, <1>19
<1>26. \A k \in 1 .. n : read[k].rtt = relays[k].rtt
  BY <1>24, <1>25
<1>27. Len(read) = n /\ DOMAIN read = 1 .. n
  <2> DEFINE all == {eps[h[k]] : k \in 1 .. n}
  <2>1. read \in [1 .. n -> all]
    BY <1>1, <1>18
  <2> HIDE DEF all
  <2> QED
    BY <2>1
<1> QED
  BY <1>25, <1>26, <1>27 DEF read, node

\* The relays read from an answer of two levels are ranked.
LEMMA TypedRanked == TypeOK => RelaysRanked
<1> SUFFICES ASSUME TypeOK PROVE RelaysRanked
  OBVIOUS
<1> DEFINE relays == ParseRelayFromAck(ack).relays
           configs == buildRelayConfigs(relays)
           byAttribute == ExtractRelayEndpoints(transport(relays))
<1>1. PICK n \in Nat : /\ DOMAIN relays = 1 .. n /\ Len(relays) = n
                       /\ \A k \in 1 .. n : relays[k] \in offered /\ relays[k].rtt \in Times
                       /\ \A ep \in offered : \E k \in 1 .. n : relays[k] = ep
                       /\ \A i, j \in 1 .. n : i < j => noLater(relays[i].rtt, relays[j].rtt)
  BY RelaysSorted
<1> HIDE DEF relays
<1>2. PICK m, f : KeepsFirst(configs, relays, n, m, f)
  BY <1>1, ConfigsKept
<1> HIDE DEF configs
<1>3. /\ m \in Nat /\ f \in [1 .. m -> 1 .. n] /\ configs = [k \in 1 .. m |-> relays[f[k]]]
      /\ \A k \in 1 .. m : usable(relays[f[k]]) /\ \A i \in 1 .. n : usable(relays[i]) /\ i < f[k] => relays[i].ip # relays[f[k]].ip
      /\ \A k, l \in 1 .. m : k < l => f[k] < f[l]
      /\ \A i \in 1 .. n : usable(relays[i]) => \E k \in 1 .. m : configs[k].ip = relays[i].ip
  BY <1>2 DEF KeepsFirst
<1>4. DOMAIN configs = 1 .. m /\ \A k \in 1 .. m : f[k] \in 1 .. n /\ configs[k] = relays[f[k]]
  BY <1>3
<1>5. ASSUME NEW ep \in offered, usable(ep) PROVE \E i \in DOMAIN configs : configs[i].ip = ep.ip
  <2>1. PICK k \in 1 .. n : relays[k] = ep
    BY <1>1
  <2> QED
    BY <1>3, <1>4, <1>5, <2>1
<1>6. ASSUME NEW i \in DOMAIN configs, NEW j \in DOMAIN configs, i < j
      PROVE  configs[i].ip # configs[j].ip
  <2>1. f[i] < f[j] /\ f[i] \in 1 .. n /\ usable(relays[f[i]])
    BY <1>3, <1>4, <1>6
  <2> QED
    BY <1>3, <1>4, <2>1
<1>7. \A a, b : noLater(a.rtt, b.rtt) <=> noSlower(a, b)
  BY DEF noLater, noSlower
<1>8. \A k \in 1 .. n : noLater(relays[k].rtt, relays[k].rtt)
  BY <1>1, NoLaterOrders
<1>9. ASSUME NEW i \in DOMAIN configs
      PROVE  /\ configs[i] \in offered /\ usable(configs[i])
             /\ \A ep \in offered : usable(ep) /\ ep.ip = configs[i].ip => noSlower(configs[i], ep)
             /\ \A j \in DOMAIN configs : i < j => noSlower(configs[i], configs[j])
  <2>1. i \in 1 .. m /\ f[i] \in 1 .. n /\ configs[i] = relays[f[i]]
    BY <1>4
  <2>2. configs[i] \in offered /\ usable(configs[i])
    BY <1>1, <1>3, <2>1
  <2>3. ASSUME NEW ep \in offered, usable(ep), ep.ip = configs[i].ip PROVE noSlower(configs[i], ep)
    <3>1. PICK k \in 1 .. n : relays[k] = ep
      BY <1>1
    <3>2. ~(k < f[i])
      BY <1>3, <2>1, <2>3, <3>1
    <3>3. noLater(relays[f[i]].rtt, relays[k].rtt)
      BY <1>1, <1>8, <2>1, <3>2
    <3> QED
      BY <1>7, <2>1, <3>1, <3>3
  <2>4. ASSUME NEW j \in DOMAIN configs, i < j PROVE noSlower(configs[i], configs[j])
    <3>1. j \in 1 .. m /\ f[j] \in 1 .. n /\ configs[j] = relays[f[j]]
      BY <1>4
    <3>2. f[i] < f[j]
      BY <1>3, <2>1, <2>4, <3>1
    <3>3. noLater(relays[f[i]].rtt, relays[f[j]].rtt)
      BY <1>1, <2>1, <3>1, <3>2
    <3> QED
      BY <1>7, <2>1, <3>1, <3>3
  <2> QED
    BY <2>2, <2>3, <2>4
<1>10. Len(byAttribute) = n /\ \A k \in 1 .. n : byAttribute[k].rtt = relays[k].rtt
  BY <1>1, ByAttribute
<1> QED
  BY <1>1, <1>5, <1>6, <1>9, <1>10 DEF RelaysRanked, relays, configs, byAttribute

\* RelaysRanked: every address an answer offers is served once, by its best endpoint, the best
\* address first, and the same relays listed by attribute come in the same order (endpointsOf,
\* sortRelaysByRtt, buildRelayConfigs, ExtractRelayEndpoints).
THEOREM StanzasRanked == Spec => []RelaysRanked
BY StanzasTyped, TypedRanked, PTL

-----------------------------------------------------------------------------
\* The devices of an answer

\* participantsOf lists what the answer names, each device once.
LEMMA SeenNamed ==
  ASSUME TypeOK
  PROVE  LET seen == ParseRelayFromAck(ack).participants
         IN  \E n \in Nat : /\ DOMAIN seen = 1 .. n
                            /\ \A k \in 1 .. n : seen[k] \in named
                            /\ \A d \in named : \E k \in 1 .. n : seen[k] = d
                            /\ \A k, l \in 1 .. n : k # l => seen[k] # seen[l]
<1> DEFINE names(p, tag, child) == ack.kids[p[1]].tag = tag /\ p[2] > 0 /\ At(ack, p).tag = child
           jids == {p \in Places(ack) : (names(p, "user", "device") \/ names(p, "relay", "participant"))
                                  /\ HasAttr(At(ack, p).attrs, "jid")}
           jid(p) == At(ack, p).attrs["jid"]
           new == {p \in jids : \A q \in jids : <<q, p>> \in Nested(jids) => jid(q) # jid(p)}
           places == InOrder(new, Nested(new))
           seen == ParseRelayFromAck(ack).participants
           says(i, j) == /\ HasAttr(ack.kids[i].kids[j].attrs, "jid")
                         /\ <<ack.kids[i].tag, ack.kids[i].kids[j].tag>> \in {<<"user", "device">>, <<"relay", "participant">>}
           n == Cardinality(new)
<1>1. TwoLevels(ack)
  BY AckShape
<1>2. seen = [k \in DOMAIN places |-> jid(places[k])]
  BY DEF ParseRelayFromAck, participantsOf
<1>3. ASSUME NEW p \in jids
      PROVE  /\ p[1] \in 1 .. Len(ack.kids) /\ p[2] \in 1 .. Len(ack.kids[p[1]].kids)
             /\ says(p[1], p[2]) /\ jid(p) = ack.kids[p[1]].kids[p[2]].attrs["jid"]
  <2>1. p \in Places(ack) /\ p[2] > 0
    OBVIOUS
  <2>2. p[1] \in 1 .. Len(ack.kids) /\ p[2] \in 1 .. Len(ack.kids[p[1]].kids)
    BY <1>1, <2>1, PlacesFinite
  <2>3. At(ack, p) = ack.kids[p[1]].kids[p[2]]
    BY <2>1 DEF At
  <2>4. names(p, "user", "device") \/ names(p, "relay", "participant")
    OBVIOUS
  <2>5. says(p[1], p[2])
    BY <2>3, <2>4
  <2> QED
    BY <2>2, <2>3, <2>5
<1>4. ASSUME NEW i \in 1 .. Len(ack.kids), NEW j \in 1 .. Len(ack.kids[i].kids), says(i, j)
      PROVE  <<i, j>> \in jids /\ jid(<<i, j>>) = ack.kids[i].kids[j].attrs["jid"]
  <2>1. j > 0 /\ j \in 0 .. Len(ack.kids[i].kids)
    BY <1>1 DEF TwoLevels
  <2>2. <<i, j>> \in Places(ack)
    BY <1>1, <2>1, PlacesFinite
  <2>3. At(ack, <<i, j>>) = ack.kids[i].kids[j]
    BY <2>1 DEF At
  <2> QED
    BY <1>4, <2>1, <2>2, <2>3
<1>5. jids \in SUBSET Places(ack)
  OBVIOUS
<1> HIDE DEF jids, seen
<1>6. Orders(Nested(jids), jids) /\ IsFiniteSet(jids)
  BY <1>1, <1>5, PlacesListed, PlacesFinite, FS_Subset
<1> HIDE DEF jid
<1>7. new \in SUBSET jids /\ new \in SUBSET Places(ack)
  BY <1>5
<1>8. ASSUME NEW p \in jids PROVE \E q \in new : jid(q) = jid(p)
  <2> DEFINE same == {q \in jids : jid(q) = jid(p)}
  <2>1. IsFiniteSet(same)
    BY <1>6, FS_Subset
  <2>2. Orders(Nested(jids), same)
    BY <1>6 DEF Orders
  <2>3. same # {}
    OBVIOUS
  <2>4. PICK m \in same : \A i \in same : i = m \/ <<m, i>> \in Nested(jids)
    <3> HIDE DEF same
    <3> QED
      BY <2>1, <2>2, <2>3, FirstOf
  <2>5. ASSUME NEW q \in jids, <<q, m>> \in Nested(jids) PROVE jid(q) # jid(m)
    <3>1. <<m, q>> \notin Nested(jids) /\ q # m
      BY <1>6, <2>5 DEF Orders
    <3> QED
      BY <2>4, <3>1
  <2> QED
    BY <2>5
<1>9. ASSUME NEW p \in new, NEW q \in new, <<p, q>> \in Nested(new) PROVE jid(p) # jid(q)
  <2>1. <<p, q>> \in Nested(jids)
    BY <1>7, <1>9 DEF Nested
  <2> QED
    BY <2>1
<1> HIDE DEF new
<1>10. Lists(places, new, Nested(new))
  BY <1>1, <1>7, PlacesListed
<1> HIDE DEF places
<1>11. /\ n \in Nat /\ places \in [1 .. n -> new]
       /\ \A p \in new : \E k \in 1 .. n : places[k] = p
       /\ \A k, l \in 1 .. n : k < l => <<places[k], places[l]>> \in Nested(new)
  BY <1>10 DEF Lists
<1> HIDE DEF n
<1>12. /\ DOMAIN seen = 1 .. n
       /\ \A k \in 1 .. n : seen[k] = jid(places[k]) /\ places[k] \in new /\ places[k] \in jids
  BY <1>2, <1>7, <1>11
<1>13. ASSUME NEW k \in 1 .. n, NEW l \in 1 .. n, k # l PROVE seen[k] # seen[l]
  <2>1. k < l \/ l < k
    BY <1>13
  <2> QED
    BY <1>9, <1>11, <1>12, <2>1
<1>14. ASSUME NEW i \in 1 .. Len(ack.kids), NEW j \in 1 .. Len(ack.kids[i].kids), says(i, j)
       PROVE  ack.kids[i].kids[j].attrs["jid"] \in named
  <2> DEFINE kid == ack.kids[i]
           inner == {x \in DOMAIN kid.kids : /\ HasAttr(kid.kids[x].attrs, "jid")
                                             /\ <<kid.tag, kid.kids[x].tag>> \in {<<"user", "device">>,
                                                                                  <<"relay", "participant">>}}
  <2>1. i \in DOMAIN ack.kids /\ j \in DOMAIN kid.kids
    BY <1>1 DEF TwoLevels
  <2>2. j \in inner
    BY <1>14, <2>1
  <2>3. {kid.kids[x].attrs["jid"] : x \in inner} \subseteq named
    BY <2>1 DEF named
  <2> HIDE DEF kid, inner
  <2> QED
    BY <2>2, <2>3 DEF kid
<1>15. ASSUME NEW d \in named
       PROVE  \E i \in 1 .. Len(ack.kids) : \E j \in 1 .. Len(ack.kids[i].kids) :
                says(i, j) /\ d = ack.kids[i].kids[j].attrs["jid"]
  <2>1. PICK kid \in {ack.kids[i] : i \in DOMAIN ack.kids} :
          \E j \in DOMAIN kid.kids : /\ HasAttr(kid.kids[j].attrs, "jid") /\ d = kid.kids[j].attrs["jid"]
                                     /\ <<kid.tag, kid.kids[j].tag>> \in {<<"user", "device">>, <<"relay", "participant">>}
    BY DEF named
  <2>2. PICK i \in DOMAIN ack.kids : kid = ack.kids[i]
    BY <2>1
  <2> QED
    BY <1>1, <2>1, <2>2 DEF TwoLevels
<1> HIDE DEF says
<1>16. \A k \in 1 .. n : seen[k] \in named
  BY <1>3, <1>12, <1>14
<1>17. ASSUME NEW d \in named PROVE \E k \in 1 .. n : seen[k] = d
  <2>1. PICK i \in 1 .. Len(ack.kids) : \E j \in 1 .. Len(ack.kids[i].kids) :
          says(i, j) /\ d = ack.kids[i].kids[j].attrs["jid"]
    BY <1>15
  <2>2. PICK j \in 1 .. Len(ack.kids[i].kids) : says(i, j) /\ d = ack.kids[i].kids[j].attrs["jid"]
    BY <2>1
  <2>3. <<i, j>> \in jids /\ jid(<<i, j>>) = d
    BY <1>4, <2>2
  <2>4. PICK q \in new : jid(q) = d
    BY <1>8, <2>3
  <2>5. PICK k \in 1 .. n : places[k] = q
    BY <1>11
  <2> QED
    BY <1>12, <2>4, <2>5
<1> QED
  BY <1>11, <1>12, <1>13, <1>16, <1>17 DEF seen

\* The searches of both sides
LEMMA OursFound ==
  ASSUME NEW n \in Nat, NEW s, DOMAIN s = 1 .. n, NEW ours, NEW fallback
  PROVE  \/ \E i \in 1 .. n : CleanJID(s[i]) = ours /\ findOurDevice(s, ours, fallback) = s[i]
         \/ findOurDevice(s, ours, fallback) = fallback
<1> DEFINE P(jid) == CleanJID(jid) = ours /\ jid.dev >= 0
           D == {i \in 1 .. n : P(s[i])}
<1>1. findOurDevice(s, ours, fallback)
        = IF \E i \in 1 .. n : P(s[i])
          THEN s[CHOOSE i \in 1 .. n : P(s[i]) /\ \A j \in 1 .. i - 1 : ~P(s[j])] ELSE fallback
  BY DEF findOurDevice, First
<1> HIDE DEF P
<1>2. CASE D # {}
  <2>1. D \subseteq Int /\ IsFiniteSet(D)
    BY FS_Interval, FS_Subset
  <2>2. PICK m \in D : \A i \in D : m <= i
    <3> HIDE DEF D
    <3> QED
      BY <1>2, <2>1, LeastOf
  <2>3. m \in 1 .. n /\ P(s[m]) /\ \A j \in 1 .. m - 1 : ~P(s[j])
    BY <2>2
  <2>4. PICK i \in 1 .. n : P(s[i]) /\ findOurDevice(s, ours, fallback) = s[i]
    BY <1>1, <2>3
  <2> QED
    BY <2>4 DEF P
<1>3. CASE D = {}
  BY <1>1, <1>3
<1> QED
  BY <1>2, <1>3

LEMMA PeerFound ==
  ASSUME NEW n \in Nat, NEW s, DOMAIN s = 1 .. n, NEW ours, \E i \in 1 .. n : CleanJID(s[i]) # ours
  PROVE  \E i \in 1 .. n : CleanJID(s[i]) # ours /\ firstPeerDevice(s, ours) = s[i]
<1> DEFINE P(jid) == CleanJID(jid) # ours
           D == {i \in 1 .. n : P(s[i])}
<1>1. firstPeerDevice(s, ours) = s[CHOOSE i \in 1 .. n : P(s[i]) /\ \A j \in 1 .. i - 1 : ~P(s[j])]
  BY DEF firstPeerDevice, First
<1>2. \E i \in 1 .. n : P(s[i])
  OBVIOUS
<1> HIDE DEF P
<1>3. D \subseteq Int /\ IsFiniteSet(D) /\ D # {}
  <2>1. IsFiniteSet(1 .. n)
    BY FS_Interval
  <2> QED
    BY <1>2, <2>1, FS_Subset
<1>4. PICK m \in D : \A i \in D : m <= i
  <2> HIDE DEF D
  <2> QED
    BY <1>3, LeastOf
<1>5. m \in 1 .. n /\ P(s[m]) /\ \A j \in 1 .. m - 1 : ~P(s[j])
  BY <1>4
<1>6. PICK i \in 1 .. n : P(s[i]) /\ firstPeerDevice(s, ours) = s[i]
  BY <1>1, <1>5
<1> QED
  BY <1>6 DEF P

\* What one side calls its own device the other calls its peer's.
LEMMA TypedMirrored == TypeOK => MirroredDevices
<1> SUFFICES ASSUME TypeOK PROVE MirroredDevices
  OBVIOUS
<1> DEFINE seen == ParseRelayFromAck(ack).participants
           ours(a, own) == ensureDeviceJid(findOurDevice(seen, CleanJID(a), own))
           peers(a) == ensureDeviceJid(firstPeerDevice(seen, CleanJID(a)))
<1>1. PICK n \in Nat : /\ DOMAIN seen = 1 .. n
                       /\ \A k \in 1 .. n : seen[k] \in named
                       /\ \A d \in named : \E k \in 1 .. n : seen[k] = d
                       /\ \A k, l \in 1 .. n : k # l => seen[k] # seen[l]
  BY SeenNamed
<1> HIDE DEF seen
<1>2. {seen[i] : i \in DOMAIN seen} = named
  BY <1>1
<1>3. ASSUME NEW a \in JIDs, NEW b \in JIDs, NEW own \in JIDs,
             named = {a, b}, a.user # b.user, ensureDeviceJid(own) = ensureDeviceJid(a)
      PROVE  ours(a, own) = peers(b)
  <2>1. CleanJID(a) # CleanJID(b)
    <3>1. a \in [user : STRING, dev : Nat \cup {-1}] /\ b \in [user : STRING, dev : Nat \cup {-1}]
      BY StanzaAssumption
    <3>2. CleanJID(a).user = a.user /\ CleanJID(b).user = b.user
      BY <3>1 DEF CleanJID
    <3> QED
      BY <1>3, <3>2
  <2>2. \A k \in 1 .. n : seen[k] = a \/ seen[k] = b
    BY <1>1, <1>3
  <2>3. PICK i \in 1 .. n : seen[i] = a
    BY <1>1, <1>3
  <2>4. firstPeerDevice(seen, CleanJID(b)) = a
    <3>1. PICK k \in 1 .. n : CleanJID(seen[k]) # CleanJID(b) /\ firstPeerDevice(seen, CleanJID(b)) = seen[k]
      BY <1>1, <2>1, <2>3, PeerFound
    <3> QED
      BY <2>2, <3>1
  <2>5. findOurDevice(seen, CleanJID(a), own) \in {a, own}
    <3>1. CASE \E k \in 1 .. n : CleanJID(seen[k]) = CleanJID(a) /\ findOurDevice(seen, CleanJID(a), own) = seen[k]
      BY <2>1, <2>2, <3>1
    <3>2. CASE findOurDevice(seen, CleanJID(a), own) = own
      BY <3>2
    <3> QED
      BY <1>1, <3>1, <3>2, OursFound
  <2> QED
    BY <1>3, <2>4, <2>5
<1> QED
  BY <1>1, <1>2, <1>3 DEF MirroredDevices, seen

-----------------------------------------------------------------------------
\* The key of a call

Members(s) == {s[i] : i \in DOMAIN s}

LEMMA MembersJoined ==
  ASSUME NEW X, NEW s \in Seq(X), NEW t \in Seq(X)
  PROVE  s \o t \in Seq(X) /\ Members(s \o t) = Members(s) \cup Members(t)
<1>1. /\ s \o t \in Seq(X) /\ Len(s \o t) = Len(s) + Len(t)
      /\ \A i \in 1 .. Len(s) + Len(t) : (s \o t)[i] = IF i <= Len(s) THEN s[i] ELSE t[i - Len(s)]
  BY ConcatProperties
<1>2. /\ Len(s) \in Nat /\ DOMAIN s = 1 .. Len(s) /\ Len(t) \in Nat /\ DOMAIN t = 1 .. Len(t)
      /\ DOMAIN (s \o t) = 1 .. Len(s) + Len(t)
  BY <1>1
<1> DEFINE st == s \o t
<1> HIDE DEF st
<1>3. ASSUME NEW i \in DOMAIN st PROVE st[i] \in Members(s) \cup Members(t)
  <2>1. CASE i <= Len(s)
    <3>1. st[i] = s[i] /\ i \in DOMAIN s
      BY <1>1, <1>2, <2>1 DEF st
    <3> QED
      BY <3>1 DEF Members
  <2>2. CASE ~(i <= Len(s))
    <3>1. st[i] = t[i - Len(s)] /\ i - Len(s) \in DOMAIN t
      BY <1>1, <1>2, <2>2 DEF st
    <3> QED
      BY <3>1 DEF Members
  <2> QED
    BY <2>1, <2>2
<1>4. ASSUME NEW i \in DOMAIN s PROVE s[i] \in Members(st)
  <2>1. i \in DOMAIN st /\ st[i] = s[i]
    BY <1>1, <1>2 DEF st
  <2> QED
    BY <2>1 DEF Members
<1>5. ASSUME NEW i \in DOMAIN t PROVE t[i] \in Members(st)
  <2>1. i + Len(s) \in DOMAIN st /\ st[i + Len(s)] = t[i]
    BY <1>1, <1>2 DEF st
  <2> QED
    BY <2>1 DEF Members
<1>6. Members(st) = Members(s) \cup Members(t)
  BY <1>3, <1>4, <1>5 DEF Members
<1> QED
  BY <1>1, <1>6 DEF st

\* Some of a list: the first index at which a condition holds.
LEMMA FirstIndex ==
  ASSUME NEW n \in Nat, NEW D \in SUBSET (1 .. n), D # {}
  PROVE  \E m \in D : \A j \in 1 .. m - 1 : j \notin D
<1>1. IsFiniteSet(1 .. n)
  BY FS_Interval
<1>2. IsFiniteSet(D)
  BY <1>1, FS_Subset
<1>3. D \subseteq Int
  OBVIOUS
<1>4. PICK m \in D : \A i \in D : m <= i
  BY <1>2, <1>3, LeastOf
<1>5. \A j \in 1 .. m - 1 : ~(m <= j)
  BY <1>3
<1> QED
  BY <1>4, <1>5

\* the only enc node of a list, or none
LEMMA EncFirst ==
  ASSUME NEW X, NEW s \in Seq(X), NEW none
  PROVE  /\ (\A x \in Members(s) : ~typedEnc(x)) => First(s, typedEnc, none) = none
         /\ \A e \in Members(s) :
              typedEnc(e) /\ (\A x \in Members(s) : typedEnc(x) => x = e) => First(s, typedEnc, none) = e
<1> DEFINE n == Len(s)
           D == {i \in 1 .. n : typedEnc(s[i])}
<1>1. n \in Nat /\ DOMAIN s = 1 .. n
  OBVIOUS
<1>2. First(s, typedEnc, none)
        = IF \E i \in DOMAIN s : typedEnc(s[i])
          THEN s[CHOOSE i \in DOMAIN s : typedEnc(s[i]) /\ \A j \in 1 .. i - 1 : ~typedEnc(s[j])] ELSE none
  BY DEF First
<1>3. ASSUME \A x \in Members(s) : ~typedEnc(x) PROVE First(s, typedEnc, none) = none
  BY <1>2, <1>3 DEF Members
<1>4. ASSUME NEW e \in Members(s), typedEnc(e), \A x \in Members(s) : typedEnc(x) => x = e
      PROVE  First(s, typedEnc, none) = e
  <2>1. PICK k \in 1 .. n : s[k] = e
    BY <1>1 DEF Members
  <2>2. k \in D /\ D \in SUBSET (1 .. n) /\ n \in Nat
    BY <1>1, <1>4, <2>1
  <2>3. PICK m \in D : \A j \in 1 .. m - 1 : j \notin D
    <3> HIDE DEF D, n
    <3> QED
      BY <2>2, FirstIndex
  <2>4. m \in DOMAIN s /\ typedEnc(s[m])
    BY <1>1, <2>3
  <2>5. ASSUME NEW j \in 1 .. m - 1 PROVE ~typedEnc(s[j])
    <3>1. j \in 1 .. n
      BY <1>1, <2>4
    <3> QED
      BY <2>3, <3>1
  <2>6. PICK i \in DOMAIN s : typedEnc(s[i]) /\ First(s, typedEnc, none) = s[i]
    BY <1>2, <2>4, <2>5
  <2> QED
    BY <1>4, <2>6 DEF Members
<1> QED
  BY <1>3, <1>4

\* A stanza without enc and destination holds no key.
LEMMA NoKey ==
  ASSUME NEW X, NEW inner, inner.kids \in Seq(X), \A x \in Members(inner.kids) : x.tag \notin {"enc", "destination"}
  PROVE  findEncNode(inner) = NoNode
<1> DEFINE to(n) == n.tag = "to" /\ \E k \in DOMAIN n.kids : typedEnc(n.kids[k])
           destination(n) == n.tag = "destination" /\ \E j \in DOMAIN n.kids : to(n.kids[j])
           found == First(First(inner.kids, destination, NoNode).kids, to, NoNode)
<1>1. findEncNode(inner) = First(inner.kids, typedEnc, First(found.kids, typedEnc, NoNode))
  BY DEF findEncNode
<1>2. \A x \in Members(inner.kids) : ~typedEnc(x)
  BY DEF typedEnc
<1>3. First(inner.kids, destination, NoNode) = NoNode
  <2>1. ~\E i \in DOMAIN inner.kids : destination(inner.kids[i])
    BY DEF Members
  <2> HIDE DEF destination
  <2> QED
    BY <2>1 DEF First
<1>4. NoNode.kids = <<>>
  BY DEF NoNode, Node
<1>5. found = NoNode
  <2>1. found = First(<<>>, to, NoNode)
    BY <1>3, <1>4
  <2> HIDE DEF to, found
  <2> QED
    BY <2>1 DEF First
<1> HIDE DEF found
<1>6. First(found.kids, typedEnc, NoNode) = NoNode
  <2>1. found.kids = <<>>
    BY <1>4, <1>5
  <2> QED
    BY <2>1 DEF First
<1>7. First(inner.kids, typedEnc, NoNode) = NoNode
  BY <1>2, EncFirst
<1> QED
  BY <1>1, <1>6, <1>7

\* The key in a destination with one device.
LEMMA KeyDeep ==
  ASSUME NEW X, NEW inner, inner.kids \in Seq(X), \A x \in Members(inner.kids) : x.tag # "enc",
         NEW d \in Members(inner.kids), d.tag = "destination",
         \A x \in Members(inner.kids) : x.tag = "destination" => x = d,
         NEW dev, DOMAIN d.kids = 1 .. 1, d.kids[1] = dev, dev.tag = "to",
         NEW enc, DOMAIN dev.kids = 1 .. 1, dev.kids[1] = enc, typedEnc(enc)
  PROVE  findEncNode(inner) = enc
<1> DEFINE to(n) == n.tag = "to" /\ \E k \in DOMAIN n.kids : typedEnc(n.kids[k])
           destination(n) == n.tag = "destination" /\ \E j \in DOMAIN n.kids : to(n.kids[j])
           found == First(First(inner.kids, destination, NoNode).kids, to, NoNode)
           n == Len(inner.kids)
           D == {i \in 1 .. n : destination(inner.kids[i])}
<1>1. findEncNode(inner) = First(inner.kids, typedEnc, First(found.kids, typedEnc, NoNode))
  BY DEF findEncNode
<1>2. \A x \in Members(inner.kids) : ~typedEnc(x)
  BY DEF typedEnc
<1>3. to(dev)
  OBVIOUS
<1>4. destination(d)
  BY <1>3
<1>5. n \in Nat /\ DOMAIN inner.kids = 1 .. n
  OBVIOUS
<1>6. First(inner.kids, destination, NoNode) = d
  <2>1. \A x \in Members(inner.kids) : destination(x) => x = d
    OBVIOUS
  <2>2. First(inner.kids, destination, NoNode)
          = IF \E i \in DOMAIN inner.kids : destination(inner.kids[i])
            THEN inner.kids[CHOOSE i \in DOMAIN inner.kids : /\ destination(inner.kids[i])
                                                             /\ \A j \in 1 .. i - 1 : ~destination(inner.kids[j])]
            ELSE NoNode
    BY DEF First
  <2> HIDE DEF destination
  <2>3. PICK k \in 1 .. n : inner.kids[k] = d
    BY <1>5 DEF Members
  <2>4. k \in D /\ D \in SUBSET (1 .. n)
    BY <1>4, <2>3
  <2>5. PICK m \in D : \A j \in 1 .. m - 1 : j \notin D
    <3> HIDE DEF D, n
    <3> QED
      BY <1>5, <2>4, FirstIndex
  <2>6. m \in DOMAIN inner.kids /\ destination(inner.kids[m])
    BY <1>5
  <2>7. ASSUME NEW j \in 1 .. m - 1 PROVE ~destination(inner.kids[j])
    <3>1. j \in 1 .. n
      BY <1>5, <2>6
    <3> QED
      BY <2>5, <3>1
  <2>8. PICK i \in DOMAIN inner.kids : /\ destination(inner.kids[i])
                                       /\ First(inner.kids, destination, NoNode) = inner.kids[i]
    BY <2>2, <2>6, <2>7
  <2> QED
    BY <2>1, <2>8 DEF Members
<1>7. found = dev
  <2>1. found = First(d.kids, to, NoNode)
    BY <1>6
  <2> HIDE DEF to, found
  <2>2. First(d.kids, to, NoNode) = d.kids[CHOOSE i \in 1 .. 1 : to(d.kids[i]) /\ \A j \in 1 .. i - 1 : ~to(d.kids[j])]
    BY <1>3 DEF First
  <2>3. \E i \in 1 .. 1 : to(d.kids[i]) /\ \A j \in 1 .. i - 1 : ~to(d.kids[j])
    BY <1>3
  <2>4. \A i \in 1 .. 1 : d.kids[i] = dev
    OBVIOUS
  <2> QED
    BY <2>1, <2>2, <2>3, <2>4
<1> HIDE DEF found
<1>8. First(found.kids, typedEnc, NoNode) = enc
  <2>1. First(dev.kids, typedEnc, NoNode)
          = dev.kids[CHOOSE i \in 1 .. 1 : typedEnc(dev.kids[i]) /\ \A j \in 1 .. i - 1 : ~typedEnc(dev.kids[j])]
    BY DEF First
  <2>2. \E i \in 1 .. 1 : typedEnc(dev.kids[i]) /\ \A j \in 1 .. i - 1 : ~typedEnc(dev.kids[j])
    OBVIOUS
  <2>3. \A i \in 1 .. 1 : dev.kids[i] = enc
    OBVIOUS
  <2> QED
    BY <1>7, <2>1, <2>2, <2>3
<1>9. First(inner.kids, typedEnc, enc) = enc
  BY <1>2, EncFirst
<1> QED
  BY <1>1, <1>8, <1>9

\* what is read of a stanza, its inner tag and the key it carries
Reads(stanza, tag, bytes) ==
  LET info == ExtractNodeInfo(stanza)
  IN  info.tag = tag /\ info.callID = "id" /\ findEncNode(info.inner).bytes = bytes

\* An offer to one device: its key is in the destination.
LEMMA OfferKey ==
  ASSUME NEW c, NEW peer, NEW d, NEW key, NEW fresh, NEW token, NEW video
  PROVE  Reads(BuildOfferStanza("id", c, peer, <<d>>, key, fresh, token, video), "offer", <<key, d.dev>>)
<1> DEFINE enc == Leaf("enc", [type |-> IF d \in fresh THEN "pkmsg" ELSE "msg"], <<key, d.dev>>)
           to == Node("to", [jid |-> d], <<enc>>)
           dest == Node("destination", NoAttrs, ParticipantNodes(<<d>>, key, fresh))
           privacy == Leaf("privacy", NoAttrs, token)
           X == {privacy, AudioNode, VideoNode, NetNode, CapabilityNode(19), dest, EncoptNode, DeviceIdentity}
           s1 == When(token # <<>>, <<privacy>>)
           s2 == <<AudioNode, AudioNode>>
           s3 == When(video, <<VideoNode>>)
           s4 == <<NetNode, CapabilityNode(19), dest, EncoptNode>>
           s5 == When(\E i \in DOMAIN <<d>> : <<d>>[i] \in fresh, <<DeviceIdentity>>)
           kids == s1 \o s2 \o s3 \o s4 \o s5
           inner == Node("offer", CallAttrs("id", c), kids)
           stanza == BuildOfferStanza("id", c, peer, <<d>>, key, fresh, token, video)
<1>1. stanza = callWrap(peer, inner)
  BY DEF BuildOfferStanza
<1>2. /\ \A x \in X : x.tag # "enc"
      /\ dest.tag = "destination"
      /\ \A x \in X : x.tag = "destination" => x = dest
  BY DEF AudioNode, VideoNode, NetNode, CapabilityNode, EncoptNode, DeviceIdentity, Leaf, Node
<1>3. dest.kids = ParticipantNodes(<<d>>, key, fresh)
  BY DEF Node
<1>4. DOMAIN dest.kids = 1 .. 1 /\ dest.kids[1] = to
  <2>1. ParticipantNodes(<<d>>, key, fresh) = [i \in 1 .. 1 |-> to]
    BY DEF ParticipantNodes
  <2> HIDE DEF dest, to
  <2> QED
    BY <1>3, <2>1
<1>5. to.tag = "to" /\ DOMAIN to.kids = 1 .. 1 /\ to.kids[1] = enc
  <2> HIDE DEF enc
  <2> QED
    BY DEF Node
<1>6. typedEnc(enc) /\ enc.bytes = <<key, d.dev>>
  BY DEF typedEnc, HasAttr, Leaf
<1> HIDE DEF dest, to, enc, privacy
<1>7. dest \in X /\ AudioNode \in X /\ VideoNode \in X /\ NetNode \in X /\ CapabilityNode(19) \in X
      /\ EncoptNode \in X /\ DeviceIdentity \in X /\ privacy \in X
  OBVIOUS
<1> HIDE DEF X
<1>8. s1 \in Seq(X) /\ s2 \in Seq(X) /\ s3 \in Seq(X) /\ s4 \in Seq(X) /\ s5 \in Seq(X)
  BY <1>7 DEF When
<1>9. dest \in Members(s4)
  <2>1. 3 \in DOMAIN s4 /\ s4[3] = dest
    OBVIOUS
  <2> HIDE DEF s4
  <2> QED
    BY <2>1 DEF Members
<1> HIDE DEF s1, s2, s3, s4, s5
<1>10. kids \in Seq(X) /\ dest \in Members(kids)
  <2>1. s1 \o s2 \in Seq(X)
    BY <1>8, MembersJoined
  <2>2. s1 \o s2 \o s3 \in Seq(X)
    BY <1>8, <2>1, MembersJoined
  <2> DEFINE t == s1 \o s2 \o s3
             u == t \o s4
             w == u \o s5
  <2>3. t \in Seq(X)
    BY <2>2
  <2> HIDE DEF t
  <2>4. u \in Seq(X) /\ Members(u) = Members(t) \cup Members(s4)
    BY <1>8, <2>3, MembersJoined
  <2> HIDE DEF u
  <2>5. w \in Seq(X) /\ Members(w) = Members(u) \cup Members(s5)
    BY <1>8, <2>4, MembersJoined
  <2>6. kids = w
    BY DEF w, u, t
  <2> HIDE DEF w, kids
  <2> QED
    BY <1>9, <2>4, <2>5, <2>6
<1> HIDE DEF kids
<1>11. Members(kids) \subseteq X
  BY <1>10 DEF Members
<1>12. inner.kids = kids /\ inner.tag = "offer" /\ inner.attrs = CallAttrs("id", c)
  BY DEF Node
<1> HIDE DEF inner
<1>13. findEncNode(inner) = enc
  BY <1>2, <1>4, <1>5, <1>6, <1>10, <1>11, <1>12, KeyDeep
<1>14. ExtractNodeInfo(stanza) = [tag |-> inner.tag, callID |-> AttrString(inner.attrs, "callid"), inner |-> inner]
  <2>1. stanza.kids = <<inner>>
    BY <1>1 DEF callWrap, Node
  <2> HIDE DEF stanza
  <2>2. stanza.kids # <<>> /\ stanza.kids[1] = inner
    BY <2>1
  <2> QED
    BY <2>2 DEF ExtractNodeInfo
<1>15. AttrString(inner.attrs, "callid") = "id"
  BY <1>12 DEF AttrString, HasAttr, CallAttrs
<1> HIDE DEF stanza
<1>16. /\ ExtractNodeInfo(stanza).tag = "offer" /\ ExtractNodeInfo(stanza).callID = "id"
       /\ findEncNode(ExtractNodeInfo(stanza).inner).bytes = <<key, d.dev>>
  BY <1>6, <1>12, <1>13, <1>14, <1>15
<1> QED
  BY <1>16 DEF stanza, Reads

\* An accept holds the key itself, taken from the caller's device.
LEMMA AcceptKey ==
  ASSUME NEW c, NEW d, NEW key, NEW fresh, NEW video
  PROVE  Reads(BuildAcceptStanza("id", c, d, key, fresh, video), "accept", <<key, c.dev>>)
<1> DEFINE enc == Leaf("enc", [type |-> IF c \in fresh THEN "pkmsg" ELSE "msg"], <<key, c.dev>>)
           to == Node("to", [jid |-> c], <<enc>>)
           nodes == ParticipantNodes(<<c>>, key, fresh)
           X == {AudioNode, VideoNode, NetNode, enc, EncoptNode, DeviceIdentity}
           s1 == <<AudioNode, NetNode, enc, EncoptNode>>
           s2 == When(c \in fresh, <<DeviceIdentity>>)
           s3 == When(video, <<VideoNode>>)
           kids == s1 \o s2 \o s3
           inner == Node("accept", CallAttrs("id", c), kids)
           stanza == BuildAcceptStanza("id", c, d, key, fresh, video)
<1>1. to.tag = "to" /\ DOMAIN to.kids = 1 .. 1 /\ to.kids[1] = enc
  <2> HIDE DEF enc
  <2> QED
    BY DEF Node
<1>2. typedEnc(enc) /\ enc.bytes = <<key, c.dev>> /\ enc.tag = "enc"
  BY DEF typedEnc, HasAttr, Leaf
<1>3. DOMAIN nodes = 1 .. 1 /\ nodes[1] = to
  <2>1. nodes = [i \in 1 .. 1 |-> to]
    BY DEF ParticipantNodes
  <2> HIDE DEF nodes, to
  <2> QED
    BY <2>1
<1> HIDE DEF nodes, to
<1>4. extractEncFromParticipant(nodes) = enc
  <2> DEFINE isEnc(x) == x.tag = "enc"
             holds(x) == isEnc(x) \/ \E i \in DOMAIN x.kids : isEnc(x.kids[i])
             node == First(nodes, holds, NoNode)
  <2>1. extractEncFromParticipant(nodes) = IF isEnc(node) THEN node ELSE First(node.kids, isEnc, NoNode)
    BY DEF extractEncFromParticipant
  <2>2. isEnc(enc) /\ ~isEnc(to) /\ holds(to)
    BY <1>1, <1>2
  <2> HIDE DEF isEnc, enc
  <2>3. node = to
    <3> HIDE DEF holds
    <3>1. node = nodes[CHOOSE i \in 1 .. 1 : holds(nodes[i]) /\ \A j \in 1 .. i - 1 : ~holds(nodes[j])]
      BY <1>3, <2>2 DEF First
    <3>2. \E i \in 1 .. 1 : holds(nodes[i]) /\ \A j \in 1 .. i - 1 : ~holds(nodes[j])
      BY <1>3, <2>2
    <3>3. \A i \in 1 .. 1 : nodes[i] = to
      BY <1>3
    <3> HIDE DEF node
    <3> QED
      BY <3>1, <3>2, <3>3
  <2> HIDE DEF node
  <2>4. First(to.kids, isEnc, NoNode) = enc
    <3>1. First(to.kids, isEnc, NoNode)
            = to.kids[CHOOSE i \in 1 .. 1 : isEnc(to.kids[i]) /\ \A j \in 1 .. i - 1 : ~isEnc(to.kids[j])]
      BY <1>1, <2>2 DEF First
    <3>2. \E i \in 1 .. 1 : isEnc(to.kids[i]) /\ \A j \in 1 .. i - 1 : ~isEnc(to.kids[j])
      BY <1>1, <2>2
    <3>3. \A i \in 1 .. 1 : to.kids[i] = enc
      BY <1>1
    <3> QED
      BY <3>1, <3>2, <3>3
  <2> QED
    BY <2>1, <2>2, <2>3, <2>4
<1>5. stanza = callWrap(CleanJID(d), inner)
  BY <1>4 DEF BuildAcceptStanza, nodes
<1>6. \A x \in X : typedEnc(x) => x = enc
  BY DEF typedEnc, AudioNode, VideoNode, NetNode, EncoptNode, DeviceIdentity, Leaf
<1>7. enc \in X /\ AudioNode \in X /\ VideoNode \in X /\ NetNode \in X /\ EncoptNode \in X /\ DeviceIdentity \in X
  OBVIOUS
<1> HIDE DEF X, enc
<1>8. s1 \in Seq(X) /\ s2 \in Seq(X) /\ s3 \in Seq(X)
  BY <1>7 DEF When
<1>9. enc \in Members(s1)
  <2>1. 3 \in DOMAIN s1 /\ s1[3] = enc
    OBVIOUS
  <2> HIDE DEF s1
  <2> QED
    BY <2>1 DEF Members
<1> HIDE DEF s1, s2, s3
<1>10. kids \in Seq(X) /\ enc \in Members(kids)
  <2> DEFINE t == s1 \o s2
             u == t \o s3
  <2>1. t \in Seq(X) /\ Members(t) = Members(s1) \cup Members(s2)
    BY <1>8, MembersJoined
  <2> HIDE DEF t
  <2>2. u \in Seq(X) /\ Members(u) = Members(t) \cup Members(s3)
    BY <1>8, <2>1, MembersJoined
  <2>3. kids = u
    BY DEF u, t
  <2> HIDE DEF u, kids
  <2> QED
    BY <1>9, <2>1, <2>2, <2>3
<1> HIDE DEF kids
<1>11. \A x \in Members(kids) : typedEnc(x) => x = enc
  BY <1>6, <1>10 DEF Members
<1>12. inner.kids = kids /\ inner.tag = "accept" /\ inner.attrs = CallAttrs("id", c)
  BY DEF Node
<1> HIDE DEF inner
<1>13. findEncNode(inner) = enc
  <2>1. \A none : First(kids, typedEnc, none) = enc
    BY <1>2, <1>10, <1>11, EncFirst
  <2> QED
    BY <1>12, <2>1 DEF findEncNode
<1>14. ExtractNodeInfo(stanza) = [tag |-> inner.tag, callID |-> AttrString(inner.attrs, "callid"), inner |-> inner]
  <2>1. stanza.kids = <<inner>>
    BY <1>5 DEF callWrap, Node
  <2> HIDE DEF stanza
  <2>2. stanza.kids # <<>> /\ stanza.kids[1] = inner
    BY <2>1
  <2> QED
    BY <2>2 DEF ExtractNodeInfo
<1>15. AttrString(inner.attrs, "callid") = "id"
  BY <1>12 DEF AttrString, HasAttr, CallAttrs
<1> HIDE DEF stanza
<1>16. /\ ExtractNodeInfo(stanza).tag = "accept" /\ ExtractNodeInfo(stanza).callID = "id"
       /\ findEncNode(ExtractNodeInfo(stanza).inner).bytes = <<key, c.dev>>
  BY <1>2, <1>12, <1>13, <1>14, <1>15
<1> QED
  BY <1>16 DEF stanza, Reads

\* The other stanzas of a call name it and hold no key.
LEMMA OtherKeyless ==
  ASSUME NEW c, NEW d,
         NEW stanza \in {BuildPreacceptStanza("id", c, d), BuildTerminateStanza("id", c, d),
                         BuildRejectStanza("id", c, d), BuildMuteV2Stanza("id", c, d)}
  PROVE  LET info == ExtractNodeInfo(stanza) IN info.callID = "id" /\ findEncNode(info.inner) = NoNode
<1> DEFINE X == {AudioNode, EncoptNode, CapabilityNode(7)}
           none == <<>>
           some == <<AudioNode, EncoptNode, CapabilityNode(7)>>
<1>1. PICK inner : /\ stanza = callWrap(d, inner) /\ inner.kids \in {none, some}
                   /\ inner.attrs = CallAttrs("id", c)
  BY DEF BuildPreacceptStanza, BuildTerminateStanza, BuildRejectStanza, BuildMuteV2Stanza, Node
<1>2. \A x \in X : x.tag \notin {"enc", "destination"}
  BY DEF AudioNode, EncoptNode, CapabilityNode, Leaf
<1>3. none \in Seq(X) /\ some \in Seq(X)
  OBVIOUS
<1> HIDE DEF X, none, some
<1>4. inner.kids \in Seq(X)
  BY <1>1, <1>3
<1>5. \A x \in Members(inner.kids) : x.tag \notin {"enc", "destination"}
  BY <1>2, <1>4 DEF Members
<1>6. findEncNode(inner) = NoNode
  BY <1>4, <1>5, NoKey
<1>7. stanza.kids # <<>> /\ stanza.kids[1] = inner
  BY <1>1 DEF callWrap, Node
<1>8. AttrString(inner.attrs, "callid") = "id"
  BY <1>1 DEF AttrString, HasAttr, CallAttrs
<1> QED
  BY <1>6, <1>7, <1>8 DEF ExtractNodeInfo

LEMMA AllReadable == KeyReadable
<1> DEFINE d == call.device
           c == call.creator
           offer == BuildOfferStanza("id", c, CleanJID(d), <<d>>, call.key, call.fresh, call.token, call.video)
           accept == BuildAcceptStanza("id", c, d, call.key, call.fresh, call.video)
           others == {BuildPreacceptStanza("id", c, d), BuildTerminateStanza("id", c, d),
                      BuildRejectStanza("id", c, d), BuildMuteV2Stanza("id", c, d)}
<1>1. Reads(offer, "offer", <<call.key, d.dev>>)
  BY OfferKey
<1>2. Reads(accept, "accept", <<call.key, c.dev>>)
  BY AcceptKey
<1>3. \A stanza \in others : /\ ExtractNodeInfo(stanza).callID = "id"
                             /\ findEncNode(ExtractNodeInfo(stanza).inner) = NoNode
  BY OtherKeyless
<1> QED
  BY <1>1, <1>2, <1>3 DEF KeyReadable, Reads

\* MirroredDevices: what one side calls its own device the other calls its peer's, in whichever
\* order an answer names them (participantsOf, findOurDevice, firstPeerDevice).
THEOREM StanzasMirrored == Spec => []MirroredDevices
BY StanzasTyped, TypedMirrored, PTL

\* KeyReadable: the key a stanza carries is found by the side it is for, and in no other stanza
\* (BuildOfferStanza, BuildAcceptStanza, findEncNode).
THEOREM StanzasReadable == Spec => []KeyReadable
<1>1. []KeyReadable
  BY AllReadable, PTL
<1> QED
  BY <1>1
=============================================================================
