----------------------------- MODULE ListFacts ------------------------------
(***************************************************************************)
(* Facts that several proofs need: least and greatest numbers exist, what  *)
(* is left of a list when an element goes, what loops have computed, and   *)
(* lists of records in the order of their field timeout.                   *)
(***************************************************************************)
EXTENDS Integers, SequencesExt, WellFoundedInduction, TLAPS

Before == {ss \in Nat \X Nat : ss[1] < ss[2]}

(* A set of natural numbers that is not empty has a least element.         *)
LEMMA LeastExists ==
  ASSUME NEW S \in SUBSET Nat, S # {}
  PROVE  \E x \in S : \A y \in S : x <= y
<1>1. OpToRel(<, Nat) = Before
  BY Zenon DEF OpToRel, Before
<1>2. IsWellFoundedOn(Before, Nat)
  BY <1>1, NatLessThanWellFounded, Zenon
<1>3. PICK x \in S : \A y \in S : ~ (<<y, x>> \in Before)
  BY <1>2, WFMin
<1>4. ASSUME NEW y \in S PROVE x <= y
  <2>1. <<y, x>> \notin Before
    BY <1>3
  <2>2. ~ (y < x)
    BY <2>1 DEF Before
  <2> QED BY <2>2
<1> QED BY <1>4

(* A list without its i-th element.                                        *)
LEMMA RemoveAtFacts ==
  ASSUME NEW S, NEW table \in Seq(S), NEW i \in DOMAIN table
  PROVE  /\ RemoveAt(table, i) \in Seq(S)
         /\ Len(RemoveAt(table, i)) = Len(table) - 1
         /\ \A k \in DOMAIN RemoveAt(table, i) :
               RemoveAt(table, i)[k] = IF k < i THEN table[k] ELSE table[k + 1]
<1> DEFINE front == SubSeq(table, 1, i - 1)
           back  == SubSeq(table, i + 1, Len(table))
<1>1. i \in 1 .. Len(table) /\ Len(table) \in Nat
  OBVIOUS
<1>2. /\ front \in Seq(S) /\ Len(front) = i - 1
      /\ \A k \in 1 .. i - 1 : front[k] = table[k]
  BY <1>1
<1>3. /\ back \in Seq(S) /\ Len(back) = Len(table) - i
      /\ \A k \in 1 .. Len(table) - i : back[k] = table[i + k]
  BY <1>1
<1>4. RemoveAt(table, i) = front \o back
  BY DEF RemoveAt
<1> HIDE DEF front, back
<1>5. /\ front \o back \in Seq(S)
      /\ Len(front \o back) = Len(table) - 1
  BY <1>1, <1>2, <1>3
<1>6. ASSUME NEW k \in 1 .. Len(table) - 1
      PROVE  (front \o back)[k] = IF k < i THEN table[k] ELSE table[k + 1]
  <2>1. CASE k < i
    <3>1. (front \o back)[k] = front[k]
      BY <2>1, <1>1, <1>2, <1>3
    <3> QED BY <3>1, <2>1, <1>1, <1>2
  <2>2. CASE ~ (k < i)
    <3>1. k >= i
      BY <2>2, <1>1
    <3>2. (front \o back)[k] = back[k - (i - 1)]
      BY <3>1, <1>1, <1>2, <1>3
    <3>3. back[k - (i - 1)] = table[i + (k - (i - 1))]
      BY <3>1, <1>1, <1>3
    <3>4. i + (k - (i - 1)) = k + 1
      BY <1>1
    <3> QED BY <3>2, <3>3, <3>4, <2>2
  <2> QED BY <2>1, <2>2
<1>7. DOMAIN (front \o back) = 1 .. Len(table) - 1
  BY <1>5
<1> QED BY <1>4, <1>5, <1>6, <1>7

(* What is left without the first element, and with one more at the end.   *)
LEMMA TailFacts ==
  ASSUME NEW S, NEW s \in Seq(S), s # <<>>
  PROVE  /\ Len(s) \in Nat \ {0} /\ 1 \in DOMAIN s /\ Head(s) = s[1]
         /\ Tail(s) \in Seq(S) /\ Len(Tail(s)) = Len(s) - 1
         /\ \A i \in DOMAIN Tail(s) : i \in Int /\ i + 1 \in DOMAIN s /\ Tail(s)[i] = s[i + 1]
OBVIOUS

(* What a list is with one more element at the end.                        *)
LEMMA AppendFacts ==
  ASSUME NEW S, NEW s \in Seq(S), NEW x \in S
  PROVE  /\ Len(s) \in Nat /\ Append(s, x) \in Seq(S) /\ Len(Append(s, x)) = Len(s) + 1
         /\ \A i \in DOMAIN Append(s, x) :
               \/ i \in DOMAIN s /\ Append(s, x)[i] = s[i]
               \/ i = Len(s) + 1 /\ Append(s, x)[i] = x
OBVIOUS

(* What holds of 0 and of each number up to n whose predecessor it holds of*)
(* holds of all of them.                                                   *)
LEMMA CountingUp ==
  ASSUME NEW n \in Nat, NEW G, 0 \in G,
         \A k \in 1 .. n : k - 1 \in G => k \in G
  PROVE  0 .. n \subseteq G
<1> DEFINE B == {k \in 0 .. n : k \notin G}
<1>1. SUFFICES ASSUME B # {} PROVE FALSE
  OBVIOUS
<1>2. PICK b \in B : \A k \in B : b <= k
  <2>1. B \in SUBSET Nat
    OBVIOUS
  <2> HIDE DEF B
  <2> QED BY <1>1, <2>1, LeastExists
<1>3. b \in 1 .. n /\ b - 1 \in 0 .. n
  BY <1>2
<1>4. b - 1 \notin B
  BY <1>2, <1>3
<1> QED BY <1>2, <1>3, <1>4

(* A loop of n steps over values of S has a history.                       *)
IsHistory(f, n, S, v, step) ==
  /\ f \in [0 .. n -> S] /\ f[0] = v
  /\ \A k \in 1 .. n : f[k] = step[<<k, f[k - 1]>>]

(* The values such a loop goes through exist, as one function.             *)
LEMMA HistoryExists ==
  ASSUME NEW n \in Nat, NEW S, NEW v \in S, NEW step \in [(1 .. n) \X S -> S]
  PROVE  \E f : IsHistory(f, n, S, v, step)
<1> DEFINE Good(m, f) == f[0] = v /\ \A k \in 1 .. m : f[k] = step[<<k, f[k - 1]>>]
           G == {m \in 0 .. n : \E f \in [0 .. m -> S] : Good(m, f)}
<1>1. 0 \in G
  <2> DEFINE g == [k \in 0 .. 0 |-> v]
  <2>1. g \in [0 .. 0 -> S] /\ g[0] = v
    OBVIOUS
  <2>2. Good(0, g)
    BY <2>1
  <2> HIDE DEF g
  <2> QED BY <2>1, <2>2
<1>2. ASSUME NEW m \in 1 .. n, m - 1 \in G PROVE m \in G
  <2>1. PICK f \in [0 .. m - 1 -> S] : Good(m - 1, f)
    BY <1>2
  <2> DEFINE g == [k \in 0 .. m |-> IF k = m THEN step[<<m, f[m - 1]>>] ELSE f[k]]
  <2>2. m - 1 \in 0 .. m - 1 /\ m \in Int /\ m > 0
    OBVIOUS
  <2>3. step[<<m, f[m - 1]>>] \in S
    BY <2>2
  <2>4. g \in [0 .. m -> S]
    BY <2>2, <2>3
  <2>5. /\ g[m] = step[<<m, f[m - 1]>>]
        /\ \A k \in 0 .. m - 1 : g[k] = f[k]
    BY <2>2
  <2> HIDE DEF g
  <2>6. \A k \in 1 .. m - 1 : g[k] = step[<<k, g[k - 1]>>]
    <3> SUFFICES ASSUME NEW k \in 1 .. m - 1 PROVE g[k] = step[<<k, g[k - 1]>>]
      OBVIOUS
    <3>1. k \in 0 .. m - 1 /\ k - 1 \in 0 .. m - 1
      BY <2>2
    <3> QED BY <2>1, <2>5, <3>1
  <2>7. g[m] = step[<<m, g[m - 1]>>]
    BY <2>2, <2>5
  <2>8. g[0] = v
    BY <2>1, <2>2, <2>5
  <2>9. \A k \in 1 .. m : k = m \/ k \in 1 .. m - 1
    BY <2>2
  <2>10. Good(m, g)
    BY <2>6, <2>7, <2>8, <2>9
  <2> QED BY <2>4, <2>10
<1> HIDE DEF G
<1>3. 0 .. n \subseteq G
  BY <1>1, <1>2, CountingUp
<1>4. n \in G
  BY <1>3
<1>5. PICK f \in [0 .. n -> S] : Good(n, f)
  BY <1>4 DEF G
<1>6. IsHistory(f, n, S, v, step)
  BY <1>5 DEF IsHistory
<1> QED BY <1>6

(* A bounded set of natural numbers that is not empty has a greatest       *)
(* element.                                                                *)
LEMMA GreatestExists ==
  ASSUME NEW n \in Nat, NEW S \in SUBSET (0 .. n), S # {}
  PROVE  \E x \in S : \A y \in S : y <= x
<1> DEFINE T == {k \in Nat : k <= n /\ n - k \in S}
<1>1. T \in SUBSET Nat
  OBVIOUS
<1>2. T # {}
  <2>1. PICK x \in S : TRUE
    OBVIOUS
  <2>2. x \in Nat /\ x <= n /\ n - x \in Nat /\ n - x <= n /\ n - (n - x) = x
    OBVIOUS
  <2> QED BY <2>1, <2>2
<1>3. PICK k \in T : \A j \in T : k <= j
  <2> HIDE DEF T
  <2> QED BY <1>1, <1>2, LeastExists
<1>4. k \in Nat /\ n - k \in S
  BY <1>3
<1>5. ASSUME NEW y \in S PROVE y <= n - k
  <2>1. y \in Nat /\ n - y \in Nat /\ n - y <= n /\ n - (n - y) = y
    OBVIOUS
  <2>2. n - y \in T
    BY <2>1
  <2>3. k <= n - y
    <3> HIDE DEF T
    <3> QED BY <1>3, <2>2
  <2> QED BY <1>4, <2>1, <2>3
<1> QED BY <1>4, <1>5

-----------------------------------------------------------------------------
(* Lists of records that have a field timeout, the latest first.           *)

Sorted(table) ==
  \A i, j \in DOMAIN table : i < j => table[i].timeout >= table[j].timeout

(* A list with one more element at the head.                               *)
LEMMA ConsFacts ==
  ASSUME NEW S, NEW table \in Seq(S), NEW m \in S
  PROVE  LET longer == <<m>> \o table IN
         /\ longer \in Seq(S) /\ Len(longer) = Len(table) + 1
         /\ \A k \in DOMAIN longer : longer[k] = IF k = 1 THEN m ELSE table[k - 1]
OBVIOUS

(* Removing an element keeps the order.                                    *)
LEMMA RemoveSorted ==
  ASSUME NEW S, NEW table \in Seq(S), NEW i \in DOMAIN table, Sorted(table)
  PROVE  Sorted(RemoveAt(table, i))
<1> DEFINE rest == RemoveAt(table, i)
<1>1. rest \in Seq(S) /\ Len(rest) = Len(table) - 1
  BY RemoveAtFacts
<1>2. \A k \in DOMAIN rest : rest[k] = IF k < i THEN table[k] ELSE table[k + 1]
  BY RemoveAtFacts
<1>3. i \in 1 .. Len(table) /\ DOMAIN table = 1 .. Len(table)
  OBVIOUS
<1> HIDE DEF rest
<1>4. ASSUME NEW j \in DOMAIN rest, NEW k \in DOMAIN rest, j < k
      PROVE  rest[j].timeout >= rest[k].timeout
  <2>1. PICK p \in DOMAIN table : p = (IF j < i THEN j ELSE j + 1) /\ rest[j] = table[p]
    BY <1>1, <1>2, <1>3
  <2>2. PICK q \in DOMAIN table : q = (IF k < i THEN k ELSE k + 1) /\ rest[k] = table[q]
    BY <1>1, <1>2, <1>3
  <2>3. p < q
    BY <2>1, <2>2, <1>1, <1>3, <1>4
  <2> QED BY <2>1, <2>2, <2>3 DEF Sorted
<1>5. Sorted(rest)
  BY <1>4 DEF Sorted
<1> QED BY <1>5 DEF rest

(* The shortest wait is at least 1, and no more than what any record has   *)
(* left, unless it is 1.  In a sorted list the last record, or the idle    *)
(* wait, is the least: that is why the CHOOSE has a witness.               *)
Waits(idle, table, t) == {idle} \cup {table[i].timeout - t : i \in DOMAIN table}

Shortest(W) ==
  LET least == CHOOSE x \in W : \A y \in W : x <= y
  IN  IF least <= 0 THEN 1 ELSE least

(* In a sorted list the last record or the idle wait decides, and nobody   *)
(* waits longer than that.                                                 *)
LEMMA ShortestFacts ==
  ASSUME NEW idle \in Nat \ {0}, NEW S, NEW table \in Seq(S), NEW t \in Nat, Sorted(table),
         \A i \in DOMAIN table : table[i].timeout \in Int,
         NEW W, W = Waits(idle, table, t)
  PROVE  /\ Shortest(W) \in Nat /\ Shortest(W) >= 1
         /\ \A i \in DOMAIN table :
               Shortest(W) <= table[i].timeout - t \/ Shortest(W) = 1
<1> DEFINE least == CHOOSE x \in W : \A y \in W : x <= y
<1>1. idle \in Nat /\ idle >= 1
  OBVIOUS
<1>2. \A i \in DOMAIN table : table[i].timeout \in Int
  OBVIOUS
<1>3. W \subseteq Int
  BY <1>1, <1>2 DEF Waits
<1>4. \E x \in W : \A y \in W : x <= y
  <2>1. CASE table = <<>>
    <3>1. W = {idle}
      BY <2>1 DEF Waits
    <3> QED BY <3>1, <1>1
  <2>2. CASE table # <<>>
    <3> DEFINE n == Len(table)
               last == table[n].timeout - t
    <3>1. n \in DOMAIN table /\ DOMAIN table = 1 .. n /\ n \in Nat
      BY <2>2
    <3>2. last \in W /\ last \in Int /\ idle \in W
      BY <3>1, <1>2 DEF Waits
    <3> HIDE DEF n
    <3>3. \A i \in DOMAIN table : last <= table[i].timeout - t
      <4>1. SUFFICES ASSUME NEW i \in DOMAIN table
                     PROVE  table[n].timeout <= table[i].timeout
        BY <3>1, <1>2
      <4>2. CASE i = n
        BY <4>2, <1>2
      <4>3. CASE i < n
        BY <4>3, <3>1, <1>2 DEF Sorted
      <4> QED BY <4>2, <4>3, <3>1
    <3>4. CASE last <= idle
      <4>1. \A y \in W : last <= y
        BY <3>3, <3>4 DEF Waits
      <4> QED BY <4>1, <3>2
    <3>5. CASE ~ (last <= idle)
      <4>1. idle <= last
        BY <3>5, <3>2, <1>1
      <4>2. ASSUME NEW y \in W PROVE idle <= y
        <5>1. CASE y = idle
          BY <5>1, <1>1
        <5>2. CASE \E i \in DOMAIN table : y = table[i].timeout - t
          BY <5>2, <4>1, <3>3, <3>2, <1>1, <1>2
        <5> QED BY <5>1, <5>2 DEF Waits
      <4> QED BY <4>2, <3>2
    <3> QED BY <3>4, <3>5
  <2> QED BY <2>1, <2>2
<1>5. least \in W /\ \A y \in W : least <= y
  BY <1>4
<1>6. Shortest(W) = IF least <= 0 THEN 1 ELSE least
  BY DEF Shortest
<1>7. \A i \in DOMAIN table : table[i].timeout - t \in W
  BY DEF Waits
<1> HIDE DEF least
<1>8. least \in Int
  BY <1>3, <1>5
<1>9. Shortest(W) \in Nat /\ Shortest(W) >= 1
  BY <1>6, <1>8
<1>10. ASSUME NEW i \in DOMAIN table, Shortest(W) # 1
       PROVE  Shortest(W) <= table[i].timeout - t
  BY <1>5, <1>6, <1>7, <1>8, <1>10
<1> QED BY <1>9, <1>10

(* Whatever is least of the waits decides.                                 *)
LEMMA ShortestIs ==
  ASSUME NEW W, NEW x \in W, W \subseteq Int, \A y \in W : x <= y
  PROVE  Shortest(W) = IF x <= 0 THEN 1 ELSE x
<1> DEFINE least == CHOOSE z \in W : \A y \in W : z <= y
<1>1. least \in W /\ \A y \in W : least <= y
  OBVIOUS
<1>2. Shortest(W) = IF least <= 0 THEN 1 ELSE least
  BY DEF Shortest
<1> HIDE DEF least
<1>3. least = x
  BY <1>1
<1> QED BY <1>2, <1>3
=============================================================================
