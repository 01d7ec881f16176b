------------------------- MODULE MappingHeapProofs --------------------------
(***************************************************************************)
(* Proofs about MappingHeap for every number of cells and keys, every      *)
(* timeout and every width of an int.                                      *)
(***************************************************************************)
EXTENDS MappingHeap, ListFacts, SequenceTheorems

-----------------------------------------------------------------------------
(* The operations of MappingList.                                          *)

(* What mapping_delete leaves: one element less, the others in their order. *)
LEMMA DeleteFacts ==
  ASSUME NEW S, NEW table \in Seq(S), NEW i \in DOMAIN table
  PROVE  /\ MappingDelete(table, i) \in Seq(S)
         /\ Len(MappingDelete(table, i)) = Len(table) - 1
         /\ \A k \in DOMAIN MappingDelete(table, i) :
               MappingDelete(table, i)[k] = IF k < i THEN table[k] ELSE table[k + 1]
BY RemoveAtFacts DEF MappingDelete

(* ctx_timeout_get is the shortest of the waits.                           *)
LEMMA TimeoutGetFacts ==
  ASSUME NEW S, NEW table \in Seq(S), NEW t \in Nat, Sorted(table),
         \A i \in DOMAIN table : table[i].timeout \in Int
  PROVE  /\ TimeoutGet(table, t) \in Nat /\ TimeoutGet(table, t) >= 1
         /\ \A i \in DOMAIN table :
               TimeoutGet(table, t) <= table[i].timeout - t \/ TimeoutGet(table, t) = 1
<1>1. TimeoutGet(table, t) = Shortest(Waits(IdleTimeout, table, t))
  BY DEF TimeoutGet, Remaining, Shortest, Waits
<1> QED BY <1>1, ShortestFacts, IdleAssumption

-----------------------------------------------------------------------------
(* The inductive invariant.  A walk stands at a position of the list; in   *)
(* mapping_delete the walk of tmp is still before the cell to be unlinked. *)

Positions == 1 .. Len(chain) + 1

Walks ==
  /\ pc \in {"timeout", "find", "sweep"} => \E i \in Positions : m = Ptr(i)
  /\ pc = "delete" => \E i \in DOMAIN chain : m = chain[i]
  /\ pc = "unlink" =>
       \E i, j \in DOMAIN chain : m = chain[i] /\ tmp = chain[j] /\ j < i

ListInUse == \A i \in DOMAIN chain : chain[i] \in used

StructInv == TypeOK /\ Linked /\ ListInUse /\ Walks

(* What is in the cells, while the time of day fits in an int: the list is *)
(* sorted, and each walk has seen what lies behind it.                     *)
NoneIsAnswered(i) == \A j \in 1 .. i - 1 : key[chain[j]] \notin pkt.seeks
NoneIsExpired(i)  == \A j \in 1 .. i - 1 : timeout[chain[j]] > clock
LeastIsLeft(i) ==
  /\ \A j \in 1 .. i - 1 : timeout[chain[j]] - clock >= left
  /\ \/ left = IdleTimeout
     \/ \E j \in 1 .. i - 1 : left = timeout[chain[j]] - clock

WalksSee ==
  /\ pc = "timeout" => \E i \in Positions : m = Ptr(i) /\ LeastIsLeft(i)
  /\ pc = "find" => pkt \in Packets /\ \E i \in Positions : m = Ptr(i) /\ NoneIsAnswered(i)
  /\ pc = "sweep" => \E i \in Positions : m = Ptr(i) /\ NoneIsExpired(i)
  /\ pc \in {"delete", "unlink"} /\ back = "handled" =>
       /\ pkt \in Packets
       /\ \E i \in DOMAIN chain : m = chain[i] /\ key[m] \in pkt.seeks /\ NoneIsAnswered(i)
  /\ pc \in {"delete", "unlink"} /\ back = "sweep" =>
       \E i \in DOMAIN chain : m = chain[i] /\ timeout[m] <= clock /\ NoneIsExpired(i)

ListSorted ==
  /\ \A i, j \in DOMAIN chain : i < j => timeout[chain[i]] >= timeout[chain[j]]
  /\ \A i \in DOMAIN chain : timeout[chain[i]] \in 0 .. now + Timeout
  /\ clock <= now

ListInv == ListSorted /\ WalksSee

-----------------------------------------------------------------------------
(* The history of the list.                                                *)

(* A pointer of the list is a cell or NULL.                                *)
LEMMA PtrType ==
  ASSUME chain \in Seq(Cells), NEW i \in Int
  PROVE  Ptr(i) \in Pointers /\ (Ptr(i) = Null <=> i \notin DOMAIN chain)
<1>1. i \in DOMAIN chain => chain[i] \in Cells
  OBVIOUS
<1> QED BY <1>1, HeapAssumption DEF Ptr, Pointers

(* What is unlinked at position i is removed from the history there.       *)
LEMMA ForgetFacts ==
  ASSUME chain \in Seq(Cells), NEW i \in DOMAIN chain, m = chain[i], Linked, Forget
  PROVE  /\ chain' = MappingDelete(chain, i)
         /\ chain' \in Seq(Cells) /\ Len(chain') = Len(chain) - 1
         /\ DOMAIN chain' = 1 .. Len(chain) - 1 /\ DOMAIN chain = 1 .. Len(chain)
         /\ \A k \in DOMAIN chain' : chain'[k] = IF k < i THEN chain[k] ELSE chain[k + 1]
<1>1. chain' = MappingDelete(chain, i)
  BY DEF Forget, IsAt, Linked
<1>2. /\ MappingDelete(chain, i) \in Seq(Cells)
      /\ Len(MappingDelete(chain, i)) = Len(chain) - 1
      /\ \A k \in DOMAIN MappingDelete(chain, i) :
            MappingDelete(chain, i)[k] = IF k < i THEN chain[k] ELSE chain[k + 1]
  BY DeleteFacts
<1> QED BY <1>1, <1>2

(* mapping_add puts the new cell before the others.                        *)
LEMMA AddCell ==
  ASSUME chain \in Seq(Cells), NEW c \in Cells, chain' = MappingAdd(chain, c)
  PROVE  /\ chain' \in Seq(Cells) /\ Len(chain') = Len(chain) + 1
         /\ DOMAIN chain' = 1 .. Len(chain) + 1 /\ DOMAIN chain = 1 .. Len(chain)
         /\ \A k \in DOMAIN chain' : chain'[k] = IF k = 1 THEN c ELSE chain[k - 1]
<1>1. /\ MappingAdd(chain, c) \in Seq(Cells)
      /\ Len(MappingAdd(chain, c)) = Len(chain) + 1
      /\ \A k \in DOMAIN MappingAdd(chain, c) :
            MappingAdd(chain, c)[k] = IF k = 1 THEN c ELSE chain[k - 1]
  BY ConsFacts DEF MappingAdd
<1> QED BY <1>1

(* A cell that is not in the list becomes its head: the pointers still run *)
(* through the list.                                                       *)
LEMMA AddLinked ==
  ASSUME StructInv, NEW c \in Cells, Add(c)
  PROVE  Linked' /\ ListInUse' /\ chain' \in Seq(Cells)
<1>1. /\ chain \in Seq(Cells) /\ next \in [Cells -> Pointers] /\ c \notin used
      /\ used' = used \cup {c} /\ mappings' = c /\ mappings = Ptr(1)
      /\ next' = [next EXCEPT ![c] = mappings] /\ chain' = MappingAdd(chain, c)
  BY DEF StructInv, TypeOK, Linked, Add
<1>2. \A i \in DOMAIN chain : chain[i] # c /\ chain[i] \in used /\ chain[i] \in Cells
  BY <1>1 DEF StructInv, ListInUse
<1>3. /\ chain' \in Seq(Cells) /\ Len(chain') = Len(chain) + 1
      /\ DOMAIN chain' = 1 .. Len(chain) + 1 /\ DOMAIN chain = 1 .. Len(chain)
      /\ \A k \in DOMAIN chain' : chain'[k] = IF k = 1 THEN c ELSE chain[k - 1]
  BY <1>1, AddCell
<1>4. Len(chain) \in Nat
  BY <1>1
<1>5. \A i \in 1 .. Len(chain) + 2 : Ptr(i)' = IF i = 1 THEN c ELSE Ptr(i - 1)
  BY <1>3, <1>4 DEF Ptr
<1>6. \A i \in DOMAIN chain : next[chain[i]] = Ptr(i + 1)
  BY DEF StructInv, Linked
<1>7. ASSUME NEW i \in DOMAIN chain' PROVE next'[chain'[i]] = Ptr(i + 1)'
  <2>1. CASE i = 1
    BY <2>1, <1>1, <1>3, <1>4, <1>5
  <2>2. CASE i # 1
    <3>1. i - 1 \in DOMAIN chain /\ chain'[i] = chain[i - 1]
      BY <2>2, <1>3, <1>4
    <3>2. next'[chain'[i]] = next[chain[i - 1]]
      BY <3>1, <1>1, <1>2
    <3>3. Ptr(i + 1)' = Ptr(i)
      BY <2>2, <1>3, <1>4, <1>5
    <3> QED BY <3>1, <3>2, <3>3, <1>3, <1>4, <1>6
  <2> QED BY <2>1, <2>2
<1>8. ASSUME NEW i \in DOMAIN chain', NEW j \in DOMAIN chain', chain'[i] = chain'[j]
      PROVE  i = j
  <2>1. \A k, l \in DOMAIN chain : chain[k] = chain[l] => k = l
    BY DEF StructInv, Linked
  <2> QED BY <2>1, <1>2, <1>3, <1>4, <1>8
<1>9. mappings' = Ptr(1)'
  BY <1>1, <1>4, <1>5
<1>10. Linked'
  BY <1>7, <1>8, <1>9 DEF Linked
<1>11. ListInUse'
  BY <1>1, <1>2, <1>3, <1>4 DEF ListInUse
<1> QED BY <1>3, <1>10, <1>11

(* What is left of the list after position i was unlinked is injective.    *)
LEMMA DeleteInjective ==
  ASSUME StructInv, NEW i \in DOMAIN chain, m = chain[i], Forget
  PROVE  /\ \A k, l \in DOMAIN chain' : chain'[k] = chain'[l] => k = l
         /\ \A k \in DOMAIN chain' : chain'[k] # m /\ chain'[k] \in used
<1>1. chain \in Seq(Cells) /\ Linked
  BY DEF StructInv, TypeOK
<1>2. /\ DOMAIN chain' = 1 .. Len(chain) - 1 /\ DOMAIN chain = 1 .. Len(chain)
      /\ \A k \in DOMAIN chain' : chain'[k] = IF k < i THEN chain[k] ELSE chain[k + 1]
  BY <1>1, ForgetFacts
<1>3. Len(chain) \in Nat /\ i \in 1 .. Len(chain)
  BY <1>1
<1>4. \A k, l \in DOMAIN chain : chain[k] = chain[l] => k = l
  BY <1>1 DEF Linked
<1>5. \A k \in DOMAIN chain : chain[k] \in used
  BY DEF StructInv, ListInUse
<1>6. ASSUME NEW k \in DOMAIN chain'
      PROVE  \E p \in DOMAIN chain :
               p = (IF k < i THEN k ELSE k + 1) /\ chain'[k] = chain[p] /\ p # i
  BY <1>2, <1>3
<1>7. ASSUME NEW k \in DOMAIN chain', NEW l \in DOMAIN chain', chain'[k] = chain'[l]
      PROVE  k = l
  <2>1. PICK p \in DOMAIN chain : p = (IF k < i THEN k ELSE k + 1) /\ chain'[k] = chain[p]
    BY <1>6
  <2>2. PICK q \in DOMAIN chain : q = (IF l < i THEN l ELSE l + 1) /\ chain'[l] = chain[q]
    BY <1>6
  <2>3. p = q
    BY <1>4, <1>7, <2>1, <2>2
  <2> QED BY <2>1, <2>2, <2>3, <1>2, <1>3
<1>8. \A k \in DOMAIN chain' : chain'[k] # m /\ chain'[k] \in used
  BY <1>4, <1>5, <1>6
<1> QED BY <1>7, <1>8

(* mapping_delete at the head keeps the list.                              *)
LEMMA HeadLinked ==
  ASSUME StructInv, DeleteHead
  PROVE  /\ Linked' /\ ListInUse' /\ chain' \in Seq(Cells) /\ next[m] = Ptr(1)'
         /\ 1 \in DOMAIN chain /\ m = chain[1] /\ chain' = MappingDelete(chain, 1)
<1>1. /\ chain \in Seq(Cells) /\ Linked /\ mappings = m /\ mappings' = next[m]
      /\ next' = next /\ used' = used /\ Forget
  BY DEF StructInv, TypeOK, DeleteHead
<1>2. PICK i \in DOMAIN chain : m = chain[i]
  BY DEF StructInv, Walks, DeleteHead
<1>3. 1 \in DOMAIN chain /\ m = chain[1]
  BY <1>1, <1>2 DEF Linked, Ptr
<1>4. /\ chain' = MappingDelete(chain, 1)
      /\ chain' \in Seq(Cells) /\ Len(chain') = Len(chain) - 1
      /\ DOMAIN chain' = 1 .. Len(chain) - 1 /\ DOMAIN chain = 1 .. Len(chain)
      /\ \A k \in DOMAIN chain' : chain'[k] = chain[k + 1]
  BY <1>1, <1>3, ForgetFacts
<1>5. Len(chain) \in Nat /\ Len(chain) >= 1
  BY <1>1, <1>3
<1>6. \A k \in 1 .. Len(chain) : Ptr(k)' = Ptr(k + 1)
  BY <1>4, <1>5 DEF Ptr
<1>7. next[m] = Ptr(1)'
  BY <1>1, <1>3, <1>4, <1>5, <1>6 DEF Linked
<1>8. ASSUME NEW k \in DOMAIN chain' PROVE next'[chain'[k]] = Ptr(k + 1)'
  <2>1. k + 1 \in DOMAIN chain
    BY <1>4, <1>5
  <2>2. next[chain[k + 1]] = Ptr(k + 1 + 1)
    BY <1>1, <2>1 DEF Linked
  <2> QED BY <2>1, <2>2, <1>1, <1>4, <1>5, <1>6
<1>9. /\ \A k, l \in DOMAIN chain' : chain'[k] = chain'[l] => k = l
      /\ \A k \in DOMAIN chain' : chain'[k] \in used
  BY <1>1, <1>3, DeleteInjective
<1>10. Linked'
  BY <1>1, <1>7, <1>8, <1>9 DEF Linked
<1>11. ListInUse'
  BY <1>1, <1>9 DEF ListInUse
<1> QED BY <1>3, <1>4, <1>7, <1>10, <1>11

(* mapping_delete behind the head keeps the list, and the freed cell is    *)
(* not in it.                                                              *)
LEMMA UnlinkLinked ==
  ASSUME StructInv, Unlink
  PROVE  /\ Linked' /\ ListInUse' /\ chain' \in Seq(Cells)
         /\ \E i \in DOMAIN chain : m = chain[i] /\ chain' = MappingDelete(chain, i)
<1>1. /\ chain \in Seq(Cells) /\ Linked /\ next \in [Cells -> Pointers] /\ next[tmp] = m
      /\ next' = [next EXCEPT ![tmp] = next[m], ![m] = m]
      /\ mappings' = mappings /\ used' = used \ {m} /\ Forget
  BY DEF StructInv, TypeOK, Unlink, Relink, Free
<1>2. PICK i \in DOMAIN chain, j \in DOMAIN chain : m = chain[i] /\ tmp = chain[j] /\ j < i
  BY DEF StructInv, Walks, Unlink
<1>3. Len(chain) \in Nat /\ i \in 1 .. Len(chain) /\ j \in 1 .. Len(chain)
  BY <1>1, <1>2
<1>4. /\ \A k, l \in DOMAIN chain : chain[k] = chain[l] => k = l
      /\ \A k \in DOMAIN chain : next[chain[k]] = Ptr(k + 1)
      /\ \A k \in DOMAIN chain : chain[k] \in Cells
  BY <1>1 DEF Linked
<1>5. j + 1 = i
  <2>1. j + 1 \in DOMAIN chain
    BY <1>2, <1>3
  <2>2. chain[j + 1] = chain[i]
    BY <2>1, <1>1, <1>2, <1>4 DEF Ptr
  <2> QED BY <2>1, <2>2, <1>2, <1>4
<1>6. /\ chain' = MappingDelete(chain, i)
      /\ chain' \in Seq(Cells) /\ Len(chain') = Len(chain) - 1
      /\ DOMAIN chain' = 1 .. Len(chain) - 1 /\ DOMAIN chain = 1 .. Len(chain)
      /\ \A k \in DOMAIN chain' : chain'[k] = IF k < i THEN chain[k] ELSE chain[k + 1]
  BY <1>1, <1>2, ForgetFacts
<1>7. \A k \in 1 .. Len(chain) : Ptr(k)' = IF k < i THEN Ptr(k) ELSE Ptr(k + 1)
  BY <1>3, <1>6 DEF Ptr
<1>8. ASSUME NEW k \in DOMAIN chain' PROVE next'[chain'[k]] = Ptr(k + 1)'
  <2>1. CASE k < j
    <3>1. chain'[k] = chain[k] /\ k \in DOMAIN chain /\ chain[k] # tmp /\ chain[k] # m
      BY <2>1, <1>2, <1>3, <1>4, <1>6
    <3>2. next'[chain'[k]] = Ptr(k + 1)
      BY <3>1, <1>1, <1>4
    <3> QED BY <3>2, <2>1, <1>3, <1>5, <1>6, <1>7
  <2>2. CASE k = j
    <3>1. chain'[k] = tmp /\ tmp # m /\ tmp \in Cells
      BY <2>2, <1>2, <1>3, <1>4, <1>6
    <3>2. next'[chain'[k]] = Ptr(i + 1)
      BY <3>1, <1>1, <1>2, <1>4
    <3>3. Ptr(k + 1)' = Ptr(i + 1)
      BY <2>2, <1>3, <1>5, <1>6, <1>7
    <3> QED BY <3>2, <3>3
  <2>3. CASE k > j
    <3>1. k + 1 \in DOMAIN chain /\ chain'[k] = chain[k + 1] /\ k + 1 # i /\ k + 1 # j
      BY <2>3, <1>3, <1>5, <1>6
    <3>2. chain[k + 1] # tmp /\ chain[k + 1] # m /\ chain[k + 1] \in Cells
      BY <3>1, <1>2, <1>4
    <3>3. next'[chain'[k]] = Ptr(k + 1 + 1)
      BY <3>1, <3>2, <1>1, <1>4
    <3>4. Ptr(k + 1)' = Ptr(k + 1 + 1)
      BY <2>3, <1>3, <1>5, <1>6, <1>7
    <3> QED BY <3>3, <3>4
  <2> QED BY <2>1, <2>2, <2>3, <1>3, <1>6
<1>9. /\ \A k, l \in DOMAIN chain' : chain'[k] = chain'[l] => k = l
      /\ \A k \in DOMAIN chain' : chain'[k] # m /\ chain'[k] \in used
  BY <1>1, <1>2, DeleteInjective
<1>10. mappings' = Ptr(1)'
  BY <1>1, <1>3, <1>5, <1>7 DEF Linked
<1>11. Linked'
  BY <1>8, <1>9, <1>10 DEF Linked
<1>12. ListInUse'
  BY <1>1, <1>9 DEF ListInUse
<1> QED BY <1>2, <1>6, <1>11, <1>12

-----------------------------------------------------------------------------
(* The structural invariant.                                               *)

(* A step that leaves the cells alone leaves the list as it was.           *)
LEMMA SameList ==
  ASSUME StructInv, UNCHANGED cellVars
  PROVE  /\ Linked' /\ ListInUse' /\ chain' = chain /\ Positions' = Positions
         /\ \A i \in Int : Ptr(i)' = Ptr(i)
BY DEF StructInv, Linked, ListInUse, Ptr, Positions, cellVars

(* A walk begins at the first position.                                    *)
LEMMA WalkStarts ==
  ASSUME StructInv
  PROVE  mappings = Ptr(1) /\ 1 \in Positions
BY DEF StructInv, TypeOK, Linked, Positions

(* A walk that is not at the end goes on to the next position.             *)
LEMMA WalkGoesOn ==
  ASSUME StructInv, NEW i \in Positions, m = Ptr(i), m # Null
  PROVE  /\ i \in DOMAIN chain /\ m = chain[i] /\ m \in Cells
         /\ next[m] = Ptr(i + 1) /\ i + 1 \in Positions
<1>1. chain \in Seq(Cells)
  BY DEF StructInv, TypeOK
<1>2. i \in DOMAIN chain /\ m = chain[i]
  BY DEF Ptr
<1>3. next[m] = Ptr(i + 1)
  BY <1>2 DEF StructInv, Linked
<1>4. i + 1 \in Positions
  BY <1>1, <1>2 DEF Positions
<1> QED BY <1>1, <1>2, <1>3, <1>4

(* Where the walk of tmp gets to, it is still before the cell to unlink.   *)
LEMMA WalkBehind ==
  ASSUME StructInv, NEW i \in DOMAIN chain, NEW j \in DOMAIN chain, j < i,
         m = chain[i], tmp = chain[j]
  PROVE  /\ tmp # Null /\ tmp \in Cells
         /\ next[tmp] = chain[j + 1] /\ j + 1 \in DOMAIN chain
         /\ next[tmp] # m => j + 1 < i
<1>1. chain \in Seq(Cells) /\ Linked
  BY DEF StructInv, TypeOK
<1>2. j + 1 \in DOMAIN chain /\ j + 1 <= i
  BY <1>1
<1>3. next[tmp] = chain[j + 1]
  BY <1>1, <1>2 DEF Linked, Ptr
<1> QED BY <1>1, <1>2, <1>3, HeapAssumption

(* A new timeout is an int, whatever the sum was.                          *)
LEMMA ToIntType ==
  ASSUME now \in 0 .. MaxTime
  PROVE  ToInt(now + Timeout) \in -(IntMax + 1) .. IntMax
BY HeapAssumption DEF ToInt

(* The list is empty at the start.                                         *)
LEMMA StructInit == Init => StructInv
<1> SUFFICES ASSUME Init PROVE StructInv
  OBVIOUS
<1>1. <<>> \in Seq(Cells) /\ DOMAIN <<>> = {} /\ Len(<<>>) = 0
  OBVIOUS
<1>2. TypeOK
  BY <1>1, HeapAssumption, IdleAssumption DEF Init, TypeOK, Pcs, Pointers
<1>3. Linked /\ ListInUse
  BY <1>1 DEF Init, Linked, ListInUse, Ptr
<1>4. Walks
  BY DEF Init, Walks
<1> QED BY <1>2, <1>3, <1>4 DEF StructInv

(* Every step of the walks keeps the list and stays in it.                 *)
LEMMA StructStep == StructInv /\ [Next]_vars => StructInv'
<1> SUFFICES ASSUME StructInv, [Next]_vars PROVE StructInv'
  OBVIOUS
<1> USE HeapAssumption, IdleAssumption
<1>0. TypeOK /\ chain \in Seq(Cells) /\ next \in [Cells -> Pointers] /\ timeout \in [Cells -> -(IntMax + 1) .. IntMax]
  BY DEF StructInv, TypeOK
<1>1. CASE TimeoutStart
  <2>1. UNCHANGED cellVars /\ TypeOK'
    BY <1>0, <1>1 DEF TimeoutStart, cellVars, TypeOK, Pcs
  <2>2. Walks'
    BY <1>1, <2>1, SameList, WalkStarts DEF TimeoutStart, Walks
  <2> QED BY <2>1, <2>2, SameList DEF StructInv
<1>2. CASE TimeoutStep
  <2>1. PICK i \in Positions : m = Ptr(i)
    BY <1>2 DEF TimeoutStep, StructInv, Walks
  <2>2. /\ m \in Cells /\ next[m] = Ptr(i + 1) /\ i + 1 \in Positions /\ i \in Int
    BY <1>2, <2>1, WalkGoesOn DEF TimeoutStep, Positions
  <2>3. UNCHANGED cellVars
    BY <1>2 DEF TimeoutStep
  <2>4. left' \in 0 .. IdleTimeout
    <3> DEFINE t == ToUnsigned(timeout[m])
    <3>1. t \in Nat
      BY <1>0, <2>2 DEF ToUnsigned
    <3>2. t >= clock /\ left' = Least(left, t - clock)
      BY <1>2, <3>1, <1>0 DEF TimeoutStep, TypeOK
    <3> HIDE DEF t
    <3>3. t - clock \in Nat /\ left \in 0 .. IdleTimeout
      BY <3>1, <3>2, <1>0 DEF TypeOK
    <3> QED BY <3>2, <3>3 DEF Least
  <2>5. m' \in Pointers
    BY <1>0, <1>2, <2>2 DEF TimeoutStep
  <2>6. TypeOK'
    BY <1>0, <1>2, <2>4, <2>5 DEF TimeoutStep, cellVars, timeVars, TypeOK
  <2>7. Walks'
    BY <1>2, <2>2, <2>3, SameList DEF TimeoutStep, Walks, Positions
  <2> QED BY <2>3, <2>6, <2>7, SameList DEF StructInv
<1>3. CASE TimeoutExpired
  <2>1. UNCHANGED cellVars /\ TypeOK' /\ Walks'
    BY <1>0, <1>3 DEF TimeoutExpired, Leave, cellVars, TypeOK, Pcs, Pointers, Walks
  <2> QED BY <2>1, SameList DEF StructInv
<1>4. CASE TimeoutDone
  <2>1. UNCHANGED cellVars /\ TypeOK' /\ Walks'
    BY <1>0, <1>4 DEF TimeoutDone, Leave, cellVars, TypeOK, Pcs, Pointers, Walks
  <2> QED BY <2>1, SameList DEF StructInv
<1>5. CASE Quiet
  <2>1. UNCHANGED cellVars /\ TypeOK' /\ Walks'
    BY <1>0, <1>5 DEF Quiet, cellVars, walkVars, timeVars, TypeOK, Pcs, Walks
  <2> QED BY <2>1, SameList DEF StructInv
<1>6. ASSUME NEW p \in Packets, Receive(p) PROVE StructInv'
  <2>1. UNCHANGED cellVars /\ TypeOK'
    BY <1>0, <1>6 DEF Receive, cellVars, timeVars, TypeOK, Pcs
  <2>2. Walks'
    BY <1>6, <2>1, SameList, WalkStarts DEF Receive, Walks
  <2> QED BY <2>1, <2>2, SameList DEF StructInv
<1>7. CASE FindStep
  <2>1. PICK i \in Positions : m = Ptr(i)
    BY <1>7 DEF FindStep, StructInv, Walks
  <2>2. m \in Cells /\ next[m] = Ptr(i + 1) /\ i + 1 \in Positions
    BY <1>7, <2>1, WalkGoesOn DEF FindStep
  <2>3. UNCHANGED cellVars /\ TypeOK'
    BY <1>0, <1>7, <2>2 DEF FindStep, cellVars, timeVars, TypeOK
  <2>4. Walks'
    BY <1>7, <2>2, <2>3, SameList DEF FindStep, Walks, Positions
  <2> QED BY <2>3, <2>4, SameList DEF StructInv
<1>8. CASE Found
  <2>1. PICK i \in Positions : m = Ptr(i)
    BY <1>8 DEF Found, StructInv, Walks
  <2>2. i \in DOMAIN chain /\ m = chain[i]
    BY <1>8, <2>1, WalkGoesOn DEF Found
  <2>3. UNCHANGED cellVars /\ TypeOK'
    BY <1>0, <1>8 DEF Found, Delete, cellVars, timeVars, TypeOK, Pcs
  <2>4. Walks'
    BY <1>8, <2>2, <2>3, SameList DEF Found, Delete, Walks
  <2> QED BY <2>3, <2>4, SameList DEF StructInv
<1>9. ASSUME NEW c \in Cells, Add(c) PROVE StructInv'
  <2>1. Linked' /\ ListInUse' /\ chain' \in Seq(Cells)
    BY <1>9, AddLinked
  <2>2. ToInt(now + Timeout) \in -(IntMax + 1) .. IntMax
    BY <1>0, ToIntType DEF TypeOK
  <2>3. pkt.makes \in Keys \cup {NoKey}
    BY <1>0 DEF TypeOK, Packets, NoPacket
  <2>4. TypeOK'
    BY <1>0, <1>9, <2>1, <2>2, <2>3 DEF Add, Leave, timeVars, TypeOK, Pcs, Pointers
  <2>5. Walks'
    BY <1>9 DEF Add, Walks
  <2> QED BY <2>1, <2>4, <2>5 DEF StructInv
<1>10. CASE NoMemory
  <2>1. UNCHANGED cellVars /\ TypeOK' /\ Walks'
    BY <1>0, <1>10 DEF NoMemory, Leave, cellVars, timeVars, TypeOK, Pcs, Pointers, Walks
  <2> QED BY <2>1, SameList DEF StructInv
<1>11. CASE DeleteHead
  <2>1. Linked' /\ ListInUse' /\ chain' \in Seq(Cells)
    BY <1>11, HeadLinked
  <2>2. mappings' \in Pointers
    BY <1>0, <1>11 DEF DeleteHead, TypeOK, Pointers
  <2>3. TypeOK'
    BY <1>0, <1>11, <2>1, <2>2
    DEF DeleteHead, Return, Leave, timeVars, TypeOK, Pcs, Pointers
  <2>4. mappings' = Ptr(1)' /\ 1 \in Positions'
    BY <2>1 DEF Linked, Positions
  <2>5. Walks'
    BY <1>0, <1>11, <2>4 DEF DeleteHead, Return, Leave, Walks, TypeOK
  <2> QED BY <2>1, <2>3, <2>5 DEF StructInv
<1>12. CASE DeleteOther
  <2>1. PICK i \in DOMAIN chain : m = chain[i]
    BY <1>12 DEF DeleteOther, StructInv, Walks
  <2>2. 1 \in DOMAIN chain /\ mappings = chain[1] /\ 1 < i
    BY <1>0, <1>12, <2>1, WalkStarts DEF DeleteOther, Ptr
  <2>3. UNCHANGED cellVars /\ TypeOK'
    BY <1>0, <1>12, <2>2 DEF DeleteOther, cellVars, timeVars, TypeOK, Pcs
  <2>4. Walks'
    BY <1>12, <2>1, <2>2, <2>3, SameList DEF DeleteOther, Walks
  <2> QED BY <2>3, <2>4, SameList DEF StructInv
<1>13. CASE UnlinkStep
  <2>1. PICK i \in DOMAIN chain, j \in DOMAIN chain : m = chain[i] /\ tmp = chain[j] /\ j < i
    BY <1>13 DEF UnlinkStep, StructInv, Walks
  <2>2. next[tmp] = chain[j + 1] /\ j + 1 \in DOMAIN chain /\ j + 1 < i
    BY <1>13, <2>1, WalkBehind DEF UnlinkStep
  <2>3. UNCHANGED cellVars /\ TypeOK'
    <3>1. next[tmp] \in Pointers /\ next[tmp] # Null
      BY <1>0, <2>2 DEF Pointers
    <3> QED BY <1>0, <1>13, <3>1 DEF UnlinkStep, cellVars, timeVars, TypeOK
  <2>4. Walks'
    BY <1>13, <2>1, <2>2, <2>3, SameList DEF UnlinkStep, Walks
  <2> QED BY <2>3, <2>4, SameList DEF StructInv
<1>14. CASE Unlink
  <2>1. Linked' /\ ListInUse' /\ chain' \in Seq(Cells)
    BY <1>14, UnlinkLinked
  <2>2. m \in Cells /\ next[m] \in Pointers
    BY <1>0, <1>14 DEF Unlink, TypeOK, Pointers
  <2>3. TypeOK'
    <3>1. next' \in [Cells -> Pointers] /\ used' \subseteq Cells
      BY <1>0, <1>14, <2>2 DEF Unlink, Relink, Free, TypeOK, Pointers
    <3> QED BY <1>0, <1>14, <2>1, <3>1
            DEF Unlink, Return, Leave, timeVars, TypeOK, Pcs, Pointers
  <2>4. mappings' = Ptr(1)' /\ 1 \in Positions'
    BY <2>1 DEF Linked, Positions
  <2>5. Walks'
    BY <1>0, <1>14, <2>4 DEF Unlink, Return, Leave, Walks, TypeOK
  <2> QED BY <2>1, <2>3, <2>5 DEF StructInv
<1>15. CASE SweepStart
  <2>1. UNCHANGED cellVars /\ TypeOK'
    BY <1>0, <1>15 DEF SweepStart, cellVars, TypeOK, Pcs
  <2>2. Walks'
    BY <1>15, <2>1, SameList, WalkStarts DEF SweepStart, Walks
  <2> QED BY <2>1, <2>2, SameList DEF StructInv
<1>16. CASE SweepStep
  <2>1. PICK i \in Positions : m = Ptr(i)
    BY <1>16 DEF SweepStep, StructInv, Walks
  <2>2. m \in Cells /\ next[m] = Ptr(i + 1) /\ i + 1 \in Positions
    BY <1>16, <2>1, WalkGoesOn DEF SweepStep
  <2>3. UNCHANGED cellVars /\ TypeOK'
    BY <1>0, <1>16, <2>2 DEF SweepStep, cellVars, timeVars, TypeOK
  <2>4. Walks'
    BY <1>16, <2>2, <2>3, SameList DEF SweepStep, Walks, Positions
  <2> QED BY <2>3, <2>4, SameList DEF StructInv
<1>17. CASE SweepExpired
  <2>1. PICK i \in Positions : m = Ptr(i)
    BY <1>17 DEF SweepExpired, StructInv, Walks
  <2>2. i \in DOMAIN chain /\ m = chain[i]
    BY <1>17, <2>1, WalkGoesOn DEF SweepExpired
  <2>3. UNCHANGED cellVars /\ TypeOK'
    BY <1>0, <1>17 DEF SweepExpired, Delete, cellVars, timeVars, TypeOK, Pcs
  <2>4. Walks'
    BY <1>17, <2>2, <2>3, SameList DEF SweepExpired, Delete, Walks
  <2> QED BY <2>3, <2>4, SameList DEF StructInv
<1>18. CASE SweepDone
  <2>1. UNCHANGED cellVars /\ TypeOK' /\ Walks'
    BY <1>0, <1>18 DEF SweepDone, Leave, cellVars, timeVars, TypeOK, Pcs, Pointers, Walks
  <2> QED BY <2>1, SameList DEF StructInv
<1>19. CASE Tick
  <2>1. UNCHANGED cellVars /\ TypeOK'
    BY <1>0, <1>19 DEF Tick, cellVars, walkVars, TypeOK
  <2>2. Walks
    BY DEF StructInv
  <2>3. pc' = pc /\ m' = m /\ tmp' = tmp /\ chain' = chain
    BY <1>19 DEF Tick, walkVars, cellVars
  <2>4. Walks'
    BY <2>2, <2>3 DEF Walks, Positions, Ptr
  <2> QED BY <2>1, <2>4, SameList DEF StructInv
<1>20. CASE UNCHANGED vars
  BY <1>20 DEF vars, cellVars, walkVars, timeVars, StructInv, TypeOK, Linked, ListInUse,
               Ptr, Positions, Walks
<1> QED BY <1>1, <1>2, <1>3, <1>4, <1>5, <1>6, <1>7, <1>8, <1>9, <1>10, <1>11, <1>12,
           <1>13, <1>14, <1>15, <1>16, <1>17, <1>18, <1>19, <1>20
        DEF Next, Thread, Crashed

-----------------------------------------------------------------------------
(* The theorems about the cells.                                           *)

(* For every number of cells and keys and every width of an int: the cells *)
(* stay a list, and each walk in it.                                       *)
THEOREM StructAlways == Spec => []StructInv
<1> QED BY StructInit, StructStep, PTL DEF Spec

(* The variables of the walks keep their types, whatever a timeout         *)
(* overflows to; mapping_delete is never called with NULL.                 *)
THEOREM TypeCorrect == Spec => []TypeOK
<1>1. StructInv => TypeOK
  BY DEF StructInv
<1> QED BY <1>1, StructAlways, PTL

(* mapping_add and mapping_delete keep ctx->mappings a list without cycle. *)
THEOREM AlwaysLinked == Spec => []Linked
<1>1. StructInv => Linked
  BY DEF StructInv
<1> QED BY <1>1, StructAlways, PTL

(* No walk of mapping_find, mapping_delete, ctx_mappings_remove_expired or *)
(* ctx_timeout_get reads a cell that was freed.                            *)
THEOREM NeverDangling == Spec => []NoDangling
<1>1. StructInv => NoDangling
  <2> SUFFICES ASSUME StructInv PROVE NoDangling
    OBVIOUS
  <2>1. chain \in Seq(Cells) /\ Walks /\ ListInUse
    BY DEF StructInv, TypeOK
  <2>2. pc \in {"timeout", "find", "sweep"} => m = Null \/ InList(m)
    BY <2>1 DEF Walks, Ptr, InList
  <2>3. pc = "delete" => InList(m)
    BY <2>1 DEF Walks, InList
  <2>4. ASSUME pc = "unlink" PROVE InList(m) /\ InList(tmp) /\ next[tmp] # Null
    <3>1. PICK i \in DOMAIN chain, j \in DOMAIN chain :
            m = chain[i] /\ tmp = chain[j] /\ j < i
      BY <2>1, <2>4 DEF Walks
    <3>2. next[tmp] = chain[j + 1] /\ j + 1 \in DOMAIN chain
      BY <3>1, WalkBehind
    <3> QED BY <3>1, <3>2, <2>1, HeapAssumption DEF InList
  <2> QED BY <2>1, <2>2, <2>3, <2>4 DEF NoDangling, ListInUse
<1> QED BY <1>1, StructAlways, PTL

(* A cell leaves the list for free(), or from the head, whence             *)
(* mapping_delete does not give it back.                                   *)
THEOREM OnlyHeadsAreLost == Spec => OnlyHeadIsLost
<1> DEFINE Lost == \A c \in Cells : InList(c) /\ ~ InList(c)' => c \notin used' \/ c = mappings
<1>1. StructInv /\ [Next]_vars => [Lost]_vars
  <2> SUFFICES ASSUME StructInv, Next PROVE Lost
    BY DEF vars
  <2>1. ASSUME NEW c \in Cells, InList(c), ~ InList(c)'
        PROVE  c \notin used' \/ c = mappings
    <3>1. chain' # chain
      BY <2>1 DEF InList
    <3>2. CASE \E d \in Cells : Add(d)
      <4>1. PICK d \in Cells : Add(d)
        BY <3>2
      <4>2. chain \in Seq(Cells) /\ chain' = MappingAdd(chain, d)
        BY <4>1 DEF StructInv, TypeOK, Add
      <4>3. PICK i \in DOMAIN chain : chain[i] = c
        BY <2>1 DEF InList
      <4>4. i + 1 \in DOMAIN chain' /\ chain'[i + 1] = c
        BY <4>2, <4>3, AddCell
      <4> QED BY <4>4, <2>1 DEF InList
    <3>3. CASE DeleteHead
      <4>1. /\ chain \in Seq(Cells) /\ Linked /\ Forget /\ mappings = m
            /\ 1 \in DOMAIN chain /\ m = chain[1]
        BY <3>3, HeadLinked DEF StructInv, TypeOK, DeleteHead
      <4>2. PICK i \in DOMAIN chain : chain[i] = c
        BY <2>1 DEF InList
      <4>3. i = 1
        <5>1. /\ DOMAIN chain' = 1 .. Len(chain) - 1 /\ DOMAIN chain = 1 .. Len(chain)
              /\ \A k \in DOMAIN chain' : chain'[k] = chain[k + 1]
          BY <4>1, ForgetFacts
        <5>2. i # 1 => i - 1 \in DOMAIN chain' /\ chain'[i - 1] = chain[i]
          BY <5>1, <4>1
        <5> QED BY <5>2, <4>2, <2>1 DEF InList
      <4> QED BY <4>1, <4>2, <4>3
    <3>4. CASE Unlink
      <4>1. PICK j \in DOMAIN chain : m = chain[j] /\ chain' = MappingDelete(chain, j)
        BY <3>4, UnlinkLinked
      <4>2. chain \in Seq(Cells) /\ Linked /\ Forget /\ used' = used \ {m}
        BY <3>4 DEF StructInv, TypeOK, Unlink, Free
      <4>3. PICK i \in DOMAIN chain : chain[i] = c
        BY <2>1 DEF InList
      <4>4. i = j
        <5>1. /\ DOMAIN chain' = 1 .. Len(chain) - 1 /\ DOMAIN chain = 1 .. Len(chain)
              /\ Len(chain) \in Nat
              /\ \A k \in DOMAIN chain' : chain'[k] = IF k < j THEN chain[k] ELSE chain[k + 1]
          BY <4>1, <4>2, ForgetFacts
        <5>2. i < j => i \in DOMAIN chain' /\ chain'[i] = chain[i]
          BY <5>1
        <5>3. i > j => i - 1 \in DOMAIN chain' /\ chain'[i - 1] = chain[i]
          BY <5>1
        <5> QED BY <5>1, <5>2, <5>3, <4>3, <2>1 DEF InList
      <4> QED BY <4>1, <4>2, <4>3, <4>4
    <3> QED BY <3>1, <3>2, <3>3, <3>4
            DEF Next, Thread, Crashed, Tick, vars, cellVars, TimeoutStart, TimeoutStep,
                TimeoutExpired, TimeoutDone, Quiet, Receive, FindStep, Found, Delete,
                NoMemory, DeleteOther, UnlinkStep, SweepStart, SweepStep, SweepExpired,
                SweepDone
  <2> QED BY <2>1
<1> QED BY <1>1, StructAlways, PTL DEF Spec, OnlyHeadIsLost

-----------------------------------------------------------------------------
(* What is in the cells, as long as no timeout overflows an int.           *)

TimeFits == MaxTime + Timeout <= IntMax

(* A clock that fits is compared as it is.                                 *)
LEMMA NoWrap ==
  ASSUME StructInv, ListInv
  PROVE  /\ \A i \in DOMAIN chain :
              /\ timeout[chain[i]] \in 0 .. now + Timeout
              /\ ToUnsigned(timeout[chain[i]]) = timeout[chain[i]]
         /\ now \in Nat /\ clock \in Nat /\ Timeout \in Nat
BY HeapAssumption DEF ListInv, ListSorted, StructInv, TypeOK, ToUnsigned

(* The list stays sorted while the cells stay as they are.                 *)
LEMMA SortedStays ==
  ASSUME StructInv, ListSorted, UNCHANGED cellVars, now' \in Nat, now' >= now, clock' <= now'
  PROVE  ListSorted'
<1>1. now \in Nat /\ Timeout \in Nat
  BY HeapAssumption DEF StructInv, TypeOK
<1>2. chain' = chain /\ timeout' = timeout
  BY DEF cellVars
<1> QED BY <1>1, <1>2 DEF ListSorted

(* What is left after a deletion is still sorted.                          *)
LEMMA SortedLess ==
  ASSUME StructInv, ListSorted, NEW i \in DOMAIN chain, chain' = MappingDelete(chain, i),
         UNCHANGED <<timeout, timeVars>>
  PROVE  ListSorted'
<1>1. chain \in Seq(Cells) /\ Len(chain) \in Nat /\ DOMAIN chain = 1 .. Len(chain)
  BY DEF StructInv, TypeOK
<1>2. /\ chain' \in Seq(Cells) /\ Len(chain') = Len(chain) - 1
      /\ \A k \in DOMAIN chain' : chain'[k] = IF k < i THEN chain[k] ELSE chain[k + 1]
  BY <1>1, DeleteFacts
<1>3. ASSUME NEW k \in DOMAIN chain'
      PROVE  \E p \in DOMAIN chain : p = (IF k < i THEN k ELSE k + 1) /\ chain'[k] = chain[p]
  BY <1>1, <1>2
<1>4. timeout' = timeout /\ now' = now /\ clock' = clock
  BY DEF timeVars
<1>5. ASSUME NEW k \in DOMAIN chain', NEW l \in DOMAIN chain', k < l
      PROVE  timeout'[chain'[k]] >= timeout'[chain'[l]]
  <2>1. PICK p \in DOMAIN chain : p = (IF k < i THEN k ELSE k + 1) /\ chain'[k] = chain[p]
    BY <1>3
  <2>2. PICK q \in DOMAIN chain : q = (IF l < i THEN l ELSE l + 1) /\ chain'[l] = chain[q]
    BY <1>3
  <2>3. p < q
    BY <2>1, <2>2, <1>1, <1>2, <1>5
  <2> QED BY <2>1, <2>2, <2>3, <1>4 DEF ListSorted
<1>6. \A k \in DOMAIN chain' : timeout'[chain'[k]] \in 0 .. now' + Timeout
  BY <1>3, <1>4 DEF ListSorted
<1> QED BY <1>4, <1>5, <1>6 DEF ListSorted

(* A new mapping has the longest time to wait.                             *)
LEMMA SortedMore ==
  ASSUME TimeFits, StructInv, ListSorted, NEW c \in Cells, Add(c)
  PROVE  /\ ListSorted' /\ timeout'[c] = now + Timeout
         /\ \A i \in DOMAIN chain : chain[i] # c
<1>1. /\ chain \in Seq(Cells) /\ c \notin used /\ now \in Nat /\ now <= MaxTime
      /\ chain' = MappingAdd(chain, c) /\ UNCHANGED timeVars
      /\ timeout' = [timeout EXCEPT ![c] = ToInt(now + Timeout)]
      /\ timeout \in [Cells -> -(IntMax + 1) .. IntMax]
  BY DEF StructInv, TypeOK, Add
<1>2. IntMax \in Nat /\ Timeout \in Nat /\ MaxTime \in Nat
  BY HeapAssumption
<1>3. ToInt(now + Timeout) = now + Timeout
  BY <1>1, <1>2 DEF ToInt, TimeFits
<1>4. \A i \in DOMAIN chain : chain[i] # c /\ chain[i] \in Cells
  BY <1>1 DEF StructInv, ListInUse
<1>5. timeout'[c] = now + Timeout /\ \A i \in DOMAIN chain : timeout'[chain[i]] = timeout[chain[i]]
  BY <1>1, <1>3, <1>4
<1>6. /\ DOMAIN chain' = 1 .. Len(chain) + 1 /\ DOMAIN chain = 1 .. Len(chain)
      /\ Len(chain) \in Nat
      /\ \A k \in DOMAIN chain' : chain'[k] = IF k = 1 THEN c ELSE chain[k - 1]
  BY <1>1, AddCell
<1>7. now' = now /\ clock' = clock
  BY <1>1 DEF timeVars
<1>8. ASSUME NEW k \in DOMAIN chain'
      PROVE  /\ k = 1 => timeout'[chain'[k]] = now + Timeout
             /\ k # 1 => k - 1 \in DOMAIN chain /\ timeout'[chain'[k]] = timeout[chain[k - 1]]
  BY <1>5, <1>6
<1>9. \A i \in DOMAIN chain : timeout[chain[i]] \in 0 .. now + Timeout
  BY DEF ListSorted
<1>10. ASSUME NEW k \in DOMAIN chain', NEW l \in DOMAIN chain', k < l
       PROVE  timeout'[chain'[k]] >= timeout'[chain'[l]]
  <2>1. l # 1 /\ l - 1 \in DOMAIN chain /\ timeout'[chain'[l]] = timeout[chain[l - 1]]
    BY <1>6, <1>8, <1>10
  <2>2. CASE k = 1
    BY <2>1, <2>2, <1>1, <1>2, <1>8, <1>9
  <2>3. CASE k # 1
    <3>1. k - 1 \in DOMAIN chain /\ k - 1 < l - 1 /\ timeout'[chain'[k]] = timeout[chain[k - 1]]
      BY <2>3, <1>6, <1>8, <1>10
    <3> QED BY <3>1, <2>1 DEF ListSorted
  <2> QED BY <2>2, <2>3
<1>11. \A k \in DOMAIN chain' : timeout'[chain'[k]] \in 0 .. now' + Timeout
  BY <1>1, <1>2, <1>7, <1>8, <1>9
<1>12. ListSorted'
  BY <1>7, <1>10, <1>11 DEF ListSorted
<1> QED BY <1>4, <1>5, <1>12

(* The list is empty at the start.                                         *)
LEMMA ListInit == Init => ListInv
BY HeapAssumption DEF Init, ListInv, ListSorted, WalksSee

(* Every step keeps the order, and every walk has seen what it passed.     *)
LEMMA ListStep ==
  ASSUME TimeFits
  PROVE  StructInv /\ ListInv /\ [Next]_vars => ListInv'
<1> SUFFICES ASSUME StructInv, ListInv, [Next]_vars PROVE ListInv'
  OBVIOUS
<1>0. /\ chain \in Seq(Cells) /\ now \in Nat /\ clock \in Nat /\ clock <= now
      /\ left \in 0 .. IdleTimeout
      /\ \A i \in DOMAIN chain : timeout[chain[i]] \in 0 .. now + Timeout
      /\ \A i \in DOMAIN chain : ToUnsigned(timeout[chain[i]]) = timeout[chain[i]]
      /\ Timeout \in Nat /\ ListSorted /\ WalksSee
  BY NoWrap DEF StructInv, TypeOK, ListInv, ListSorted
<1>1. ASSUME UNCHANGED cellVars, UNCHANGED <<now, clock>> PROVE ListSorted'
  BY <1>0, <1>1, SortedStays
<1>2. CASE TimeoutStart
  <2>1. UNCHANGED cellVars /\ now' = now /\ clock' = now
    BY <1>2 DEF TimeoutStart
  <2>2. ListSorted'
    BY <2>1, <1>0, SortedStays
  <2>3. LeastIsLeft(1)'
    BY <1>2, <2>1 DEF TimeoutStart, LeastIsLeft
  <2>4. WalksSee'
    BY <1>2, <2>1, <2>3, SameList, WalkStarts DEF TimeoutStart, WalksSee
  <2> QED BY <2>2, <2>4 DEF ListInv
<1>3. CASE TimeoutStep
  <2>1. PICK i \in Positions : m = Ptr(i) /\ LeastIsLeft(i)
    BY <1>0, <1>3 DEF TimeoutStep, WalksSee
  <2>2. /\ i \in DOMAIN chain /\ m = chain[i] /\ next[m] = Ptr(i + 1) /\ i + 1 \in Positions
        /\ i \in Nat /\ i >= 1
    BY <1>0, <1>3, <2>1, WalkGoesOn DEF TimeoutStep, Positions
  <2>3. UNCHANGED cellVars /\ UNCHANGED <<now, clock, pc>> /\ m' = next[m]
    BY <1>3 DEF TimeoutStep, timeVars
  <2>4. chain' = chain /\ timeout' = timeout
    BY <2>3 DEF cellVars
  <2>5. left' = Least(left, timeout[m] - clock)
    BY <1>0, <1>3, <2>2 DEF TimeoutStep
  <2>6. timeout[m] \in Int /\ timeout[m] = timeout[chain[i]]
    BY <1>0, <2>2
  <2>7. \A j \in 1 .. i - 1 : j \in DOMAIN chain /\ timeout[chain[j]] \in Int
    BY <1>0, <2>2
  <2>8. LeastIsLeft(i + 1)'
    <3>1. \A j \in 1 .. i : timeout[chain[j]] - clock >= left'
      <4>1. ASSUME NEW j \in 1 .. i PROVE timeout[chain[j]] - clock >= left'
        <5>1. CASE j = i
          BY <5>1, <2>5, <2>6, <1>0 DEF Least
        <5>2. CASE j # i
          <6>1. j \in 1 .. i - 1
            BY <5>2, <2>2
          <6>2. timeout[chain[j]] - clock >= left
            BY <6>1, <2>1 DEF LeastIsLeft
          <6> QED BY <6>1, <6>2, <2>5, <2>6, <2>7, <1>0 DEF Least
        <5> QED BY <5>1, <5>2
      <4> QED BY <4>1
    <3>2. left' = IdleTimeout \/ \E j \in 1 .. i : left' = timeout[chain[j]] - clock
      <4>1. left' = left \/ left' = timeout[chain[i]] - clock
        BY <2>5, <2>6 DEF Least
      <4>2. left = IdleTimeout \/ \E j \in 1 .. i - 1 : left = timeout[chain[j]] - clock
        BY <2>1 DEF LeastIsLeft
      <4>3. i \in 1 .. i /\ \A j \in 1 .. i - 1 : j \in 1 .. i
        BY <2>2
      <4> QED BY <4>1, <4>2, <4>3
    <3>3. i + 1 - 1 = i
      BY <2>2
    <3> QED BY <3>1, <3>2, <3>3, <2>2, <2>3, <2>4 DEF LeastIsLeft
  <2>9. m' = Ptr(i + 1)' /\ i + 1 \in Positions'
    BY <2>2, <2>3, <2>4, SameList DEF Ptr, Positions
  <2>10. WalksSee'
    BY <1>3, <2>3, <2>8, <2>9 DEF TimeoutStep, WalksSee
  <2> QED BY <2>3, <2>10, <1>1 DEF ListInv
<1>4. CASE TimeoutExpired \/ TimeoutDone \/ Quiet \/ NoMemory \/ SweepDone
  <2>1. UNCHANGED cellVars /\ UNCHANGED <<now, clock>> /\ pc' \in {"select", "handled", "crashed", "loop"}
    BY <1>4 DEF TimeoutExpired, TimeoutDone, Quiet, NoMemory, SweepDone, timeVars
  <2>2. WalksSee'
    BY <2>1 DEF WalksSee
  <2> QED BY <2>1, <2>2, <1>1 DEF ListInv
<1>5. ASSUME NEW p \in Packets, Receive(p) PROVE ListInv'
  <2>1. /\ UNCHANGED cellVars /\ UNCHANGED <<now, clock>> /\ pc' = "find" /\ pkt' = p
        /\ m' = mappings
    BY <1>5 DEF Receive, timeVars
  <2>2. NoneIsAnswered(1)'
    BY DEF NoneIsAnswered
  <2>3. WalksSee'
    BY <2>1, <2>2, SameList, WalkStarts DEF WalksSee
  <2> QED BY <2>1, <2>3, <1>1 DEF ListInv
<1>6. CASE FindStep
  <2>1. PICK i \in Positions : m = Ptr(i) /\ NoneIsAnswered(i)
    BY <1>0, <1>6 DEF FindStep, WalksSee
  <2>2. /\ i \in DOMAIN chain /\ m = chain[i] /\ next[m] = Ptr(i + 1) /\ i + 1 \in Positions
        /\ i \in Nat /\ i >= 1
    BY <1>0, <1>6, <2>1, WalkGoesOn DEF FindStep, Positions
  <2>3. /\ UNCHANGED cellVars /\ UNCHANGED <<now, clock, pkt>> /\ pc' = "find" /\ pc = "find"
        /\ m' = next[m] /\ key[m] \notin pkt.seeks
    BY <1>6 DEF FindStep, timeVars
  <2>4. chain' = chain /\ key' = key
    BY <2>3 DEF cellVars
  <2>5. NoneIsAnswered(i + 1)'
    <3>1. \A j \in 1 .. i : key[chain[j]] \notin pkt.seeks
      BY <2>1, <2>2, <2>3 DEF NoneIsAnswered
    <3>2. i + 1 - 1 = i
      BY <2>2
    <3> QED BY <3>1, <3>2, <2>2, <2>3, <2>4 DEF NoneIsAnswered
  <2>6. m' = Ptr(i + 1)' /\ i + 1 \in Positions'
    BY <2>2, <2>3, <2>4, SameList DEF Ptr, Positions
  <2>7. WalksSee'
    BY <1>0, <2>3, <2>5, <2>6 DEF WalksSee
  <2> QED BY <2>3, <2>7, <1>1 DEF ListInv
<1>7. CASE Found
  <2>1. PICK i \in Positions : m = Ptr(i) /\ NoneIsAnswered(i)
    BY <1>0, <1>7 DEF Found, WalksSee
  <2>2. i \in DOMAIN chain /\ m = chain[i]
    BY <1>7, <2>1, WalkGoesOn DEF Found
  <2>3. /\ UNCHANGED cellVars /\ UNCHANGED <<now, clock, pkt, m>> /\ pc' = "delete"
        /\ back' = "handled" /\ key[m] \in pkt.seeks /\ pkt \in Packets
    BY <1>0, <1>7 DEF Found, Delete, timeVars, WalksSee
  <2>4. chain' = chain /\ key' = key
    BY <2>3 DEF cellVars
  <2>5. NoneIsAnswered(i)'
    BY <2>1, <2>3, <2>4 DEF NoneIsAnswered
  <2>6. WalksSee'
    BY <2>2, <2>3, <2>4, <2>5 DEF WalksSee
  <2> QED BY <2>3, <2>6, <1>1 DEF ListInv
<1>8. ASSUME NEW c \in Cells, Add(c) PROVE ListInv'
  <2>1. ListSorted'
    BY <1>0, <1>8, SortedMore
  <2>2. WalksSee'
    BY <1>8 DEF Add, WalksSee
  <2> QED BY <2>1, <2>2 DEF ListInv
<1>9. CASE DeleteHead \/ Unlink
  <2>1. PICK i \in DOMAIN chain : m = chain[i] /\ chain' = MappingDelete(chain, i)
    BY <1>9, HeadLinked, UnlinkLinked
  <2>2. UNCHANGED <<timeout, timeVars>> /\ Return
    BY <1>9 DEF DeleteHead, Unlink
  <2>3. ListSorted'
    BY <1>0, <2>1, <2>2, SortedLess
  <2>4. mappings' = Ptr(1)' /\ 1 \in Positions' /\ NoneIsExpired(1)'
    <3>1. Linked' /\ chain' \in Seq(Cells)
      BY <1>9, HeadLinked, UnlinkLinked
    <3> QED BY <3>1 DEF Linked, Positions, NoneIsExpired
  <2>5. back \in {"handled", "sweep"}
    BY DEF StructInv, TypeOK
  <2>6. WalksSee'
    BY <2>2, <2>4, <2>5 DEF Return, Leave, WalksSee
  <2> QED BY <2>3, <2>6 DEF ListInv
<1>10. CASE DeleteOther \/ UnlinkStep
  <2>1. /\ UNCHANGED cellVars /\ UNCHANGED <<now, clock, pkt, m, back>>
        /\ pc \in {"delete", "unlink"} /\ pc' = "unlink"
    BY <1>10 DEF DeleteOther, UnlinkStep, timeVars
  <2>2. chain' = chain /\ key' = key /\ timeout' = timeout
    BY <2>1 DEF cellVars
  <2>3. WalksSee'
    BY <1>0, <2>1, <2>2 DEF WalksSee, NoneIsAnswered, NoneIsExpired
  <2> QED BY <2>1, <2>3, <1>1 DEF ListInv
<1>11. CASE SweepStart
  <2>1. UNCHANGED cellVars /\ now' = now /\ clock' = now /\ pc' = "sweep" /\ m' = mappings
    BY <1>11 DEF SweepStart
  <2>2. ListSorted'
    BY <2>1, <1>0, SortedStays
  <2>3. NoneIsExpired(1)'
    BY DEF NoneIsExpired
  <2>4. WalksSee'
    BY <2>1, <2>3, SameList, WalkStarts DEF WalksSee
  <2> QED BY <2>2, <2>4 DEF ListInv
<1>12. CASE SweepStep
  <2>1. PICK i \in Positions : m = Ptr(i) /\ NoneIsExpired(i)
    BY <1>0, <1>12 DEF SweepStep, WalksSee
  <2>2. /\ i \in DOMAIN chain /\ m = chain[i] /\ next[m] = Ptr(i + 1) /\ i + 1 \in Positions
        /\ i \in Nat /\ i >= 1
    BY <1>0, <1>12, <2>1, WalkGoesOn DEF SweepStep, Positions
  <2>3. /\ UNCHANGED cellVars /\ UNCHANGED <<now, clock>> /\ pc' = "sweep"
        /\ m' = next[m] /\ timeout[m] > clock
    BY <1>12 DEF SweepStep, timeVars
  <2>4. chain' = chain /\ timeout' = timeout
    BY <2>3 DEF cellVars
  <2>5. NoneIsExpired(i + 1)'
    <3>1. \A j \in 1 .. i : timeout[chain[j]] > clock
      BY <2>1, <2>2, <2>3 DEF NoneIsExpired
    <3>2. i + 1 - 1 = i
      BY <2>2
    <3> QED BY <3>1, <3>2, <2>2, <2>3, <2>4 DEF NoneIsExpired
  <2>6. m' = Ptr(i + 1)' /\ i + 1 \in Positions'
    BY <2>2, <2>3, <2>4, SameList DEF Ptr, Positions
  <2>7. WalksSee'
    BY <2>3, <2>5, <2>6 DEF WalksSee
  <2> QED BY <2>3, <2>7, <1>1 DEF ListInv
<1>13. CASE SweepExpired
  <2>1. PICK i \in Positions : m = Ptr(i) /\ NoneIsExpired(i)
    BY <1>0, <1>13 DEF SweepExpired, WalksSee
  <2>2. i \in DOMAIN chain /\ m = chain[i]
    BY <1>13, <2>1, WalkGoesOn DEF SweepExpired
  <2>3. /\ UNCHANGED cellVars /\ UNCHANGED <<now, clock, m>> /\ pc' = "delete"
        /\ back' = "sweep" /\ timeout[m] <= clock
    BY <1>13 DEF SweepExpired, Delete, timeVars
  <2>4. chain' = chain /\ timeout' = timeout
    BY <2>3 DEF cellVars
  <2>5. NoneIsExpired(i)'
    BY <2>1, <2>3, <2>4 DEF NoneIsExpired
  <2>6. WalksSee'
    BY <2>2, <2>3, <2>4, <2>5 DEF WalksSee
  <2> QED BY <2>3, <2>6, <1>1 DEF ListInv
<1>14. CASE Tick
  <2>1. UNCHANGED cellVars /\ now' = now + 1 /\ UNCHANGED <<pc, clock, pkt, m, back, left>>
    BY <1>14 DEF Tick, walkVars
  <2>2. ListSorted'
    BY <1>0, <2>1, SortedStays
  <2>3. chain' = chain /\ key' = key /\ timeout' = timeout
    BY <2>1 DEF cellVars
  <2>4. WalksSee'
    BY <1>0, <2>1, <2>3
       DEF WalksSee, NoneIsAnswered, NoneIsExpired, LeastIsLeft, Positions, Ptr
  <2> QED BY <2>2, <2>4 DEF ListInv
<1>15. CASE UNCHANGED vars
  BY <1>0, <1>15 DEF vars, cellVars, walkVars, timeVars, ListInv, ListSorted, WalksSee,
     NoneIsAnswered, NoneIsExpired, LeastIsLeft, Positions, Ptr
<1> QED BY <1>2, <1>3, <1>4, <1>5, <1>6, <1>7, <1>8, <1>9, <1>10, <1>11, <1>12, <1>13,
           <1>14, <1>15 DEF Next, Thread, Crashed

(* While the time of day fits in an int, the cells hold what PendingTable  *)
(* says of its list.                                                       *)
THEOREM ListAlways == ASSUME TimeFits PROVE Spec => []ListInv
<1>1. StructInv /\ ListInv /\ [Next]_vars => ListInv'
  BY ListStep
<1> QED BY <1>1, ListInit, StructAlways, PTL DEF Spec

-----------------------------------------------------------------------------
(* The refinement.                                                         *)

Entry == [key : Keys \cup {NoKey}, timeout : Int]

(* The contents of the cells along the pointers are a list as long as the  *)
(* chain, with the key and the timeout of each cell.                       *)
LEMMA ContentsType ==
  ASSUME StructInv
  PROVE  /\ Contents \in Seq(Entry) /\ Len(Contents) = Len(chain)
         /\ DOMAIN Contents = DOMAIN chain
         /\ \A i \in DOMAIN chain : /\ Contents[i].key = key[chain[i]]
                                    /\ Contents[i].timeout = timeout[chain[i]]
<1>1. /\ chain \in Seq(Cells) /\ key \in [Cells -> Keys \cup {NoKey}]
      /\ timeout \in [Cells -> -(IntMax + 1) .. IntMax] /\ IntMax \in Nat
  BY HeapAssumption DEF StructInv, TypeOK
<1>2. \A i \in DOMAIN chain :
        [key |-> key[chain[i]], timeout |-> timeout[chain[i]]] \in Entry
  BY <1>1 DEF Entry
<1>3. DOMAIN chain = 1 .. Len(chain) /\ Len(chain) \in Nat
  BY <1>1
<1> QED BY <1>2, <1>3 DEF Contents

(* Adding a cell adds its contents at the head.                            *)
LEMMA ContentsAdd ==
  ASSUME TimeFits, StructInv, StructInv', ListInv, NEW c \in Cells, Add(c)
  PROVE  Contents' = MappingAdd(Contents, [key |-> pkt.makes, timeout |-> now + Timeout])
<1> DEFINE new == [key |-> pkt.makes, timeout |-> now + Timeout]
<1>1. /\ chain \in Seq(Cells) /\ chain' = MappingAdd(chain, c)
      /\ key \in [Cells -> Keys \cup {NoKey}] /\ key' = [key EXCEPT ![c] = pkt.makes]
      /\ timeout' = [timeout EXCEPT ![c] = ToInt(now + Timeout)]
      /\ timeout \in [Cells -> -(IntMax + 1) .. IntMax]
  BY DEF StructInv, TypeOK, Add
<1>2. timeout'[c] = now + Timeout /\ \A i \in DOMAIN chain : chain[i] # c
  BY SortedMore DEF ListInv
<1>3. /\ Len(chain') = Len(chain) + 1 /\ Len(chain) \in Nat
      /\ DOMAIN chain' = 1 .. Len(chain) + 1 /\ DOMAIN chain = 1 .. Len(chain)
      /\ \A k \in DOMAIN chain' : chain'[k] = IF k = 1 THEN c ELSE chain[k - 1]
  BY <1>1, AddCell
<1>4. new \in Entry
  <2>1. now + Timeout \in Int
    BY HeapAssumption DEF StructInv, TypeOK
  <2>2. pkt.makes \in Keys \cup {NoKey}
    BY DEF StructInv, TypeOK, Packets, NoPacket
  <2> QED BY <2>1, <2>2 DEF Entry
<1> HIDE DEF new
<1>5. /\ MappingAdd(Contents, new) \in Seq(Entry)
      /\ Len(MappingAdd(Contents, new)) = Len(Contents) + 1
      /\ \A k \in DOMAIN MappingAdd(Contents, new) :
            MappingAdd(Contents, new)[k] = IF k = 1 THEN new ELSE Contents[k - 1]
  <2>1. Contents \in Seq(Entry)
    BY ContentsType
  <2> QED BY <2>1, <1>4, ConsFacts DEF MappingAdd
<1>6. Contents' \in Seq(Entry) /\ Len(Contents') = Len(chain) + 1
  <2>1. /\ chain' \in Seq(Cells) /\ key' \in [Cells -> Keys \cup {NoKey}]
        /\ timeout' \in [Cells -> -(IntMax + 1) .. IntMax] /\ IntMax \in Nat
    BY HeapAssumption DEF StructInv, TypeOK
  <2>2. \A k \in 1 .. Len(chain) + 1 :
          [key |-> key'[chain'[k]], timeout |-> timeout'[chain'[k]]] \in Entry
    BY <2>1, <1>3 DEF Entry
  <2> QED BY <2>2, <1>3 DEF Contents
<1>7. ASSUME NEW k \in 1 .. Len(chain) + 1
      PROVE  Contents'[k] = MappingAdd(Contents, new)[k]
  <2>1. Contents'[k] = [key |-> key'[chain'[k]], timeout |-> timeout'[chain'[k]]]
    BY <1>3 DEF Contents
  <2>2. CASE k = 1
    <3>1. chain'[k] = c /\ key'[c] = pkt.makes
      BY <2>2, <1>1, <1>3
    <3>2. MappingAdd(Contents, new)[k] = new
      <4>1. DOMAIN MappingAdd(Contents, new) = 1 .. Len(Contents) + 1 /\ Len(Contents) = Len(chain)
        BY <1>5, ContentsType
      <4> QED BY <4>1, <2>2, <1>5
    <3> QED BY <3>1, <3>2, <2>1, <1>2 DEF new
  <2>3. CASE k # 1
    <3>1. k - 1 \in DOMAIN chain /\ chain'[k] = chain[k - 1] /\ chain[k - 1] \in Cells
      BY <2>3, <1>1, <1>3
    <3>2. Contents[k - 1] = [key |-> key[chain[k - 1]], timeout |-> timeout[chain[k - 1]]]
      BY <3>1 DEF Contents
    <3>3. MappingAdd(Contents, new)[k] = Contents[k - 1]
      BY <2>3, <1>3, <1>5, ContentsType
    <3>4. key'[chain[k - 1]] = key[chain[k - 1]] /\ timeout'[chain[k - 1]] = timeout[chain[k - 1]]
      BY <3>1, <1>1, <1>2
    <3> QED BY <3>1, <3>2, <3>3, <3>4, <2>1
  <2> QED BY <2>2, <2>3
<1>8. Contents' = MappingAdd(Contents, new)
  BY <1>3, <1>5, <1>6, <1>7, ContentsType, SeqEqual
<1> QED BY <1>8 DEF new

(* Unlinking a cell takes its contents out.                                *)
LEMMA ContentsDelete ==
  ASSUME StructInv, StructInv', NEW i \in DOMAIN chain, chain' = MappingDelete(chain, i),
         UNCHANGED <<key, timeout>>
  PROVE  Contents' = MappingDelete(Contents, i)
<1>1. chain \in Seq(Cells) /\ Len(chain) \in Nat /\ DOMAIN chain = 1 .. Len(chain)
  BY DEF StructInv, TypeOK
<1>2. /\ chain' \in Seq(Cells) /\ Len(chain') = Len(chain) - 1
      /\ \A k \in DOMAIN chain' : chain'[k] = IF k < i THEN chain[k] ELSE chain[k + 1]
  BY <1>1, DeleteFacts
<1>3. /\ MappingDelete(Contents, i) \in Seq(Entry)
      /\ Len(MappingDelete(Contents, i)) = Len(Contents) - 1
      /\ \A k \in DOMAIN MappingDelete(Contents, i) :
            MappingDelete(Contents, i)[k] = IF k < i THEN Contents[k] ELSE Contents[k + 1]
  <2>1. Contents \in Seq(Entry) /\ i \in DOMAIN Contents
    BY ContentsType
  <2> QED BY <2>1, DeleteFacts
<1>4. Contents' \in Seq(Entry) /\ Len(Contents') = Len(chain) - 1
  <2>1. /\ chain' \in Seq(Cells) /\ key' \in [Cells -> Keys \cup {NoKey}]
        /\ timeout' \in [Cells -> -(IntMax + 1) .. IntMax] /\ IntMax \in Nat
    BY HeapAssumption DEF StructInv, TypeOK
  <2>2. DOMAIN chain' = 1 .. Len(chain) - 1 /\ Len(chain) - 1 \in Nat
    BY <1>1, <1>2
  <2>3. \A k \in 1 .. Len(chain) - 1 :
          [key |-> key'[chain'[k]], timeout |-> timeout'[chain'[k]]] \in Entry
    BY <2>1, <2>2 DEF Entry
  <2> QED BY <2>2, <2>3 DEF Contents
<1>5. ASSUME NEW k \in 1 .. Len(chain) - 1
      PROVE  Contents'[k] = MappingDelete(Contents, i)[k]
  <2>1. k \in DOMAIN chain' /\ k \in DOMAIN chain /\ k + 1 \in DOMAIN chain
    BY <1>1, <1>2
  <2>2. Contents'[k] = [key |-> key[chain'[k]], timeout |-> timeout[chain'[k]]]
    BY <2>1 DEF Contents
  <2>3. /\ Contents[k] = [key |-> key[chain[k]], timeout |-> timeout[chain[k]]]
        /\ Contents[k + 1] = [key |-> key[chain[k + 1]], timeout |-> timeout[chain[k + 1]]]
    BY <2>1 DEF Contents
  <2>4. MappingDelete(Contents, i)[k] = IF k < i THEN Contents[k] ELSE Contents[k + 1]
    BY <2>1, <1>1, <1>3, ContentsType
  <2> QED BY <2>1, <2>2, <2>3, <2>4, <1>2
<1> QED BY <1>1, <1>3, <1>4, <1>5, ContentsType, SeqEqual

(* The instance computes with the same list operations.                    *)
LEMMA SameOperations ==
  /\ \A t, x : Table!MappingAdd(t, x) = MappingAdd(t, x)
  /\ \A t, i : Table!MappingDelete(t, i) = MappingDelete(t, i)
  /\ \A t, x : Table!TimeoutGet(t, x) = TimeoutGet(t, x)
  /\ \A x, t : Table!Expired(x, t) <=> Expired(x, t)
BY DEF Table!MappingAdd, MappingAdd, Table!MappingDelete, MappingDelete, Table!RemoveAt,
       RemoveAt, Table!TimeoutGet, TimeoutGet, Table!Remaining, Remaining, Table!Expired,
       Expired

(* What the walk of ctx_timeout_get comes to is what the list says.        *)
LEMMA TimeoutIs ==
  ASSUME StructInv, ListInv, TimeoutDone \/ TimeoutExpired
  PROVE  wait' = TimeoutGet(Contents, clock)
<1>1. /\ \A i \in DOMAIN Contents : Contents[i].timeout = timeout[chain[i]]
      /\ \A i \in DOMAIN Contents : Contents[i].timeout \in Nat
      /\ Contents \in Seq(Entry) /\ DOMAIN Contents = DOMAIN chain
      /\ DOMAIN chain = 1 .. Len(chain) /\ Len(chain) \in Nat
  <2>1. /\ Contents \in Seq(Entry) /\ DOMAIN Contents = DOMAIN chain
        /\ \A i \in DOMAIN chain : Contents[i].timeout = timeout[chain[i]]
    BY ContentsType
  <2>2. \A i \in DOMAIN chain : timeout[chain[i]] \in 0 .. now + Timeout
    BY NoWrap
  <2>3. DOMAIN chain = 1 .. Len(chain) /\ Len(chain) \in Nat
    BY DEF StructInv, TypeOK
  <2> QED BY <2>1, <2>2, <2>3
<1>2. clock \in Nat /\ left \in 0 .. IdleTimeout /\ IdleTimeout \in Nat
  BY NoWrap, IdleAssumption DEF StructInv, TypeOK
<1>3. PICK i \in Positions : m = Ptr(i) /\ LeastIsLeft(i)
  BY DEF ListInv, WalksSee, TimeoutDone, TimeoutExpired
<1>4. CASE TimeoutExpired
  <2>1. i \in DOMAIN chain /\ m = chain[i]
    BY <1>3, <1>4, WalkGoesOn DEF TimeoutExpired
  <2>2. Contents[i].timeout - clock < 0
    <3>1. ToUnsigned(timeout[m]) = timeout[m]
      BY <2>1, NoWrap
    <3> QED BY <3>1, <2>1, <1>1, <1>2, <1>4 DEF TimeoutExpired
  <2>3. Sorted(Contents)
    BY <1>1 DEF Sorted, ListInv, ListSorted
  <2>4. /\ Contents \in Seq(Entry) /\ clock \in Nat
        /\ \A j \in DOMAIN Contents : Contents[j].timeout \in Int
    BY <1>1, <1>2
  <2>5. /\ TimeoutGet(Contents, clock) \in Nat /\ TimeoutGet(Contents, clock) >= 1
        /\ \A j \in DOMAIN Contents :
              \/ TimeoutGet(Contents, clock) <= Contents[j].timeout - clock
              \/ TimeoutGet(Contents, clock) = 1
    BY <2>3, <2>4, TimeoutGetFacts
  <2>6. TimeoutGet(Contents, clock) = 1
    <3> DEFINE g == TimeoutGet(Contents, clock)
    <3>1. g \in Nat /\ g >= 1 /\ (g <= Contents[i].timeout - clock \/ g = 1)
      BY <2>1, <2>5, <1>1
    <3>2. Contents[i].timeout \in Int /\ clock \in Nat
      BY <2>1, <2>4, <1>1
    <3> HIDE DEF g
    <3>3. g = 1
      BY <3>1, <3>2, <2>2
    <3> QED BY <3>3 DEF g
  <2>7. wait' = 1
    BY <1>4 DEF TimeoutExpired
  <2> QED BY <2>6, <2>7
<1>5. CASE TimeoutDone
  <2>1. i = Len(chain) + 1
    <3>1. chain \in Seq(Cells) /\ i \in 1 .. Len(chain) + 1 /\ Ptr(i) = Null
      BY <1>3, <1>5 DEF TimeoutDone, StructInv, TypeOK, Positions
    <3>2. i \notin DOMAIN chain
      BY <3>1, PtrType
    <3> QED BY <3>1, <3>2
  <2>2. \A j \in DOMAIN chain : timeout[chain[j]] - clock >= left
    BY <2>1, <1>1, <1>3 DEF LeastIsLeft
  <2>3. left = IdleTimeout \/ \E j \in DOMAIN chain : left = timeout[chain[j]] - clock
    BY <2>1, <1>1, <1>3 DEF LeastIsLeft
  <2>4. left \in Remaining(Contents, clock)
    BY <2>3, <1>1 DEF Remaining
  <2>5. \A y \in Remaining(Contents, clock) : y \in Int /\ left <= y
    BY <2>2, <1>1, <1>2 DEF Remaining
  <2>6. TimeoutGet(Contents, clock) = IF left <= 0 THEN 1 ELSE left
    BY <2>4, <2>5, ShortestIs DEF TimeoutGet, Shortest
  <2> QED BY <2>6, <1>2, <1>5 DEF TimeoutDone
<1> QED BY <1>4, <1>5

(* Every step of the thread and of the clock is a step of the list, or     *)
(* none.                                                                   *)
LEMMA TableStep ==
  ASSUME TimeFits, StructInv, StructInv', ListInv, [Next]_vars
  PROVE  [Table!Next]_(Table!vars)
<1>0. /\ back \in {"handled", "sweep"} /\ chain \in Seq(Cells) /\ ListInv
      /\ DOMAIN Contents = DOMAIN chain /\ DOMAIN chain = 1 .. Len(chain)
      /\ \A i \in DOMAIN chain : /\ Contents[i].key = key[chain[i]]
                                 /\ Contents[i].timeout = timeout[chain[i]]
  BY ContentsType DEF StructInv, TypeOK
<1>1. ASSUME UNCHANGED cellVars PROVE Contents' = Contents
  BY <1>1 DEF cellVars, Contents
<1>2. CASE TimeoutStart
  <2>1. Contents' = Contents
    BY <1>1, <1>2 DEF TimeoutStart
  <2>2. Table!ReadClock
    BY <2>1, <1>2 DEF TimeoutStart, Table!ReadClock, Phase
  <2> QED BY <2>2 DEF Table!Next
<1>3. CASE TimeoutDone \/ TimeoutExpired
  <2>1. Contents' = Contents
    BY <1>1, <1>3 DEF TimeoutDone, TimeoutExpired
  <2>2. wait' = Table!TimeoutGet(Contents, clock)
    BY <1>0, <1>3, TimeoutIs, SameOperations
  <2>3. Table!Select
    BY <2>1, <2>2, <1>3 DEF TimeoutDone, TimeoutExpired, Table!Select, Phase
  <2> QED BY <2>3 DEF Table!Next
<1>4. CASE Quiet
  <2>1. Contents' = Contents
    BY <1>1, <1>4 DEF Quiet
  <2>2. Table!Quiet
    BY <2>1, <1>4 DEF Quiet, timeVars, Table!Quiet, Phase
  <2> QED BY <2>2 DEF Table!Next
<1>5. CASE SweepStart
  <2>1. Contents' = Contents
    BY <1>1, <1>5 DEF SweepStart
  <2>2. Table!SweepStart
    BY <2>1, <1>5 DEF SweepStart, Table!SweepStart, Phase
  <2> QED BY <2>2 DEF Table!Next
<1>6. CASE Tick
  <2>1. Contents' = Contents
    BY <1>1, <1>6 DEF Tick
  <2>2. Table!Tick
    BY <2>1, <1>6 DEF Tick, walkVars, Table!Tick, Phase
  <2> QED BY <2>2 DEF Table!Next
<1>7. CASE SweepDone
  <2>1. Contents' = Contents
    BY <1>1, <1>7 DEF SweepDone
  <2>2. PICK i \in Positions : m = Ptr(i) /\ NoneIsExpired(i)
    BY <1>0, <1>7 DEF SweepDone, ListInv, WalksSee
  <2>3. i = Len(chain) + 1
    BY <1>0, <1>7, <2>2, PtrType DEF SweepDone, Positions
  <2>4. \A j \in DOMAIN chain : timeout[chain[j]] > clock
    BY <2>2, <2>3, <1>0 DEF NoneIsExpired
  <2>5. \A j \in DOMAIN Contents : ~ Table!Expired(Contents[j], clock)
    <3>1. ASSUME NEW j \in DOMAIN chain PROVE timeout[chain[j]] \in Nat /\ clock \in Nat
      BY NoWrap
    <3> QED BY <3>1, <2>4, <1>0, SameOperations DEF Expired
  <2>6. Table!SweepDone
    BY <2>1, <2>5, <1>7 DEF SweepDone, timeVars, Table!SweepDone, Phase
  <2> QED BY <2>6 DEF Table!Next
<1>8. ASSUME NEW c \in Cells, Add(c) PROVE Table!Next
  <2>1. Contents' = MappingAdd(Contents, [key |-> pkt.makes, timeout |-> now + Timeout])
    BY <1>0, <1>8, ContentsAdd
  <2>2. pkt \in Packets /\ \E i \in Positions : m = Ptr(i) /\ NoneIsAnswered(i)
    BY <1>0, <1>8 DEF Add, ListInv, WalksSee
  <2>3. PICK i \in Positions : m = Ptr(i) /\ NoneIsAnswered(i)
    BY <2>2
  <2>4. i = Len(chain) + 1
    BY <1>0, <1>8, <2>3, PtrType DEF Add, Positions
  <2>5. \A j \in DOMAIN Contents : Contents[j].key \notin pkt.seeks
    BY <2>3, <2>4, <1>0 DEF NoneIsAnswered
  <2>6. Table!Add(pkt)
    BY <2>1, <2>5, <1>8, SameOperations DEF Add, timeVars, Table!Add, Phase
  <2> QED BY <2>2, <2>6 DEF Table!Next, Packets, Table!Packets
<1>9. CASE DeleteHead \/ Unlink
  <2>1. PICK i \in DOMAIN chain : m = chain[i] /\ chain' = MappingDelete(chain, i)
    BY <1>9, HeadLinked, UnlinkLinked
  <2>2. /\ UNCHANGED <<key, timeout, timeVars>> /\ Return /\ pc \in {"delete", "unlink"}
    BY <1>9 DEF DeleteHead, Unlink
  <2>3. Contents' = Table!MappingDelete(Contents, i)
    BY <2>1, <2>2, ContentsDelete, SameOperations
  <2>4. \A j, k \in DOMAIN chain : chain[j] = chain[k] => j = k
    BY DEF StructInv, Linked
  <2>5. CASE back = "handled"
    <3>1. PICK k \in DOMAIN chain : m = chain[k] /\ key[m] \in pkt.seeks /\ NoneIsAnswered(k)
      BY <1>0, <2>2, <2>5 DEF ListInv, WalksSee
    <3>2. k = i /\ pkt \in Packets
      BY <1>0, <2>1, <2>2, <2>4, <2>5, <3>1 DEF ListInv, WalksSee
    <3>3. Table!IsAnswered(pkt, i)
      BY <3>1, <3>2, <2>1, <1>0 DEF Table!IsAnswered, NoneIsAnswered
    <3>4. Phase = "select" /\ Phase' = "handled"
      BY <2>2, <2>5 DEF Phase, Return
    <3>5. Table!Answer(pkt, i)
      BY <3>3, <3>4, <2>2, <2>3 DEF Table!Answer, timeVars
    <3> QED BY <3>2, <3>5, <2>1, <1>0 DEF Table!Next, Packets, Table!Packets
  <2>6. CASE back = "sweep"
    <3>1. PICK k \in DOMAIN chain : m = chain[k] /\ timeout[m] <= clock /\ NoneIsExpired(k)
      BY <1>0, <2>2, <2>6 DEF ListInv, WalksSee
    <3>2. k = i
      BY <2>1, <2>4, <3>1
    <3>3. Table!FirstExpired(Contents, clock, i)
      <4>1. Expired(Contents[i], clock)
        BY <3>1, <3>2, <2>1, <1>0 DEF Expired
      <4>2. ASSUME NEW j \in 1 .. i - 1 PROVE ~ Expired(Contents[j], clock)
        <5>1. j \in DOMAIN chain /\ timeout[chain[j]] > clock
          BY <3>1, <3>2, <2>1, <1>0 DEF NoneIsExpired
        <5>2. timeout[chain[j]] \in Nat /\ clock \in Nat
          BY <5>1, NoWrap
        <5> QED BY <5>1, <5>2, <1>0 DEF Expired
      <4> QED BY <4>1, <4>2, <2>1, <1>0, SameOperations DEF Table!FirstExpired
    <3>4. Phase = "sweep" /\ Phase' = "sweep"
      BY <2>2, <2>6 DEF Phase, Return
    <3>5. Table!SweepOne(i)
      BY <3>3, <3>4, <2>2, <2>3 DEF Table!SweepOne, timeVars
    <3> QED BY <3>5, <2>1, <1>0 DEF Table!Next
  <2> QED BY <2>5, <2>6, <1>0
<1>10. CASE \/ TimeoutStep \/ (\E p \in Packets : Receive(p)) \/ FindStep \/ Found \/ NoMemory
            \/ DeleteOther \/ UnlinkStep \/ SweepStep \/ SweepExpired
  <2>1. UNCHANGED cellVars /\ UNCHANGED timeVars /\ Phase' = Phase
    BY <1>0, <1>10
    DEF TimeoutStep, Receive, FindStep, Found, Delete, NoMemory, DeleteOther, UnlinkStep,
        SweepStep, SweepExpired, Leave, Phase
  <2> QED BY <2>1, <1>1 DEF Table!vars, timeVars
<1>11. CASE UNCHANGED vars
  <2>1. UNCHANGED cellVars /\ UNCHANGED timeVars /\ Phase' = Phase
    BY <1>11 DEF vars, walkVars, Phase
  <2> QED BY <2>1, <1>1 DEF Table!vars, timeVars
<1> QED BY <1>2, <1>3, <1>4, <1>5, <1>6, <1>7, <1>8, <1>9, <1>10, <1>11
        DEF Next, Thread, Crashed

(* As long as the time of day fits in an int, the pointers, the cells and  *)
(* the walks of framework.c are the list that PendingTable describes.      *)
THEOREM ImplementsTheTable == ASSUME TimeFits PROVE Spec => ImplementsTable
<1>1. Init => Table!Init
  BY DEF Init, Table!Init, Phase, Contents
<1>2. StructInv /\ StructInv' /\ ListInv /\ [Next]_vars => [Table!Next]_(Table!vars)
  BY TableStep
<1> QED BY <1>1, <1>2, StructAlways, ListAlways, PTL DEF Spec, ImplementsTable, Table!Spec
=============================================================================
