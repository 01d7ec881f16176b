--------------------------- MODULE UdpRelayProofs ---------------------------
(***************************************************************************)
(* Proofs about UdpRelay for every number of clients, every timeout and    *)
(* every bound.                                                            *)
(***************************************************************************)
EXTENDS UdpRelay, ListFacts, FiniteSetTheorems

-----------------------------------------------------------------------------
(* The operations of MappingList.                                          *)

(* What mapping_delete leaves: one element less, the others in their order. *)
LEMMA DeleteFacts ==
  ASSUME NEW S, NEW table \in Seq(S), NEW i \in DOMAIN table
  PROVE  /\ MappingDelete(table, i) \in Seq(S)
         /\ Len(MappingDelete(table, i)) = Len(table) - 1
         /\ \A k \in DOMAIN MappingDelete(table, i) :
               MappingDelete(table, i)[k] = IF k < i THEN table[k] ELSE table[k + 1]
BY RemoveAtFacts DEF MappingDelete

(* ctx_timeout_get is the shortest of the waits.                           *)
LEMMA TimeoutGetFacts ==
  ASSUME NEW S, NEW table \in Seq(S), NEW t \in Nat, Sorted(table),
         \A i \in DOMAIN table : table[i].timeout \in Int
  PROVE  /\ TimeoutGet(table, t) \in Nat /\ TimeoutGet(table, t) >= 1
         /\ \A i \in DOMAIN table :
               TimeoutGet(table, t) <= table[i].timeout - t \/ TimeoutGet(table, t) = 1
<1>1. TimeoutGet(table, t) = Shortest(Waits(IdleTimeout, table, t))
  BY DEF TimeoutGet, Remaining, Shortest, Waits
<1> QED BY <1>1, ShortestFacts, IdleAssumption

(* mapping_add at the head of a list of mappings.                          *)
LEMMA AddMapping ==
  ASSUME NEW table \in Seq(Mapping), NEW m \in Mapping
  PROVE  /\ MappingAdd(table, m) \in Seq(Mapping)
         /\ Len(MappingAdd(table, m)) = Len(table) + 1
         /\ \A k \in DOMAIN MappingAdd(table, m) :
               MappingAdd(table, m)[k] = IF k = 1 THEN m ELSE table[k - 1]
BY ConsFacts DEF MappingAdd

(* The field timeout of a mapping is a number.                             *)
LEMMA TimeoutType ==
  ASSUME NEW table \in Seq(Mapping)
  PROVE  \A i \in DOMAIN table : table[i].timeout \in Int
<1>1. \A i \in DOMAIN table : table[i] \in Mapping
  OBVIOUS
<1> QED BY <1>1 DEF Mapping

-----------------------------------------------------------------------------
(* Types.                                                                  *)

(* Any packet makes a mapping.                                             *)
LEMMA MappingCreateType ==
  ASSUME NEW p \in Packet, NEW port \in Ports, NEW t \in Int
  PROVE  MappingCreate(p, port, t) \in Mapping
BY DEF MappingCreate, Mapping, Packet, Ports, Hosts

(* What sock_udp_receive hands to handle_packet is a packet.               *)
LEMMA ReceivedType ==
  ASSUME NEW d \in Datagram, NEW s \in Sockets
  PROVE  Received(d, s) \in Packet
BY DEF Received, Datagram, Packet

(* Putting a datagram in a receive buffer keeps the buffers typed.         *)
LEMMA DeliverType ==
  ASSUME rx \in [Sockets -> Seq(Datagram)], NEW s \in Sockets, NEW d \in Datagram,
         Deliver(s, d)
  PROVE  rx' \in [Sockets -> Seq(Datagram)]
<1>1. Append(rx[s], d) \in Seq(Datagram)
  OBVIOUS
<1> QED BY <1>1 DEF Deliver

(* Reading a packet takes the first datagram of a buffer.                  *)
LEMMA BufferHead ==
  ASSUME rx \in [Sockets -> Seq(Datagram)], NEW s \in Sockets, rx[s] # <<>>
  PROVE  /\ Head(rx[s]) \in Datagram
         /\ [rx EXCEPT ![s] = Tail(@)] \in [Sockets -> Seq(Datagram)]
<1>1. rx[s] \in Seq(Datagram)
  OBVIOUS
<1>2. Head(rx[s]) \in Datagram /\ Tail(rx[s]) \in Seq(Datagram)
  BY <1>1
<1> QED BY <1>2

(* The socket that wait_for_traffic chooses has something to read.         *)
LEMMA FirstReadyNonempty ==
  ASSUME NEW s \in Sockets, IsFirstReady(s)
  PROVE  rx[s] # <<>>
BY DEF IsFirstReady

(* The type invariant holds in every state.                                *)
LEMMA TypeInit == Init => TypeOK
<1> SUFFICES ASSUME Init PROVE TypeOK
  OBVIOUS
<1>1. <<>> \in Seq(Mapping) /\ <<>> \in Seq(Datagram) /\ <<>> \in Seq(Clients)
  OBVIOUS
<1> QED BY <1>1 DEF Init, TypeOK

(* Every step of the loop and of its environment keeps the types;          *)
(* the order of the table gives ctx_timeout_get a least element to find.   *)
LEMMA TypeStep == TypeOK /\ TableSorted /\ [Next]_vars => TypeOK'
<1> SUFFICES ASSUME TypeOK, TableSorted, [Next]_vars
             PROVE  TypeOK'
  OBVIOUS
<1> USE DEF TypeOK
<1>1. CASE LoopTest
  BY <1>1 DEF LoopTest, netVars, envVars
<1>2. CASE ArmSelect
  <2>1. TimeoutGet(mappings, now) \in Nat
    BY TimeoutGetFacts, TimeoutType DEF TableSorted, Sorted
  <2> QED BY <1>2, <2>1 DEF ArmSelect, netVars, envVars
<1>3. CASE SelectTimeout
  BY <1>3 DEF SelectTimeout, netVars, envVars
<1>4. ASSUME NEW s \in Sockets, Receive(s) PROVE TypeOK'
  <2>1. rx[s] # <<>>
    BY <1>4, FirstReadyNonempty DEF Receive
  <2>2. Received(Head(rx[s]), s) \in Packet
    BY <2>1, BufferHead, ReceivedType
  <2>3. rx' \in [Sockets -> Seq(Datagram)]
    BY <1>4, <2>1, BufferHead DEF Receive
  <2>4. pkt' # <<>>
    BY <1>4 DEF Receive, Received
  <2> QED BY <1>4, <2>2, <2>3, <2>4 DEF Receive, envVars
<1>5. ASSUME NEW s \in Sockets, ReceiveFails(s) PROVE TypeOK'
  <2>1. rx' \in [Sockets -> Seq(Datagram)]
    BY <1>5, BufferHead, FirstReadyNonempty DEF ReceiveFails
  <2> QED BY <1>5, <2>1 DEF ReceiveFails, envVars
<1>7. ASSUME NEW i \in DOMAIN mappings, ForwardResponse(i) PROVE TypeOK'
  <2>1. pkt \in Packet
    BY <1>7 DEF ForwardResponse
  <2>2. mappings[i] \in Mapping
    OBVIOUS
  <2>3. mappings[i].client \in Hosts /\ mappings[i].lanSock \in Sockets
    BY <2>2 DEF Mapping
  <2>4. Sent(pkt, mappings[i].lanSock, mappings[i].client) \in Outgoing
    BY <2>1, <2>3 DEF Sent, Outgoing, Packet
  <2>5. mappings' \in Seq(Mapping)
    BY <1>7, DeleteFacts DEF ForwardResponse
  <2>6. answered' \in [Hosts \X Sockets -> Nat]
    BY <1>7, <2>3 DEF ForwardResponse
  <2>7. lan' \subseteq Outgoing
    BY <1>7, <2>4 DEF ForwardResponse
  <2> QED BY <1>7, <2>5, <2>6, <2>7 DEF ForwardResponse, envVars
<1>8. CASE ForwardQuery
  <2> DEFINE m == MappingCreate(pkt, WanPort, now + Timeout)
             d == Forwarded(m, pkt)
  <2>1. pkt \in Packet
    BY <1>8 DEF ForwardQuery
  <2>2. WanPort \in Ports
    BY DEF WanPort, Ports
  <2>3. m \in Mapping
    BY <2>1, <2>2, MappingCreateType, TimeoutAssumption
  <2>4. d \in Datagram
    <3> HIDE DEF m
    <3> QED BY <2>1, <2>3 DEF Forwarded, Datagram, Mapping, Packet, Hosts
  <2>5. mappings' \in Seq(Mapping)
    BY <1>8, <2>3, AddMapping DEF ForwardQuery
  <2>6. wan' = wan \cup {d} \/ wan' = wan
    <3> HIDE DEF d
    <3> QED BY <1>8 DEF ForwardQuery, d
  <2> HIDE DEF d, m
  <2>7. wan' \subseteq Datagram
    BY <2>4, <2>6
  <2> QED BY <1>8, <2>5, <2>7 DEF ForwardQuery, envVars
<1>9. CASE SweepStart
  BY <1>9 DEF SweepStart, netVars, envVars
<1>10. ASSUME NEW i \in DOMAIN mappings, SweepOne(i) PROVE TypeOK'
  <2>1. mappings' \in Seq(Mapping)
    BY <1>10, DeleteFacts DEF SweepOne
  <2> QED BY <1>10, <2>1 DEF SweepOne, netVars, envVars
<1>11. CASE SweepDone
  BY <1>11 DEF SweepDone, netVars, envVars
<1>12. ASSUME NEW c \in Clients, ClientQuery(c) PROVE TypeOK'
  <2>1. QueryFrom(c) \in Datagram
    BY <1>12 DEF QueryFrom, Datagram, Ports, Hosts
  <2>2. rx' \in [Sockets -> Seq(Datagram)]
    BY <1>12, <2>1, DeliverType DEF ClientQuery, Sockets
  <2>3. asked' \in Seq(Clients)
    BY <1>12 DEF ClientQuery
  <2> QED BY <1>12, <2>2, <2>3 DEF ClientQuery, loopVars
<1>13. ASSUME NEW d \in wan, Answer(d) PROVE TypeOK'
  <2>1. AnswerTo(d) \in Datagram
    BY <1>13 DEF Answer, AnswerTo, Datagram, Ports, Hosts
  <2>2. rx' \in [Sockets -> Seq(Datagram)]
    BY <1>13, <2>1, DeliverType DEF Answer, Sockets
  <2> QED BY <1>13, <2>2 DEF Answer, loopVars
<1>15. CASE Signal
  BY <1>15 DEF Signal, netVars, envVars
<1>16. CASE Tick
  BY <1>16 DEF Tick, loopVars, netVars, envVars
<1>17. CASE UNCHANGED vars
  BY <1>17 DEF vars, loopVars, netVars, envVars
<1> QED BY <1>1, <1>2, <1>3, <1>4, <1>5, <1>7, <1>8, <1>9, <1>10, <1>11,
           <1>12, <1>13, <1>15, <1>16, <1>17
        DEF Next, Proxy, Environment

-----------------------------------------------------------------------------
(* Time and the order of the table.                                        *)

ClockNotAhead == clock <= now

(* The clock of the thread lags behind the time of day, which never goes   *)
(* back, and only three steps touch the table.                             *)
LEMMA ClockStep ==
  TypeOK /\ ClockNotAhead /\ [Next]_vars => ClockNotAhead' /\ now <= now'
<1> SUFFICES ASSUME TypeOK, ClockNotAhead, [Next]_vars
             PROVE  ClockNotAhead' /\ now <= now'
  OBVIOUS
<1>1. CASE Tick
  BY <1>1 DEF Tick, loopVars, TypeOK, ClockNotAhead
<1>2. CASE ~ Tick
  <2>1. now' = now
    BY <1>2 DEF Next, Proxy, Environment, vars, LoopTest, ArmSelect, SelectTimeout,
         Receive, ReceiveFails, ForwardResponse, ForwardQuery,
         SweepStart, SweepOne, SweepDone, ClientQuery, Answer, Signal
  <2>2. clock' = clock \/ clock' = now
    BY <1>2 DEF Next, Proxy, Environment, vars, loopVars, LoopTest, ArmSelect,
         SelectTimeout, Receive, ReceiveFails, ForwardResponse,
         ForwardQuery, SweepStart, SweepOne, SweepDone, ClientQuery, Answer,
         Signal
  <2> QED BY <2>1, <2>2 DEF TypeOK, ClockNotAhead
<1> QED BY <1>1, <1>2

(* Only a forwarded query, a forwarded answer and the sweep touch the      *)
(* table.                                                                  *)
LEMMA TableStep ==
  ASSUME [Next]_vars
  PROVE  \/ mappings' = mappings
         \/ \E i \in DOMAIN mappings : ForwardResponse(i) \/ SweepOne(i)
         \/ ForwardQuery
BY DEF Next, Proxy, Environment, vars, loopVars, netVars,
       envVars, LoopTest, ArmSelect, SelectTimeout, Receive, ReceiveFails,
       SweepStart,
       SweepDone, ClientQuery, Answer, Signal, Tick

(* The table stays sorted by age: mapping_add stamps the newest with the   *)
(* latest clock, the two kinds of deletion keep the order.                 *)
LEMMA SortedStep ==
  TypeOK /\ TableSorted /\ ClockNotAhead /\ [Next]_vars => TableSorted'
<1> SUFFICES ASSUME TypeOK, TableSorted, ClockNotAhead, [Next]_vars
             PROVE  TableSorted'
  OBVIOUS
<1>1. /\ mappings \in Seq(Mapping) /\ now \in Nat /\ now' \in Nat /\ now <= now'
      /\ Timeout \in Int
  BY TypeStep, ClockStep, TimeoutAssumption DEF TypeOK
<1>2. \A i \in DOMAIN mappings : mappings[i] \in Mapping /\ mappings[i].timeout \in Int
  <2>1. \A i \in DOMAIN mappings : mappings[i] \in Mapping
    BY <1>1
  <2> QED BY <2>1 DEF Mapping
<1>3. CASE mappings' = mappings
  BY <1>1, <1>2, <1>3 DEF TableSorted
<1>4. ASSUME NEW i \in DOMAIN mappings, mappings' = MappingDelete(mappings, i)
      PROVE  TableSorted'
  <2>1. Sorted(mappings')
    BY <1>1, <1>4, RemoveSorted DEF TableSorted, Sorted, MappingDelete
  <2>2. ASSUME NEW k \in DOMAIN mappings'
        PROVE  mappings'[k].timeout <= now' + Timeout
    <3>1. PICK j \in DOMAIN mappings : mappings'[k] = mappings[j]
      <4>1. mappings'[k] = IF k < i THEN mappings[k] ELSE mappings[k + 1]
        BY <1>1, <1>4, DeleteFacts
      <4>2. Len(mappings') = Len(mappings) - 1 /\ mappings' \in Seq(Mapping)
        BY <1>1, <1>4, DeleteFacts
      <4> QED BY <4>1, <4>2, <1>1
    <3>2. mappings[j].timeout <= now + Timeout
      BY DEF TableSorted
    <3> QED BY <3>1, <3>2, <1>1, <1>2
  <2> QED BY <2>1, <2>2 DEF TableSorted, Sorted
<1>5. CASE ForwardQuery
  <2> DEFINE m == MappingCreate(pkt, WanPort, now + Timeout)
  <2>1. mappings' = MappingAdd(mappings, m) /\ now' = now
    BY <1>5 DEF ForwardQuery
  <2>2. m \in Mapping
    BY <1>1, <1>5, MappingCreateType DEF ForwardQuery, TypeOK, WanPort, Ports
  <2>3. m.timeout = now + Timeout
    BY DEF MappingCreate
  <2> HIDE DEF m
  <2>4. /\ mappings' \in Seq(Mapping) /\ Len(mappings') = Len(mappings) + 1
        /\ \A k \in DOMAIN mappings' :
              mappings'[k] = IF k = 1 THEN m ELSE mappings[k - 1]
    BY <1>1, <2>1, <2>2, AddMapping
  <2>5. \A k \in DOMAIN mappings' : k # 1 => k - 1 \in DOMAIN mappings
    BY <1>1, <2>4
  <2>6. ASSUME NEW k \in DOMAIN mappings'
        PROVE  mappings'[k].timeout <= now' + Timeout
    BY <1>1, <2>1, <2>3, <2>4, <2>5 DEF TableSorted
  <2>7. ASSUME NEW j \in DOMAIN mappings', NEW k \in DOMAIN mappings', j < k
        PROVE  mappings'[j].timeout >= mappings'[k].timeout
    <3>1. k # 1 /\ j \in Int /\ k \in Int
      BY <2>4, <2>7
    <3>2. CASE j = 1
      <4>1. mappings'[j] = m /\ mappings'[k] = mappings[k - 1]
        BY <2>4, <3>1, <3>2
      <4>2. mappings[k - 1].timeout <= now + Timeout
        BY <2>5, <3>1 DEF TableSorted
      <4> QED BY <4>1, <4>2, <2>3, <2>5, <3>1, <1>1, <1>2
    <3>3. CASE j # 1
      <4>1. mappings'[j] = mappings[j - 1] /\ mappings'[k] = mappings[k - 1]
        BY <2>4, <3>1, <3>3
      <4>2. j - 1 < k - 1
        BY <2>7, <3>1
      <4> QED BY <4>1, <4>2, <2>5, <3>1, <3>3 DEF TableSorted
    <3> QED BY <3>2, <3>3
  <2> QED BY <2>6, <2>7 DEF TableSorted
<1> QED BY <1>3, <1>4, <1>5, TableStep DEF ForwardResponse, SweepOne

-----------------------------------------------------------------------------
(* The inductive invariant: the properties, and what relates them.         *)

(* Whoever was taken up after Shutdown was set is past the last select().  *)
LastPass ==
  overtime >= 1 => /\ overtime = 1 /\ Shutdown = TRUE
                   /\ pc \in {"handle", "sweep0", "sweep", "test", "stopped"}

IInv == /\ TypeOK /\ TableSorted /\ ClockNotAhead
        /\ NeverOversleeps /\ LastPass

(* The timeout that ArmSelect computes is right when it is computed, and   *)
(* the table does not change while select() waits.                         *)
LEMMA SelectStepLemma ==
  TypeOK /\ TableSorted /\ NeverOversleeps /\ [Next]_vars => NeverOversleeps'
<1> SUFFICES ASSUME TypeOK, TableSorted, NeverOversleeps, [Next]_vars, pc' = "select"
             PROVE  /\ wake' > clock'
                    /\ \A i \in DOMAIN mappings' :
                          wake' <= mappings'[i].timeout \/ wake' = clock' + 1
  BY DEF NeverOversleeps
<1>1. CASE ArmSelect
  <2> DEFINE t == TimeoutGet(mappings, now)
  <2>1. /\ t \in Nat /\ t >= 1
        /\ \A i \in DOMAIN mappings : t <= mappings[i].timeout - now \/ t = 1
    BY TimeoutGetFacts, TimeoutType DEF TypeOK, TableSorted, Sorted
  <2>2. \A i \in DOMAIN mappings : mappings[i].timeout \in Int
    <3>1. \A i \in DOMAIN mappings : mappings[i] \in Mapping
      BY DEF TypeOK
    <3> QED BY <3>1 DEF Mapping
  <2>3. clock' = now /\ wake' = now + t /\ mappings' = mappings
    BY <1>1 DEF ArmSelect
  <2> HIDE DEF t
  <2> QED BY <2>1, <2>2, <2>3 DEF TypeOK
<1>2. CASE ~ ArmSelect
  <2>1. pc = "select" /\ UNCHANGED <<mappings, clock, wake>>
    BY <1>2 DEF Next, Proxy, Environment, vars, loopVars, netVars, envVars, LoopTest,
         SelectTimeout, Receive, ReceiveFails, 
         ForwardResponse, ForwardQuery, SweepStart, SweepOne, SweepDone, ClientQuery,
         Answer, Signal, Tick
  <2> QED BY <2>1 DEF NeverOversleeps
<1> QED BY <1>1, <1>2

(* Shutdown is tested between two packets: one that is taken up after the  *)
(* signal is the last.                                                     *)
LEMMA LastPassStep == TypeOK /\ LastPass /\ [Next]_vars => LastPass'
<1> SUFFICES ASSUME TypeOK, LastPass, [Next]_vars PROVE LastPass'
  OBVIOUS
<1>1. CASE \E s \in Sockets : Receive(s)
  BY <1>1 DEF Receive, LastPass, TypeOK
<1>2. CASE ~ \E s \in Sockets : Receive(s)
  <2>1. overtime' = overtime /\ (Shutdown = TRUE => Shutdown' = TRUE)
    BY <1>2 DEF Next, Proxy, Environment, vars, loopVars, LoopTest, ArmSelect,
         SelectTimeout, ReceiveFails, ForwardResponse,
         ForwardQuery, SweepStart, SweepOne, SweepDone, ClientQuery, Answer, Signal, Tick
  <2>2. /\ pc \in {"handle", "sweep0", "sweep", "test", "stopped"} /\ Shutdown = TRUE
        => pc' \in {"handle", "sweep0", "sweep", "test", "stopped"}
    BY <1>2 DEF Next, Proxy, Environment, vars, loopVars, LoopTest, ArmSelect,
         SelectTimeout, ReceiveFails, ForwardResponse,
         ForwardQuery, SweepStart, SweepOne, SweepDone, ClientQuery, Answer, Signal, Tick
  <2> QED BY <2>1, <2>2 DEF LastPass
<1> QED BY <1>1, <1>2

(* The inductive invariant holds when run() is entered.                    *)
LEMMA InvInit == Init => IInv
<1> SUFFICES ASSUME Init PROVE IInv
  OBVIOUS
<1>1. DOMAIN mappings = {} /\ now = 0 /\ clock = 0 /\ overtime = 0 /\ pc = "test"
  BY DEF Init
<1> QED BY <1>1, TypeInit DEF IInv, TableSorted, ClockNotAhead, NeverOversleeps, LastPass

(* The inductive invariant is kept by every step.                          *)
LEMMA InvStep == IInv /\ [Next]_vars => IInv'
BY TypeStep, SortedStep, ClockStep, SelectStepLemma, LastPassStep
   DEF IInv

(* The inductive invariant of the relay loop holds in every state, for any *)
(* number of clients and queries and for any timeout.                      *)
THEOREM InvariantHolds == Spec => []IInv
BY InvInit, InvStep, PTL DEF Spec

(* The table, the buffers, the packet in hand and the rest stay well typed *)
(* through every run of the relay loop.                                    *)
THEOREM TypeCorrect == Spec => []TypeOK
<1>1. IInv => TypeOK
  BY DEF IInv
<1> QED BY <1>1, InvariantHolds, PTL

(* mapping_add at the head and a clock that does not go back keep the      *)
(* table sorted by age.                                                    *)
THEOREM TableStaysSorted == Spec => []TableSorted
<1>1. IInv => TableSorted
  BY DEF IInv
<1> QED BY <1>1, InvariantHolds, PTL

(* select() is armed so that it neither oversleeps an expiry nor spins.    *)
THEOREM SelectNeverOversleeps == Spec => []NeverOversleeps
<1>1. IInv => NeverOversleeps
  BY DEF IInv
<1> QED BY <1>1, InvariantHolds, PTL

(* After the signal at most one packet is handled.                         *)
THEOREM AtMostOneLastPacket == Spec => []OneLastPacket
<1>1. IInv => OneLastPacket
  BY DEF IInv, TypeOK, LastPass, OneLastPacket
<1> QED BY <1>1, InvariantHolds, PTL

(* Only expiry and a matching answer take a mapping from the table.        *)
THEOREM MappingsAreNotLost == Spec => NoMappingLost
<1>1. ASSUME IInv, [Next]_vars, NEW i \in DOMAIN mappings,
             \A j \in DOMAIN mappings' : mappings'[j] # mappings[i]
      PROVE  \/ mappings[i].timeout <= now
             \/ /\ pc = "handle" /\ pkt.dport = mappings[i].wanPort
                /\ pkt.sport = mappings[i].routerPort
  <2>1. mappings \in Seq(Mapping) /\ clock \in Nat /\ now \in Nat /\ clock <= now
    BY <1>1 DEF IInv, TypeOK, ClockNotAhead
  <2>2. mappings' # mappings
    BY <1>1
  <2>3. ASSUME NEW k \in DOMAIN mappings, mappings' = MappingDelete(mappings, k)
        PROVE  k = i
    <3> DEFINE j == IF i < k THEN i ELSE i - 1
    <3>1. /\ mappings' \in Seq(Mapping) /\ Len(mappings') = Len(mappings) - 1
          /\ \A n \in DOMAIN mappings' :
                mappings'[n] = IF n < k THEN mappings[n] ELSE mappings[n + 1]
      BY <2>1, <2>3, DeleteFacts
    <3>2. SUFFICES ASSUME k # i PROVE FALSE
      OBVIOUS
    <3>3. j \in DOMAIN mappings'
      BY <2>1, <3>1, <3>2
    <3>4. mappings'[j] = mappings[i]
      BY <2>1, <3>1, <3>2, <3>3
    <3> QED BY <1>1, <3>3, <3>4
  <2>4. CASE \E k \in DOMAIN mappings : ForwardResponse(k)
    BY <2>3, <2>4 DEF ForwardResponse, IsFound, Matches
  <2>5. CASE \E k \in DOMAIN mappings : SweepOne(k)
    <3>1. Expired(mappings[i], clock)
      BY <2>3, <2>5 DEF SweepOne, FirstExpired
    <3>2. mappings[i].timeout \in Int
      <4>1. mappings[i] \in Mapping
        BY <2>1
      <4> QED BY <4>1 DEF Mapping
    <3> QED BY <2>1, <3>1, <3>2 DEF Expired
  <2>6. CASE ForwardQuery
    <3> DEFINE m == MappingCreate(pkt, WanPort, now + Timeout)
    <3>1. mappings' = MappingAdd(mappings, m)
      BY <2>6 DEF ForwardQuery
    <3>2. m \in Mapping
      BY <1>1, <2>6, MappingCreateType, TimeoutAssumption
         DEF IInv, ForwardQuery, TypeOK, WanPort, Ports
    <3> HIDE DEF m
    <3>3. /\ mappings' \in Seq(Mapping) /\ Len(mappings') = Len(mappings) + 1
          /\ \A n \in DOMAIN mappings' :
                mappings'[n] = IF n = 1 THEN m ELSE mappings[n - 1]
      BY <2>1, <3>1, <3>2, AddMapping
    <3>4. i + 1 \in DOMAIN mappings' /\ mappings'[i + 1] = mappings[i]
      BY <2>1, <3>3
    <3> QED BY <1>1, <3>4
  <2> QED BY <1>1, <2>2, <2>4, <2>5, <2>6, TableStep
<1>2. IInv /\ [Next]_vars =>
        [\A i \in DOMAIN mappings :
           (\A j \in DOMAIN mappings' : mappings'[j] # mappings[i]) =>
              \/ mappings[i].timeout <= now
              \/ /\ pc = "handle" /\ pkt.dport = mappings[i].wanPort
                 /\ pkt.sport = mappings[i].routerPort]_vars
  BY <1>1
<1> QED BY <1>2, InvariantHolds, PTL DEF Spec, NoMappingLost

-----------------------------------------------------------------------------
(* What belongs where, when the clients in list have asked.  A query is in *)
(* the buffer of the NAT-PMP socket; a response comes back to the shared   *)
(* socket from the port that only the service has.                         *)
IsRequest(list, d, s) ==
  /\ s = "natpmp" /\ d.kind = "query" /\ d.dst = LanIP /\ d.dport = NatPmpPort
  /\ \E q \in DOMAIN list : list[q] = d.src

IsReply(d, s) ==
  s = "shared" /\ d.kind = "response" /\ d.sport = NatPmpPort /\ d.dport # NatPmpPort

Fits(list, d, s) == IsRequest(list, d, s) \/ IsReply(d, s)

(* A mapping is a client's, or was made for a response that none waits for.*)
MadeFor(list, m) ==
  \/ m.lanSock = "natpmp" /\ \E q \in DOMAIN list : list[q] = m.client
  \/ m.routerPort # NatPmpPort

IsAnswerToClient(list, o) ==
  /\ o.kind = "response" /\ o.via = "natpmp"
  /\ \E q \in DOMAIN list : list[q] = o.dst

RxFits      == \A s \in Sockets : \A i \in DOMAIN rx[s] : Fits(asked, rx[s][i], s)
PktFits     == pc = "handle" => Fits(asked, pkt, pkt.sock)
WanFits     == \A d \in wan : d.sport # NatPmpPort
MappingsFit == \A i \in DOMAIN mappings : MadeFor(asked, mappings[i])
LanFits     == \A o \in lan : IsAnswerToClient(asked, o)

FitInv == RxFits /\ PktFits /\ WanFits /\ MappingsFit /\ LanFits

(* Queries are only added to asked, and what belonged there still does.    *)
Longer(list, more) == \A q \in DOMAIN list : q \in DOMAIN more /\ more[q] = list[q]

(* A question that was asked stays asked: the record only grows.           *)
LEMMA AskedStep == TypeOK /\ [Next]_vars => Longer(asked, asked')
<1> SUFFICES ASSUME TypeOK, [Next]_vars PROVE Longer(asked, asked')
  OBVIOUS
<1>1. asked' = asked \/ \E e : asked' = Append(asked, e)
  BY DEF Next, Proxy, Environment, vars, loopVars, netVars, envVars, LoopTest, ArmSelect,
     SelectTimeout, Receive, ReceiveFails, ForwardResponse, ForwardQuery,
     SweepStart, SweepOne, SweepDone, ClientQuery, Answer, Signal, Tick
<1>2. \A e : \A q \in DOMAIN asked :
        q \in DOMAIN Append(asked, e) /\ Append(asked, e)[q] = asked[q]
  BY DEF TypeOK
<1> QED BY <1>1, <1>2 DEF Longer

(* What belongs to a question still does when others have been asked.      *)
LEMMA StillFits ==
  ASSUME NEW list, NEW more, Longer(list, more), NEW d
  PROVE  /\ \A s : Fits(list, d, s) => Fits(more, d, s)
         /\ MadeFor(list, d) => MadeFor(more, d)
         /\ IsAnswerToClient(list, d) => IsAnswerToClient(more, d)
BY DEF Longer, Fits, IsRequest, IsReply, MadeFor, IsAnswerToClient

(* Which socket a datagram came in by does not change what it belongs to.  *)
LEMMA FitsReceived ==
  ASSUME NEW list, NEW d, NEW s, NEW t, Fits(list, d, s)
  PROVE  Fits(list, Received(d, t), s)
BY DEF Fits, IsRequest, IsReply, Received

(* What a step puts into a buffer.                                         *)
LEMMA RxStays ==
  ASSUME TypeOK, TypeOK', RxFits, Longer(asked, asked'),
         \A s \in Sockets :
            \/ rx'[s] = rx[s]
            \/ rx[s] # <<>> /\ rx'[s] = Tail(rx[s])
            \/ \E d : rx'[s] = Append(rx[s], d) /\ Fits(asked', d, s)
  PROVE  RxFits'
<1> SUFFICES ASSUME NEW s \in Sockets, NEW i \in DOMAIN rx'[s]
             PROVE  Fits(asked', rx'[s][i], s)
  BY DEF RxFits
<1>1. rx[s] \in Seq(Datagram) /\ rx'[s] \in Seq(Datagram)
  BY DEF TypeOK
<1>2. \A j \in DOMAIN rx[s] : Fits(asked', rx[s][j], s)
  BY StillFits DEF RxFits
<1>3. CASE rx'[s] = rx[s]
  BY <1>2, <1>3
<1>4. CASE rx[s] # <<>> /\ rx'[s] = Tail(rx[s])
  <2>1. i + 1 \in DOMAIN rx[s] /\ rx'[s][i] = rx[s][i + 1]
    BY <1>1, <1>4, TailFacts
  <2> QED BY <1>2, <2>1
<1>5. ASSUME NEW d, rx'[s] = Append(rx[s], d), Fits(asked', d, s)
      PROVE  Fits(asked', rx'[s][i], s)
  <2>1. (i \in DOMAIN rx[s] /\ rx'[s][i] = rx[s][i]) \/ rx'[s][i] = d
    BY <1>1, <1>5
  <2> QED BY <1>2, <1>5, <2>1
<1> QED BY <1>3, <1>4, <1>5

(* A datagram that arrives at one socket.                                  *)
LEMMA Delivered ==
  ASSUME TypeOK, TypeOK', RxFits, Longer(asked, asked'),
         NEW s, NEW d, Deliver(s, d), Fits(asked', d, s)
  PROVE  RxFits'
<1>1. \A t \in Sockets : rx'[t] = IF t = s THEN Append(rx[t], d) ELSE rx[t]
  BY DEF Deliver, TypeOK
<1> QED BY <1>1, RxStays

(* A query that a client sends to the NAT-PMP socket,                      *)
LEMMA QueryFits ==
  ASSUME TypeOK, NEW c \in Clients, asked' = Append(asked, c)
  PROVE  Fits(asked', QueryFrom(c), "natpmp")
<1> DEFINE d == QueryFrom(c)
<1>1. d.kind = "query" /\ d.dst = LanIP /\ d.dport = NatPmpPort /\ d.src = c
  BY DEF QueryFrom
<1>2. Len(asked) + 1 \in DOMAIN Append(asked, c) /\ Append(asked, c)[Len(asked) + 1] = c
  BY DEF TypeOK
<1> HIDE DEF d
<1> QED BY <1>1, <1>2 DEF Fits, IsRequest, d

(* what is forwarded for it, or by mistake for a late answer,              *)
LEMMA ForwardedFits ==
  ASSUME NEW list, NEW p, Fits(list, p, p.sock), NEW t
  PROVE  LET m == MappingCreate(p, WanPort, t) IN
         MadeFor(list, m) /\ Forwarded(m, p).sport # NatPmpPort
<1> DEFINE m == MappingCreate(p, WanPort, t)
<1>1. m.client = p.src /\ m.lanSock = p.sock /\ m.routerPort = p.dport /\ m.wanPort = WanPort
  BY DEF MappingCreate
<1> HIDE DEF m
<1>2. MadeFor(list, m)
  BY <1>1 DEF Fits, IsRequest, IsReply, MadeFor
<1>3. Forwarded(m, p).sport # NatPmpPort
  BY <1>1 DEF Forwarded, WanPort, NatPmpPort, SharedPort, NoPort
<1> QED BY <1>2, <1>3 DEF m

(* and what comes back.                                                    *)
LEMMA AnswerFits ==
  ASSUME NEW list, NEW d, d.sport # NatPmpPort
  PROVE  Fits(list, AnswerTo(d), "shared")
BY DEF Fits, IsReply, AnswerTo

(* What matches a mapping is an answer, and the mapping a client's: only   *)
(* the service sends from its port.                                        *)
LEMMA ResponseFits ==
  ASSUME NEW list, NEW p, Fits(list, p, p.sock), NEW m, Matches(m, p), MadeFor(list, m)
  PROVE  IsAnswerToClient(list, Sent(p, m.lanSock, m.client))
<1>1. p.dst = WanIP /\ p.sport = m.routerPort /\ LanIP # WanIP
  BY AddressAssumption DEF Matches, Hosts
<1>2. IsReply(p, p.sock)
  BY <1>1 DEF Fits, IsRequest
<1>3. m.lanSock = "natpmp" /\ \E q \in DOMAIN list : list[q] = m.client
  BY <1>1, <1>2 DEF IsReply, MadeFor
<1> QED BY <1>2, <1>3 DEF IsReply, IsAnswerToClient, Sent

(* The loop, its environment and what they leave alone.                    *)
LEMMA RxFitsStep == TypeOK /\ TypeOK' /\ FitInv /\ [Next]_vars => RxFits'
<1> SUFFICES ASSUME TypeOK, TypeOK', FitInv, [Next]_vars PROVE RxFits'
  OBVIOUS
<1>1. Longer(asked, asked')
  BY AskedStep
<1>2. RxFits /\ PktFits /\ WanFits
  BY DEF FitInv
<1>3. CASE rx' = rx
  BY <1>1, <1>2, <1>3, RxStays
<1>4. ASSUME NEW s \in Sockets, rx[s] # <<>>, rx' = [rx EXCEPT ![s] = Tail(@)] PROVE RxFits'
  <2>1. \A t \in Sockets : rx'[t] = IF t = s THEN Tail(rx[t]) ELSE rx[t]
    BY <1>4 DEF TypeOK
  <2> QED BY <1>1, <1>2, <1>4, <2>1, RxStays
<1>5. ASSUME NEW c \in Clients, ClientQuery(c) PROVE RxFits'
  <2>1. Deliver("natpmp", QueryFrom(c)) /\ asked' = Append(asked, c)
    BY <1>5 DEF ClientQuery
  <2> QED BY <1>1, <1>2, <2>1, QueryFits, Delivered
<1>6. ASSUME NEW d \in wan, Answer(d) PROVE RxFits'
  <2>1. Deliver("shared", AnswerTo(d)) /\ Fits(asked', AnswerTo(d), "shared")
    BY <1>2, <1>6, AnswerFits DEF Answer, WanFits
  <2> QED BY <1>1, <1>2, <2>1, Delivered
<1>7. ASSUME NEW s \in Sockets, Receive(s) \/ ReceiveFails(s) PROVE RxFits'
  BY <1>4, <1>7, FirstReadyNonempty DEF Receive, ReceiveFails
<1>8. CASE /\ \A s \in Sockets : ~ Receive(s) /\ ~ ReceiveFails(s)
           /\ \A c \in Clients : ~ ClientQuery(c)
           /\ \A d \in wan : ~ Answer(d)
  <2>1. rx' = rx
    BY <1>8 DEF Next, Proxy, Environment, vars, loopVars, netVars, envVars, LoopTest, ArmSelect,
       SelectTimeout, ForwardResponse, ForwardQuery, SweepStart, SweepOne, SweepDone,
       Signal, Tick
  <2> QED BY <1>3, <2>1
<1> QED BY <1>5, <1>6, <1>7, <1>8

(* What is in hand belongs to a question: it was taken from a socket where *)
(* it did.                                                                 *)
LEMMA PktFitsStep == TypeOK /\ TypeOK' /\ FitInv /\ [Next]_vars => PktFits'
<1> SUFFICES ASSUME TypeOK, TypeOK', FitInv, [Next]_vars PROVE PktFits'
  OBVIOUS
<1>1. ASSUME NEW s \in Sockets, Receive(s) PROVE PktFits'
  <2>1. rx[s] # <<>> /\ pkt' = Received(Head(rx[s]), s) /\ asked' = asked
    BY <1>1, FirstReadyNonempty DEF Receive, envVars
  <2>2. Fits(asked, Head(rx[s]), s)
    <3>1. rx[s] \in Seq(Datagram)
      BY DEF TypeOK
    <3>2. 1 \in DOMAIN rx[s] /\ Head(rx[s]) = rx[s][1]
      BY <2>1, <3>1, TailFacts
    <3> QED BY <3>2 DEF FitInv, RxFits
  <2>3. Fits(asked, Received(Head(rx[s]), s), s) /\ Received(Head(rx[s]), s).sock = s
    BY <2>2, FitsReceived DEF Received
  <2> QED BY <2>1, <2>3 DEF PktFits
<1>2. CASE \A s \in Sockets : ~ Receive(s)
  <2>1. pc' = "handle" => pc = "handle" /\ pkt' = pkt
    BY <1>2 DEF Next, Proxy, Environment, vars, loopVars, LoopTest, ArmSelect, SelectTimeout,
       ReceiveFails, ForwardResponse, ForwardQuery, SweepStart, SweepOne,
       SweepDone, ClientQuery, Answer, Signal, Tick
  <2> QED BY <2>1, AskedStep, StillFits DEF FitInv, PktFits
<1> QED BY <1>1, <1>2

(* What went to the WAN left from the port of the shared socket.           *)
LEMMA WanFitsStep == TypeOK /\ FitInv /\ [Next]_vars => WanFits'
<1> SUFFICES ASSUME TypeOK, FitInv, [Next]_vars PROVE WanFits'
  OBVIOUS
<1>1. CASE ForwardQuery
  <2> DEFINE d == Forwarded(MappingCreate(pkt, WanPort, now + Timeout), pkt)
  <2>1. Fits(asked, pkt, pkt.sock)
    BY <1>1 DEF FitInv, ForwardQuery, PktFits
  <2>2. d.sport # NatPmpPort
    BY <2>1, ForwardedFits
  <2> HIDE DEF d
  <2>3. wan' \subseteq wan \cup {d}
    BY <1>1 DEF ForwardQuery, d
  <2> QED BY <2>2, <2>3 DEF FitInv, WanFits
<1>2. CASE ~ ForwardQuery
  <2>1. wan' = wan
    BY <1>2 DEF Next, Proxy, Environment, vars, loopVars, netVars, envVars, LoopTest, ArmSelect,
       SelectTimeout, Receive, ReceiveFails, ForwardResponse, SweepStart,
       SweepOne, SweepDone, ClientQuery, Answer, Signal, Tick
  <2> QED BY <2>1 DEF FitInv, WanFits
<1> QED BY <1>1, <1>2

(* A mapping remembers the question in hand when it was made, and nothing  *)
(* changes it.                                                             *)
LEMMA MappingsFitStep == TypeOK /\ FitInv /\ [Next]_vars => MappingsFit'
<1> SUFFICES ASSUME TypeOK, FitInv, [Next]_vars PROVE MappingsFit'
  OBVIOUS
<1>1. \A i \in DOMAIN mappings : MadeFor(asked', mappings[i])
  BY AskedStep, StillFits DEF FitInv, MappingsFit
<1>2. mappings \in Seq(Mapping)
  BY DEF TypeOK
<1>3. CASE mappings' = mappings
  BY <1>1, <1>3 DEF MappingsFit
<1>4. ASSUME NEW i \in DOMAIN mappings, mappings' = MappingDelete(mappings, i)
      PROVE  MappingsFit'
  <2>1. \A k \in DOMAIN mappings' : \E j \in DOMAIN mappings : mappings'[k] = mappings[j]
    <3> SUFFICES ASSUME NEW k \in DOMAIN mappings'
                 PROVE  \E j \in DOMAIN mappings : mappings'[k] = mappings[j]
      OBVIOUS
    <3>1. /\ mappings' \in Seq(Mapping) /\ Len(mappings') = Len(mappings) - 1
          /\ mappings'[k] = IF k < i THEN mappings[k] ELSE mappings[k + 1]
      BY <1>2, <1>4, DeleteFacts
    <3>2. k \in DOMAIN mappings /\ k + 1 \in DOMAIN mappings
      BY <1>2, <3>1
    <3> QED BY <3>1, <3>2
  <2> QED BY <1>1, <2>1 DEF MappingsFit
<1>5. CASE ForwardQuery
  <2> DEFINE m == MappingCreate(pkt, WanPort, now + Timeout)
  <2>1. Fits(asked, pkt, pkt.sock) /\ asked' = asked
        /\ mappings' = MappingAdd(mappings, m)
    BY <1>5 DEF FitInv, ForwardQuery, PktFits, envVars
  <2>2. MadeFor(asked', m)
    BY <2>1, ForwardedFits
  <2>3. m \in Mapping
    BY <1>5, MappingCreateType, TimeoutAssumption DEF ForwardQuery, TypeOK, WanPort, Ports
  <2> HIDE DEF m
  <2>4. \A k \in DOMAIN mappings' : \/ mappings'[k] = m
                                    \/ \E j \in DOMAIN mappings : mappings'[k] = mappings[j]
    <3> SUFFICES ASSUME NEW k \in DOMAIN mappings', k # 1
                 PROVE  \E j \in DOMAIN mappings : mappings'[k] = mappings[j]
      BY <1>2, <2>1, <2>3, AddMapping
    <3>1. /\ mappings' \in Seq(Mapping) /\ Len(mappings') = Len(mappings) + 1
          /\ mappings'[k] = mappings[k - 1]
      BY <1>2, <2>1, <2>3, AddMapping
    <3>2. k - 1 \in DOMAIN mappings
      BY <1>2, <3>1
    <3> QED BY <3>1, <3>2
  <2> QED BY <1>1, <2>2, <2>4 DEF MappingsFit
<1>6. CASE \E i \in DOMAIN mappings : ForwardResponse(i) \/ SweepOne(i)
  BY <1>4, <1>6 DEF ForwardResponse, SweepOne
<1> QED BY <1>3, <1>5, <1>6, TableStep

(* What is sent to a client is the answer in hand, by a client's mapping.  *)
LEMMA LanFitsStep == TypeOK /\ FitInv /\ [Next]_vars => LanFits'
<1> SUFFICES ASSUME TypeOK, FitInv, [Next]_vars PROVE LanFits'
  OBVIOUS
<1>1. \A o \in lan : IsAnswerToClient(asked', o)
  BY AskedStep, StillFits DEF FitInv, LanFits
<1>2. ASSUME NEW i \in DOMAIN mappings, ForwardResponse(i) PROVE LanFits'
  <2> DEFINE m == mappings[i]
             o == Sent(pkt, m.lanSock, m.client)
  <2>1. /\ Fits(asked, pkt, pkt.sock) /\ asked' = asked
        /\ Matches(m, pkt) /\ MadeFor(asked, m)
    BY <1>2 DEF FitInv, PktFits, MappingsFit, ForwardResponse, IsFound, envVars
  <2>2. lan' \subseteq lan \cup {o}
    BY <1>2 DEF ForwardResponse
  <2> HIDE DEF m
  <2>3. IsAnswerToClient(asked', o)
    BY <2>1, ResponseFits
  <2> HIDE DEF o
  <2> QED BY <1>1, <2>2, <2>3 DEF LanFits
<1>3. CASE \A i \in DOMAIN mappings : ~ ForwardResponse(i)
  <2>1. lan' = lan
    BY <1>3 DEF Next, Proxy, Environment, vars, loopVars, netVars, envVars, LoopTest, ArmSelect,
       SelectTimeout, Receive, ReceiveFails, ForwardQuery, SweepStart,
       SweepOne, SweepDone, ClientQuery, Answer, Signal, Tick
  <2> QED BY <1>1, <2>1 DEF LanFits
<1> QED BY <1>2, <1>3

(* Nothing has been sent or asked when the loop begins.                    *)
LEMMA FitInit == Init => FitInv
<1> SUFFICES ASSUME Init PROVE FitInv
  OBVIOUS
<1>1. \A s \in Sockets : rx[s] = <<>>
  BY DEF Init
<1>2. mappings = <<>> /\ pc = "test" /\ wan = {} /\ lan = {}
  BY DEF Init
<1> QED BY <1>1, <1>2 DEF FitInv, RxFits, PktFits, WanFits, MappingsFit, LanFits

(* So every datagram belongs where it is, at any time.                     *)
LEMMA FitAlways == Spec => []FitInv
<1>1. TypeOK /\ TypeOK' /\ FitInv /\ [Next]_vars => FitInv'
  BY RxFitsStep, PktFitsStep, WanFitsStep, MappingsFitStep, LanFitsStep DEF FitInv
<1> QED BY <1>1, FitInit, TypeCorrect, PTL DEF Spec

(* Only answers are sent as answers, to clients that asked and from the    *)
(* socket they asked at, although late answers leave mappings of the AFTR  *)
(* in the table: the port an answer comes from tells these apart.          *)
THEOREM AnswersAlwaysReachClients == Spec => []AnswersReachClients
<1>1. FitInv => AnswersReachClients
  BY DEF FitInv, LanFits, IsAnswerToClient, AnswersReachClients
<1> QED BY <1>1, FitAlways, PTL

-----------------------------------------------------------------------------
(* Counting in lists.                                                      *)
Places(s, T) == {i \in DOMAIN s : s[i] \in T}
Count(s, T)  == Cardinality(Places(s, T))

(* A list has finitely many places where something of a set is.            *)
LEMMA CountType ==
  ASSUME NEW S, NEW s \in Seq(S), NEW T
  PROVE  IsFiniteSet(Places(s, T)) /\ Count(s, T) \in Nat
<1>1. IsFiniteSet(1 .. Len(s)) /\ Places(s, T) \in SUBSET (1 .. Len(s))
  BY FS_Interval DEF Places
<1> QED BY <1>1, FS_Subset, FS_CardinalityType DEF Count

(* An empty list has none.                                                 *)
LEMMA CountNone == ASSUME NEW T PROVE Count(<<>>, T) = 0
<1>1. Places(<<>>, T) = {}
  BY DEF Places
<1> QED BY <1>1, FS_EmptySet DEF Count

(* An element that is added at the end counts if it is in the set.         *)
LEMMA CountOneMore ==
  ASSUME NEW S, NEW s \in Seq(S), NEW x \in S, NEW T
  PROVE  Count(Append(s, x), T) = Count(s, T) + (IF x \in T THEN 1 ELSE 0)
<1> DEFINE n == Len(s) + 1
<1>1. /\ Len(s) \in Nat /\ n \notin DOMAIN s /\ n \in DOMAIN Append(s, x) /\ Append(s, x)[n] = x
      /\ \A i \in DOMAIN s : i \in DOMAIN Append(s, x) /\ Append(s, x)[i] = s[i]
      /\ \A i \in DOMAIN Append(s, x) : i \in DOMAIN s \/ i = n
  OBVIOUS
<1> HIDE DEF n
<1>2. Places(Append(s, x), T) = IF x \in T THEN Places(s, T) \cup {n} ELSE Places(s, T)
  BY <1>1 DEF Places
<1>3. n \notin Places(s, T)
  BY <1>1 DEF Places
<1>4. IsFiniteSet(Places(s, T)) /\ Cardinality(Places(s, T)) \in Nat
  BY CountType DEF Count
<1>5. Cardinality(Places(s, T) \cup {n}) = Cardinality(Places(s, T)) + 1
  BY <1>3, <1>4, FS_AddElement
<1> QED BY <1>2, <1>4, <1>5 DEF Count

(* The list s becomes t when its k-th element goes.                        *)
Loses(s, t, k) ==
  /\ k \in DOMAIN s /\ Len(t) = Len(s) - 1
  /\ \A n \in DOMAIN t : t[n] = IF n < k THEN s[n] ELSE s[n + 1]

(* An element that a list loses counts if it was in the set.               *)
LEMMA CountOneLess ==
  ASSUME NEW S, NEW s \in Seq(S), NEW t \in Seq(S), NEW k, Loses(s, t, k), NEW T
  PROVE  Count(s, T) = Count(t, T) + (IF s[k] \in T THEN 1 ELSE 0)
<1> DEFINE A == Places(s, T)
           B == Places(t, T)
           f == [n \in B |-> IF n < k THEN n ELSE n + 1]
<1>1. /\ k \in DOMAIN s /\ Len(t) = Len(s) - 1
      /\ \A n \in DOMAIN t : t[n] = IF n < k THEN s[n] ELSE s[n + 1]
  BY DEF Loses
<1>2. /\ Len(s) \in Nat /\ k \in 1 .. Len(s)
      /\ A = {n \in 1 .. Len(s) : s[n] \in T} /\ B = {n \in 1 .. Len(s) - 1 : t[n] \in T}
  BY <1>1 DEF Places
<1>3. \A n \in B : f[n] \in A \ {k}
  <2> SUFFICES ASSUME NEW n \in B PROVE f[n] \in A \ {k}
    OBVIOUS
  <2>1. n \in 1 .. Len(s) - 1 /\ t[n] \in T /\ n \in DOMAIN t
    BY <1>1, <1>2
  <2>2. f[n] = IF n < k THEN n ELSE n + 1
    OBVIOUS
  <2>3. s[f[n]] = t[n] /\ f[n] \in 1 .. Len(s) /\ f[n] # k
    <3> HIDE DEF f, A, B
    <3> QED BY <1>1, <1>2, <2>1, <2>2
  <2> QED BY <1>2, <2>1, <2>3
<1>4. \A m, n \in B : f[m] = f[n] => m = n
  BY <1>2
<1>5. ASSUME NEW a \in A \ {k} PROVE \E n \in B : f[n] = a
  <2> DEFINE n == IF a < k THEN a ELSE a - 1
  <2>1. a \in 1 .. Len(s) /\ a # k /\ s[a] \in T
    BY <1>2
  <2>2. n \in 1 .. Len(s) - 1 /\ n \in DOMAIN t /\ a = IF n < k THEN n ELSE n + 1
    BY <1>1, <1>2, <2>1
  <2>3. t[n] = s[a]
    <3> HIDE DEF n
    <3> QED BY <1>1, <2>2
  <2>4. n \in B
    BY <1>2, <2>1, <2>2, <2>3
  <2> HIDE DEF n
  <2> QED BY <2>2, <2>4
<1>6. f \in Bijection(B, A \ {k})
  <2> HIDE DEF A, B
  <2>1. f \in [B -> A \ {k}]
    BY <1>3
  <2> HIDE DEF f
  <2> QED BY <1>4, <1>5, <2>1 DEF Bijection, Injection, Surjection, IsInjective
<1>7. Cardinality(A \ {k}) = Cardinality(B)
  <2> HIDE DEF f
  <2>1. ExistsBijection(B, A \ {k}) /\ IsFiniteSet(B)
    BY <1>6, CountType DEF ExistsBijection
  <2> QED BY <2>1, FS_Bijection
<1>8. k \in A <=> s[k] \in T
  BY <1>2
<1>9. Cardinality(A \ {k}) = IF k \in A THEN Cardinality(A) - 1 ELSE Cardinality(A)
  BY CountType, FS_RemoveElement
<1>10. Cardinality(A) \in Nat /\ Cardinality(B) \in Nat
  BY CountType DEF Count
<1> HIDE DEF A, B
<1> QED BY <1>7, <1>8, <1>9, <1>10 DEF A, B, Count

-----------------------------------------------------------------------------
(* The queries of a client that wait: in the buffer, in hand or as         *)
(* mappings.                                                               *)
QueriesOf(c)  == {d \in Datagram : IsQueryOf(d, c)}
MappingsOf(c) == {m \in Mapping : m.client = c /\ m.lanSock = "natpmp"}
Queued(c)  == Count(rx["natpmp"], QueriesOf(c))
InHand(c)  == IF pc = "handle" /\ IsQueryOf(pkt, c) THEN 1 ELSE 0
Pending(c) == Count(mappings, MappingsOf(c))

(* The queries of one client that wait at the socket, as a count.          *)
LEMMA BufferCount ==
  ASSUME NEW q \in Seq(Datagram), NEW c
  PROVE  Cardinality({i \in DOMAIN q : IsQueryOf(q[i], c)}) = Count(q, QueriesOf(c))
<1>1. {i \in DOMAIN q : IsQueryOf(q[i], c)} = Places(q, QueriesOf(c))
  BY DEF Places, QueriesOf
<1> QED BY <1>1 DEF Count

(* Its mappings in the table, as a count.                                  *)
LEMMA TableCount ==
  ASSUME NEW t \in Seq(Mapping), NEW c
  PROVE  Cardinality({i \in DOMAIN t : t[i].client = c /\ t[i].lanSock = "natpmp"})
           = Count(t, MappingsOf(c))
<1>1. {i \in DOMAIN t : t[i].client = c /\ t[i].lanSock = "natpmp"} = Places(t, MappingsOf(c))
  BY DEF Places, MappingsOf
<1> QED BY <1>1 DEF Count

(* Its questions so far, as a count.                                       *)
LEMMA AskedCount ==
  ASSUME NEW list \in Seq(Clients), NEW c
  PROVE  Cardinality({q \in DOMAIN list : list[q] = c}) = Count(list, {c})
<1>1. {q \in DOMAIN list : list[q] = c} = Places(list, {c})
  BY DEF Places
<1> QED BY <1>1 DEF Count

Answered(c) == answered[<<c, "natpmp">>]

WaitingIs(c) ==
  /\ Waiting(c) = Queued(c) + InHand(c) + Pending(c)
  /\ Queued(c) \in Nat /\ InHand(c) \in Nat /\ Pending(c) \in Nat
  /\ Asked(c) \in Nat /\ Answered(c) \in Nat

(* What waits for an answer is in the table, at the socket, or in hand.    *)
LEMMA WaitingAlways == TypeOK => \A c \in Clients : WaitingIs(c)
<1> SUFFICES ASSUME TypeOK, NEW c \in Clients PROVE WaitingIs(c)
  OBVIOUS
<1>1. rx["natpmp"] \in Seq(Datagram) /\ mappings \in Seq(Mapping) /\ asked \in Seq(Clients)
  BY DEF TypeOK, Sockets
<1>2. Waiting(c) = Queued(c) + InHand(c) + Pending(c)
  BY <1>1, BufferCount, TableCount DEF Waiting, Queued, InHand, Pending
<1>3. Queued(c) \in Nat /\ Pending(c) \in Nat /\ InHand(c) \in Nat
  BY <1>1, CountType DEF Queued, Pending, InHand
<1>4. Asked(c) \in Nat
  <2>1. Asked(c) = Count(asked, {c})
    BY <1>1, AskedCount DEF Asked
  <2> QED BY <1>1, <2>1, CountType
<1>5. Answered(c) \in Nat
  BY DEF TypeOK, Answered, Hosts, Sockets
<1> QED BY <1>2, <1>3, <1>4, <1>5 DEF WaitingIs

(* One more question and one more that waits is Ask; one answer more and   *)
(* one less that waits is Answer; one less that waits is giving up; the    *)
(* same numbers are no step.                                               *)
LEMMA ServiceSteps ==
  ASSUME NEW c \in Clients, WaitingIs(c), WaitingIs(c)',
         \/ /\ Asked(c)' = Asked(c) /\ Answered(c)' = Answered(c)
            /\ \/ Waiting(c)' = Waiting(c)
               \/ Waiting(c)' = Waiting(c) - 1
         \/ /\ Asked(c)' = Asked(c) + 1 /\ Answered(c)' = Answered(c)
            /\ Waiting(c)' = Waiting(c) + 1
         \/ /\ Asked(c)' = Asked(c) /\ Answered(c)' = Answered(c) + 1
            /\ Waiting(c)' = Waiting(c) - 1
  PROVE  [Service(c)!Next]_(Service(c)!vars)
<1> DEFINE w == Waiting(c)
           v == Waiting(c)'
<1>1. w \in Nat /\ v \in Nat
  BY DEF WaitingIs
<1> HIDE DEF w, v
<1>2. v = w - 1 => w > 0
  BY <1>1
<1> QED BY <1>2 DEF w, v, Answered, Service!Next, Service!vars, Service!Ask, Service!Answer,
           Service!GiveUp, Service!Resolve

(* A datagram is read: it is in hand now, or lost.                         *)
LEMMA ReadCount ==
  ASSUME TypeOK, NEW c \in Clients, NEW s \in Sockets, rx[s] # <<>>,
         rx' = [rx EXCEPT ![s] = Tail(@)]
  PROVE  Queued(c) = Queued(c)' + (IF s = "natpmp" /\ IsQueryOf(Head(rx[s]), c) THEN 1 ELSE 0)
<1> DEFINE q == rx["natpmp"]
           t == Tail(q)
<1>1. /\ q \in Seq(Datagram)
      /\ rx'["natpmp"] = IF s = "natpmp" THEN t ELSE q
  BY DEF TypeOK, Sockets
<1>2. CASE s # "natpmp"
  BY <1>1, <1>2, CountType DEF Queued
<1>3. CASE s = "natpmp"
  <2>1. q \in Seq(Datagram) /\ q # <<>> /\ rx'["natpmp"] = t
    BY <1>1, <1>3
  <2> HIDE DEF q
  <2>2. 1 \in DOMAIN q /\ Head(q) = q[1] /\ t \in Seq(Datagram) /\ Loses(q, t, 1)
    BY <2>1 DEF Loses
  <2> HIDE DEF t
  <2>3. Count(q, QueriesOf(c)) = Count(t, QueriesOf(c)) + (IF q[1] \in QueriesOf(c) THEN 1 ELSE 0)
    BY <2>1, <2>2, CountOneLess
  <2>4. q[1] \in QueriesOf(c) <=> IsQueryOf(Head(q), c)
    BY <2>1, <2>2 DEF QueriesOf
  <2>5. Queued(c) = Count(q, QueriesOf(c)) /\ Queued(c)' = Count(t, QueriesOf(c))
    BY <2>1 DEF Queued, q
  <2> QED BY <1>3, <2>3, <2>4, <2>5 DEF q
<1> QED BY <1>2, <1>3

(* A mapping goes.                                                         *)
LEMMA DeleteCount ==
  ASSUME TypeOK, NEW c \in Clients, NEW i \in DOMAIN mappings,
         mappings' = MappingDelete(mappings, i)
  PROVE  Pending(c) = Pending(c)' + (IF <<mappings[i].client, mappings[i].lanSock>> = <<c, "natpmp">> THEN 1 ELSE 0)
<1>1. mappings \in Seq(Mapping) /\ mappings[i] \in Mapping
  BY DEF TypeOK
<1>2. /\ mappings' \in Seq(Mapping) /\ Len(mappings') = Len(mappings) - 1
      /\ \A k \in DOMAIN mappings' :
            mappings'[k] = IF k < i THEN mappings[k] ELSE mappings[k + 1]
  BY <1>1, DeleteFacts
<1>3. mappings[i] \in MappingsOf(c) <=> <<mappings[i].client, mappings[i].lanSock>> = <<c, "natpmp">>
  BY <1>1 DEF MappingsOf
<1> DEFINE s == mappings
           t == mappings'
<1>4. s \in Seq(Mapping) /\ t \in Seq(Mapping) /\ Loses(s, t, i)
  BY <1>1, <1>2 DEF Loses
<1> HIDE DEF s, t
<1>5. Count(s, MappingsOf(c)) =
        Count(t, MappingsOf(c)) + (IF s[i] \in MappingsOf(c) THEN 1 ELSE 0)
  BY <1>4, CountOneLess
<1> QED BY <1>3, <1>5 DEF Pending, s, t

(* A mapping is made.                                                      *)
LEMMA AddCount ==
  ASSUME TypeOK, NEW c \in Clients, NEW m \in Mapping, mappings' = MappingAdd(mappings, m)
  PROVE  Pending(c)' = Pending(c) + (IF <<m.client, m.lanSock>> = <<c, "natpmp">> THEN 1 ELSE 0)
<1>1. mappings \in Seq(Mapping)
  BY DEF TypeOK
<1>2. /\ mappings' \in Seq(Mapping) /\ Len(mappings') = Len(mappings) + 1
      /\ \A k \in DOMAIN mappings' : mappings'[k] = IF k = 1 THEN m ELSE mappings[k - 1]
  BY <1>1, AddMapping
<1>3. /\ 1 \in DOMAIN mappings' /\ mappings'[1] = m /\ Len(mappings) = Len(mappings') - 1
      /\ \A n \in DOMAIN mappings :
            mappings[n] = IF n < 1 THEN mappings'[n] ELSE mappings'[n + 1]
  <2>1. Len(mappings) \in Nat
    BY <1>1
  <2>2. \A n \in DOMAIN mappings : n \in 1 .. Len(mappings) /\ n + 1 \in DOMAIN mappings'
    BY <1>1, <1>2
  <2>3. \A n \in DOMAIN mappings : mappings'[n + 1] = mappings[n]
    BY <1>2, <2>1, <2>2
  <2> QED BY <1>2, <2>1, <2>2, <2>3
<1>4. m \in MappingsOf(c) <=> <<m.client, m.lanSock>> = <<c, "natpmp">>
  BY DEF MappingsOf
<1> DEFINE t == mappings
           s == mappings'
<1>5. s \in Seq(Mapping) /\ t \in Seq(Mapping) /\ Loses(s, t, 1)
  BY <1>1, <1>2, <1>3 DEF Loses
<1> HIDE DEF s, t
<1>6. Count(s, MappingsOf(c)) =
        Count(t, MappingsOf(c)) + (IF s[1] \in MappingsOf(c) THEN 1 ELSE 0)
  BY <1>5, CountOneLess
<1> QED BY <1>3, <1>4, <1>6 DEF Pending, s, t

(* The loop and its environment serve each client.                         *)
LEMMA ServiceStep ==
  ASSUME TypeOK, TypeOK', FitInv, [Next]_vars,
         NEW c \in Clients, WaitingIs(c), WaitingIs(c)'
  PROVE  [Service(c)!Next]_(Service(c)!vars)
<1>1. c \in Hosts /\ "natpmp" \in Sockets /\ <<c, "natpmp">> \in Hosts \X Sockets
  BY DEF Hosts, Sockets
<1>2. /\ Waiting(c) = Queued(c) + InHand(c) + Pending(c)
      /\ Waiting(c)' = Queued(c)' + InHand(c)' + Pending(c)'
      /\ Queued(c) \in Nat /\ InHand(c) \in Nat /\ Pending(c) \in Nat
      /\ Queued(c)' \in Nat /\ InHand(c)' \in Nat /\ Pending(c)' \in Nat
  BY DEF WaitingIs
<1>3. /\ asked' = asked => Asked(c)' = Asked(c)
      /\ rx'["natpmp"] = rx["natpmp"] => Queued(c)' = Queued(c)
      /\ mappings' = mappings => Pending(c)' = Pending(c)
      /\ answered' = answered => Answered(c)' = Answered(c)
      /\ pc # "handle" => InHand(c) = 0
      /\ pc' # "handle" => InHand(c)' = 0
      /\ pc' = pc /\ pkt' = pkt => InHand(c)' = InHand(c)
  BY DEF Asked, Queued, Pending, InHand, Answered
<1>4. ASSUME NEW s \in Sockets, Receive(s) PROVE [Service(c)!Next]_(Service(c)!vars)
  <2>1. /\ rx[s] # <<>> /\ rx' = [rx EXCEPT ![s] = Tail(@)]
        /\ UNCHANGED <<asked, answered, mappings>>
        /\ pc # "handle" /\ pc' = "handle" /\ pkt' = Received(Head(rx[s]), s)
    BY <1>4, FirstReadyNonempty DEF Receive, envVars
  <2>2. Queued(c) = Queued(c)' + (IF s = "natpmp" /\ IsQueryOf(Head(rx[s]), c) THEN 1 ELSE 0)
    BY <2>1, ReadCount
  <2>3. IsQueryOf(Head(rx[s]), c) => s = "natpmp"
    <3>1. 1 \in DOMAIN rx[s] /\ Head(rx[s]) = rx[s][1]
      <4>1. rx[s] \in Seq(Datagram)
        BY DEF TypeOK
      <4> QED BY <2>1, <4>1, TailFacts
    <3>2. Fits(asked, Head(rx[s]), s)
      BY <3>1 DEF FitInv, RxFits
    <3> QED BY <3>2 DEF Fits, IsRequest, IsReply, IsQueryOf
  <2>4. InHand(c)' = IF s = "natpmp" /\ IsQueryOf(Head(rx[s]), c) THEN 1 ELSE 0
    BY <2>1, <2>3 DEF InHand, Received, IsQueryOf
  <2>5. Waiting(c)' = Waiting(c)
    BY <1>2, <1>3, <2>1, <2>2, <2>4
  <2> QED BY <1>3, <2>1, <2>5, ServiceSteps
<1>5. ASSUME NEW s \in Sockets, ReceiveFails(s) PROVE [Service(c)!Next]_(Service(c)!vars)
  <2>1. /\ rx[s] # <<>> /\ rx' = [rx EXCEPT ![s] = Tail(@)]
        /\ UNCHANGED <<asked, answered, mappings>> /\ pc # "handle" /\ pc' # "handle"
    BY <1>5, FirstReadyNonempty DEF ReceiveFails, envVars
  <2>2. Queued(c) = Queued(c)' + (IF s = "natpmp" /\ IsQueryOf(Head(rx[s]), c) THEN 1 ELSE 0)
    BY <2>1, ReadCount
  <2>3. Waiting(c)' = Waiting(c) \/ Waiting(c)' = Waiting(c) - 1
    BY <1>2, <1>3, <2>1, <2>2
  <2> QED BY <1>3, <2>1, <2>3, ServiceSteps
<1>6. ASSUME NEW i \in DOMAIN mappings, ForwardResponse(i)
      PROVE  [Service(c)!Next]_(Service(c)!vars)
  <2> DEFINE k == <<mappings[i].client, mappings[i].lanSock>>
             r == <<c, "natpmp">>
  <2>1. /\ UNCHANGED <<asked, rx>> /\ pc' # "handle"
        /\ mappings' = MappingDelete(mappings, i)
        /\ answered' = answered \/ answered' = [answered EXCEPT ![k] = @ + 1]
    BY <1>6 DEF ForwardResponse, envVars
  <2>2. Pending(c) = Pending(c)' + (IF k = r THEN 1 ELSE 0)
    BY <2>1, DeleteCount
  <2>3. InHand(c) = 0
    <3>1. Fits(asked, pkt, pkt.sock) /\ pkt.dst = WanIP /\ WanIP # LanIP
      BY <1>6, AddressAssumption DEF FitInv, PktFits, ForwardResponse, IsFound, Matches, Hosts
    <3> QED BY <3>1 DEF InHand, IsQueryOf, Fits, IsRequest, IsReply
  <2>4. Answered(c)' = Answered(c) \/ (k = r /\ Answered(c)' = Answered(c) + 1)
    BY <1>1, <2>1 DEF TypeOK, Answered
  <2> HIDE DEF k, r
  <2>5. Waiting(c)' = Waiting(c) - (IF k = r THEN 1 ELSE 0)
    BY <1>2, <1>3, <2>1, <2>2, <2>3
  <2>6. Waiting(c)' = Waiting(c) \/ Waiting(c)' = Waiting(c) - 1
    BY <1>2, <2>5
  <2> QED BY <1>3, <2>1, <2>4, <2>5, <2>6, ServiceSteps
<1>7. CASE ForwardQuery
  <2> DEFINE m == MappingCreate(pkt, WanPort, now + Timeout)
  <2>1. /\ UNCHANGED <<asked, answered, rx>> /\ pc = "handle" /\ pc' # "handle"
        /\ mappings' = MappingAdd(mappings, m) /\ Fits(asked, pkt, pkt.sock)
    BY <1>7 DEF FitInv, PktFits, ForwardQuery, envVars
  <2>2. m \in Mapping /\ m.client = pkt.src /\ m.lanSock = pkt.sock
    <3>1. m \in Mapping
      BY <1>7, MappingCreateType, TimeoutAssumption DEF ForwardQuery, TypeOK, WanPort, Ports
    <3> QED BY <3>1 DEF MappingCreate
  <2> HIDE DEF m
  <2>3. Pending(c)' = Pending(c) + (IF <<m.client, m.lanSock>> = <<c, "natpmp">> THEN 1 ELSE 0)
    BY <2>1, <2>2, AddCount
  <2>4. InHand(c) = IF <<m.client, m.lanSock>> = <<c, "natpmp">> THEN 1 ELSE 0
    <3>1. IsQueryOf(pkt, c) <=> pkt.src = c /\ pkt.sock = "natpmp"
      BY <2>1 DEF IsQueryOf, Fits, IsRequest, IsReply
    <3> QED BY <2>1, <2>2, <3>1 DEF InHand
  <2>5. Waiting(c)' = Waiting(c)
    BY <1>2, <1>3, <2>1, <2>3, <2>4
  <2> QED BY <1>3, <2>1, <2>5, ServiceSteps
<1>8. ASSUME NEW i \in DOMAIN mappings, SweepOne(i) PROVE [Service(c)!Next]_(Service(c)!vars)
  <2>1. /\ UNCHANGED <<asked, answered, rx>> /\ pc # "handle" /\ pc' # "handle"
        /\ mappings' = MappingDelete(mappings, i)
    BY <1>8 DEF SweepOne, netVars, envVars
  <2>2. Pending(c)' = Pending(c) \/ Pending(c)' = Pending(c) - 1
    BY <1>2, <2>1, DeleteCount
  <2>3. Waiting(c)' = Waiting(c) \/ Waiting(c)' = Waiting(c) - 1
    BY <1>2, <1>3, <2>1, <2>2
  <2> QED BY <1>3, <2>1, <2>3, ServiceSteps
<1>9. ASSUME NEW b \in Clients, ClientQuery(b) PROVE [Service(c)!Next]_(Service(c)!vars)
  <2> DEFINE d == QueryFrom(b)
  <2>1. /\ UNCHANGED <<answered, mappings, pc, pkt>> /\ asked' = Append(asked, b)
        /\ rx' = [rx EXCEPT !["natpmp"] = Append(@, d)]
    BY <1>9 DEF ClientQuery, loopVars, Deliver
  <2>2. asked \in Seq(Clients) /\ asked' \in Seq(Clients) /\ rx["natpmp"] \in Seq(Datagram)
    BY <1>1 DEF TypeOK
  <2>3. d \in Datagram /\ (d \in QueriesOf(c) <=> b = c)
    <3>1. d \in Datagram
      BY <2>2 DEF QueryFrom, Datagram, Ports, Hosts
    <3> QED BY <3>1 DEF IsQueryOf, QueryFrom, QueriesOf
  <2> HIDE DEF d
  <2>4. Asked(c)' = Asked(c) + (IF b = c THEN 1 ELSE 0)
    <3>1. Asked(c) = Count(asked, {c}) /\ Asked(c)' = Count(asked', {c})
      BY <2>2, AskedCount DEF Asked
    <3>2. Count(Append(asked, b), {c}) = Count(asked, {c}) + (IF b \in {c} THEN 1 ELSE 0)
      BY <2>2, CountOneMore
    <3> QED BY <2>1, <3>1, <3>2
  <2>5. Queued(c)' = Queued(c) + (IF b = c THEN 1 ELSE 0)
    <3>1. rx'["natpmp"] = Append(rx["natpmp"], d)
      BY <1>1, <2>1 DEF TypeOK
    <3>2. Count(Append(rx["natpmp"], d), QueriesOf(c))
            = Count(rx["natpmp"], QueriesOf(c)) + (IF d \in QueriesOf(c) THEN 1 ELSE 0)
      BY <2>2, <2>3, CountOneMore
    <3> QED BY <2>3, <3>1, <3>2 DEF Queued
  <2>6. Waiting(c)' = Waiting(c) + (IF b = c THEN 1 ELSE 0)
    BY <1>2, <1>3, <2>1, <2>5
  <2>7. CASE b = c
    BY <1>3, <2>1, <2>4, <2>6, <2>7, ServiceSteps
  <2>8. CASE b # c
    <3>1. Asked(c)' = Asked(c) /\ Waiting(c)' = Waiting(c)
      BY <1>2, <2>4, <2>6, <2>8 DEF WaitingIs
    <3> QED BY <1>3, <2>1, <3>1, ServiceSteps
  <2> QED BY <2>7, <2>8
<1>10. ASSUME NEW d \in wan, Answer(d) PROVE [Service(c)!Next]_(Service(c)!vars)
  <2>1. UNCHANGED <<asked, answered, mappings, pc, pkt>> /\ rx'["natpmp"] = rx["natpmp"]
    BY <1>1, <1>10 DEF Answer, loopVars, Deliver, TypeOK
  <2>2. Waiting(c)' = Waiting(c)
    BY <1>2, <1>3, <2>1
  <2> QED BY <1>3, <2>1, <2>2, ServiceSteps
<1>11. CASE /\ UNCHANGED <<asked, answered, mappings, rx>>
            /\ (pc # "handle" /\ pc' # "handle") \/ (pc' = pc /\ pkt' = pkt)
  <2>1. Waiting(c)' = Waiting(c)
    BY <1>2, <1>3, <1>11
  <2> QED BY <1>3, <1>11, <2>1, ServiceSteps
<1>12. CASE \/ LoopTest \/ ArmSelect \/ SelectTimeout \/ SweepStart \/ SweepDone \/ Signal \/ Tick
            \/ UNCHANGED vars
  BY <1>11, <1>12 DEF LoopTest, ArmSelect, SelectTimeout, SweepStart, SweepDone, Signal, Tick,
     vars, loopVars, netVars, envVars
<1> QED BY <1>4, <1>5, <1>6, <1>7, <1>8, <1>9, <1>10, <1>12
        DEF Next, Proxy, Environment

(* Nothing is asked, answered or waiting when the loop begins.             *)
LEMMA ServiceInit == Init /\ TypeOK => \A c \in Clients : Service(c)!Init
<1> SUFFICES ASSUME Init, TypeOK, NEW c \in Clients PROVE Service(c)!Init
  OBVIOUS
<1>1. /\ asked = <<>> /\ mappings = <<>> /\ rx["natpmp"] = <<>> /\ pc = "test"
      /\ answered[<<c, "natpmp">>] = 0
  BY DEF Init, Hosts, Sockets
<1>2. Asked(c) = 0
  <2>1. asked \in Seq(Clients)
    BY DEF TypeOK
  <2>2. Asked(c) = Count(asked, {c})
    BY <2>1, AskedCount DEF Asked
  <2> QED BY <1>1, <2>2, CountNone
<1>3. WaitingIs(c)
  BY WaitingAlways
<1>4. Queued(c) = 0 /\ Pending(c) = 0 /\ InHand(c) = 0
  BY <1>1, CountNone DEF Queued, Pending, InHand
<1>5. Waiting(c) = 0
  BY <1>3, <1>4 DEF WaitingIs
<1> QED BY <1>1, <1>2, <1>5 DEF Service!Init

(* The relay implements RelayService for every client: whatever is lost,   *)
(* repeated or reordered, what a client is sent as an answer uses up a     *)
(* query of its own.  No query is answered twice, by a repeated answer for *)
(* instance, and none is multiplied on its way from the buffer through the *)
(* packet in hand to a mapping.                                            *)
THEOREM ImplementsTheService == Spec => ServesRequests
<1> DEFINE Counted == \A c \in Clients : WaitingIs(c)
           Step    == \A c \in Clients : [Service(c)!Next]_(Service(c)!vars)
<1>1. TypeOK => Counted
  BY WaitingAlways
<1>2. Init /\ TypeOK => \A c \in Clients : Service(c)!Init
  BY ServiceInit
<1>3. TypeOK /\ TypeOK' /\ FitInv /\ Counted /\ Counted' /\ [Next]_vars => [Step]_vars
  <2> SUFFICES ASSUME TypeOK, TypeOK', FitInv, Counted, Counted', [Next]_vars PROVE Step
    OBVIOUS
  <2> QED BY ServiceStep
<1> HIDE DEF Counted, Step
<1>4. Spec => [][Step]_vars
  BY <1>1, <1>3, TypeCorrect, FitAlways, PTL DEF Spec
<1>5. Spec => \A c \in Clients : Service(c)!Init
  BY <1>2, TypeCorrect, PTL DEF Spec
<1> QED BY <1>4, <1>5 DEF ServesRequests, Step
=============================================================================
