-------------------------- MODULE ExtNatPmpProofs ---------------------------
(***************************************************************************)
(* Proofs about ExtNatPmp for all clients, queries and bounds, and either  *)
(* byte order.                                                             *)
(***************************************************************************)
EXTENDS ExtNatPmp, TLAPS

(* A port is its two bytes.                                                *)
LEMMA HighLow ==
  ASSUME NEW p \in Nat, p <= MaxPort
  PROVE  High(p) \in 0 .. 255 /\ Low(p) \in 0 .. 255 /\ p = 256 * High(p) + Low(p)
<1>1. p \div 256 >= 0 /\ p \div 256 \in Int /\ p \div 256 <= 255
  BY DEF MaxPort
<1>2. p % 256 \in 0 .. 255 /\ p = 256 * (p \div 256) + (p % 256)
  OBVIOUS
<1> QED BY <1>1, <1>2 DEF Low, High

(* Two bytes come back out of the number they make.                        *)
LEMMA BytesBack ==
  ASSUME NEW h \in 0 .. 255, NEW l \in 0 .. 255
  PROVE  (256 * h + l) \div 256 = h /\ (256 * h + l) % 256 = l
OBVIOUS

(* On a little-endian CPU the two conversions undo each other.             *)
LEMMA LittleBytes ==
  ASSUME LittleEndian, NEW p \in Nat, p <= MaxPort
  PROVE  DecodePort(PortField(p)) = p
<1> DEFINE h == High(p)
           l == Low(p)
<1>1. h \in 0 .. 255 /\ l \in 0 .. 255 /\ p = 256 * h + l
  BY HighLow
<1>2. PortField(p) = <<l, h>>
  BY DEF PortField, IntInMemory
<1>3. Ntohs(p) = 256 * l + h
  BY DEF Ntohs
<1> HIDE DEF h, l
<1>4. ShortAt(<<l, h>>) = p
  BY <1>1 DEF ShortAt
<1>5. High(256 * l + h) = l /\ Low(256 * l + h) = h
  <2>1. h \in 0 .. 255 /\ l \in 0 .. 255
    BY <1>1
  <2>2. (256 * l + h) \div 256 = l /\ (256 * l + h) % 256 = h
    BY <2>1, BytesBack
  <2> QED BY <2>2 DEF High, Low
<1>6. ShortInMemory(256 * l + h) = <<h, l>>
  BY <1>5 DEF ShortInMemory
<1>7. NetworkPort(<<h, l>>) = p
  BY <1>1 DEF NetworkPort
<1> QED BY <1>2, <1>3, <1>4, <1>6, <1>7 DEF DecodePort

(* The port survives the network on a little-endian CPU; on a big-endian   *)
(* one a zero comes back.                                                  *)
LEMMA PortComesBack ==
  ASSUME NEW p \in 1 .. MaxPort
  PROVE  DecodePort(PortField(p)) = IF LittleEndian THEN p ELSE 0
<1>1. p \in Nat /\ p <= MaxPort
  BY DEF MaxPort
<1>2. CASE LittleEndian
  BY <1>1, <1>2, LittleBytes
<1>3. CASE ~ LittleEndian
  <2>1. PortField(p) = <<0, 0>>
    BY <1>3 DEF PortField, IntInMemory
  <2>2. ShortAt(<<0, 0>>) = 0 /\ Ntohs(0) = 0
    BY <1>3 DEF ShortAt, Ntohs
  <2>3. High(0) = 0 /\ Low(0) = 0
    BY DEF High, Low
  <2>4. NetworkPort(ShortInMemory(0)) = 0
    BY <1>3, <2>3 DEF ShortInMemory, NetworkPort
  <2> QED BY <2>1, <2>2, <2>4, <1>3 DEF DecodePort
<1> QED BY <1>2, <1>3

-----------------------------------------------------------------------------
(* The inductive invariant.  What waits at a socket, or is in hand, is of a*)
(* kind that comes to this socket; a client's datagram was asked for, and  *)
(* the shim and the number of an answer were sent to the AFTR.             *)
Belongs(s, d, asks, sent) ==
  /\ d.kind = "query" =>
       s # "nat_pmp_ext" /\ d.who \in Askers /\ [who |-> d.who, id |-> d.id] \in asks
  /\ d.kind \in {"answer", "short", "plain"} => s = "nat_pmp_ext"
  /\ d.kind = "answer" => [shim |-> d.shim, id |-> d.id] \in sent
  /\ d.kind = "plain" => d.shim.len = 0

InService ==
  /\ \A s \in SocketSet : \A k \in DOMAIN rx[s] : Belongs(s, rx[s][k], asked, wire)
  /\ pc = "handle" => /\ pkt.sock \in SocketSet /\ pkt.dgram \in Datagrams
                      /\ Belongs(pkt.sock, pkt.dgram, asked, wire)

Inv == TypeOK /\ InService /\ QueryFitsBuffer /\ AftrHearsClientsOnly

(* A datagram is of one of the four kinds.                                 *)
LEMMA KindIs ==
  ASSUME NEW d \in Datagrams
  PROVE  d.kind \in {"query", "answer", "short", "plain"}
BY DEF Datagrams, Queries, Answers, Malformed, Datagram

(* What belongs to a socket goes on to, whatever else is asked or sent.    *)
LEMMA StillBelongs ==
  ASSUME NEW asks, NEW sent, NEW more, NEW further, asks \subseteq more, sent \subseteq further,
         NEW s, NEW d, Belongs(s, d, asks, sent)
  PROVE  Belongs(s, d, more, further)
BY DEF Belongs

(* A socket's queue after a datagram has come, or was lost.                *)
LEMMA ArrivesFacts ==
  ASSUME TypeOK, InService, NEW s \in SocketSet, NEW d \in Datagrams, Arrives(s, d),
         asked \subseteq asked', wire \subseteq wire', Belongs(s, d, asked', wire'),
         UNCHANGED <<pc, pkt>>
  PROVE  rx' \in [SocketSet -> Seq(Datagrams)] /\ InService'
<1>1. rx \in [SocketSet -> Seq(Datagrams)]
  BY DEF TypeOK
<1>2. CASE UNCHANGED rx
  BY <1>1, <1>2, StillBelongs DEF InService
<1>3. CASE rx' = [rx EXCEPT ![s] = Append(@, d)]
  <2>1. rx' \in [SocketSet -> Seq(Datagrams)]
    BY <1>1, <1>3
  <2>2. ASSUME NEW t \in SocketSet, NEW k \in DOMAIN rx'[t] PROVE Belongs(t, rx'[t][k], asked', wire')
    <3>1. CASE t = s
      <4>1. rx'[t] = Append(rx[s], d) /\ rx[s] \in Seq(Datagrams)
        BY <3>1, <1>1, <1>3
      <4>2. CASE k = Len(rx[s]) + 1
        BY <4>1, <4>2, <3>1
      <4>3. CASE k # Len(rx[s]) + 1
        <5>1. k \in DOMAIN rx[s] /\ rx'[t][k] = rx[s][k]
          BY <4>1, <4>3, <2>2
        <5> QED BY <5>1, <3>1, StillBelongs DEF InService
      <4> QED BY <4>2, <4>3
    <3>2. CASE t # s
      <4>1. rx'[t] = rx[t]
        BY <3>2, <1>1, <1>3
      <4> QED BY <4>1, <2>2, StillBelongs DEF InService
    <3> QED BY <3>1, <3>2
  <2>3. pc' = "handle" => /\ pkt'.sock \in SocketSet /\ pkt'.dgram \in Datagrams
                          /\ Belongs(pkt'.sock, pkt'.dgram, asked', wire')
    BY StillBelongs DEF InService
  <2> QED BY <2>1, <2>2, <2>3 DEF InService
<1> QED BY <1>2, <1>3 DEF Arrives

(* The two sockets.                                                        *)
LEMMA SocketsThere == SocketSet = {"nat_pmp_ext", "nat_pmp_lan"}
<1>1. DOMAIN Sockets = 1 .. 2 /\ Sockets[1] = "nat_pmp_ext" /\ Sockets[2] = "nat_pmp_lan"
  BY DEF Sockets
<1> QED BY <1>1 DEF SocketSet

(* A query has a number of its own.                                        *)
LEMMA QueryId ==
  ASSUME NEW d \in Datagrams, d.kind = "query"
  PROVE  d.id \in Ids
BY DEF Datagrams, Queries, Answers, Malformed, Datagram

(* What leaves for the AFTR fits, whatever is in hand.                     *)
LEMMA FillFits ==
  ASSUME NEW d \in Datagrams, Fits(d)
  PROVE  ShimLength + Bytes(d) \in 0 .. BufferSize
<1>1. Bytes(d) \in Nat
  BY LengthAssumption DEF Bytes
<1> QED BY <1>1 DEF Fits, ShimLength, MaxQuery, BufferSize

(* The way back that a shim tells is the client it was made for.           *)
LEMMA WayBack ==
  ASSUME NEW a \in Askers, LeadsTo(Shim(a)).port # 0
  PROVE  LeadsTo(Shim(a)) = a
<1>1. a = [addr |-> a.addr, port |-> a.port] /\ a.port \in 1 .. MaxPort
  BY AskerAssumption
<1>2. LeadsTo(Shim(a)) = [addr |-> a.addr, port |-> DecodePort(PortField(a.port))]
  BY DEF Shim, LeadsTo
<1>3. DecodePort(PortField(a.port)) = a.port
  BY <1>1, <1>2, PortComesBack
<1> QED BY <1>1, <1>2, <1>3

-----------------------------------------------------------------------------
(* Nothing waits anywhere when the loop begins.                            *)
LEMMA InvInit == Init => Inv
<1> SUFFICES ASSUME Init PROVE Inv
  OBVIOUS
<1>1. TypeOK
  BY BoundAssumption DEF Init, TypeOK
<1>2. InService
  BY DEF Init, InService
<1>3. QueryFitsBuffer /\ AftrHearsClientsOnly
  BY DEF Init, QueryFitsBuffer, AftrHearsClientsOnly, BufferSize
<1> QED BY <1>1, <1>2, <1>3 DEF Inv

(* Dequeueing keeps what waits in order, so what was in hand belonged.     *)
LEMMA ReceiveKeeps ==
  ASSUME TypeOK, InService, Receive
  PROVE  rx' \in [SocketSet -> Seq(Datagrams)] /\ InService'
<1>1. PICK i \in DOMAIN Sockets :
        /\ rx[Sockets[i]] # <<>>
        /\ pkt' = [sock |-> Sockets[i], dgram |-> Head(rx[Sockets[i]])]
        /\ rx' = [rx EXCEPT ![Sockets[i]] = Tail(@)]
  BY DEF Receive, IsFirstReady
<1> DEFINE s == Sockets[i]
<1>2. s \in SocketSet /\ rx \in [SocketSet -> Seq(Datagrams)] /\ asked' = asked /\ wire' = wire
  BY DEF SocketSet, TypeOK, Receive
<1> HIDE DEF s
<1>3. /\ rx[s] \in Seq(Datagrams) /\ rx[s] # <<>>
      /\ pkt' = [sock |-> s, dgram |-> Head(rx[s])]
      /\ rx' = [rx EXCEPT ![s] = Tail(@)]
  BY <1>1, <1>2 DEF s
<1>4. rx' \in [SocketSet -> Seq(Datagrams)]
  BY <1>2, <1>3
<1>5. ASSUME NEW t \in SocketSet, NEW k \in DOMAIN rx'[t]
      PROVE  Belongs(t, rx'[t][k], asked, wire)
  <2>1. CASE t = s
    <3>1. rx'[t] = Tail(rx[s])
      BY <2>1, <1>2, <1>3
    <3>2. k + 1 \in DOMAIN rx[s] /\ rx'[t][k] = rx[s][k + 1]
      BY <3>1, <1>3, <1>5
    <3> QED BY <3>2, <2>1 DEF InService
  <2>2. CASE t # s
    <3>1. rx'[t] = rx[t]
      BY <2>2, <1>2, <1>3
    <3> QED BY <3>1, <1>5 DEF InService
  <2> QED BY <2>1, <2>2
<1>6. /\ pkt'.sock \in SocketSet /\ pkt'.dgram \in Datagrams
      /\ Belongs(pkt'.sock, pkt'.dgram, asked, wire)
  <2>1. 1 \in DOMAIN rx[s] /\ Head(rx[s]) = rx[s][1] /\ Head(rx[s]) \in Datagrams
    BY <1>3
  <2> QED BY <2>1, <1>2, <1>3 DEF InService
<1> QED BY <1>2, <1>4, <1>5, <1>6 DEF InService

(* A well-formed answer with a port leads to one who asked.                *)
LEMMA AnswerIsAsked ==
  ASSUME Inv, FromServer, WellFormed, Destination.port # 0
  PROVE  [who |-> Destination, id |-> pkt.dgram.id] \in asked
<1>1. /\ pkt.sock = "nat_pmp_ext" /\ pkt.dgram \in Datagrams
      /\ Belongs(pkt.sock, pkt.dgram, asked, wire)
  BY DEF Inv, InService, FromServer, IsFromServer
<1>2. pkt.dgram.kind = "answer"
  BY <1>1, KindIs DEF Belongs, WellFormed, ShimLength
<1>3. PICK q \in asked :
        [shim |-> pkt.dgram.shim, id |-> pkt.dgram.id] = [shim |-> Shim(q.who), id |-> q.id]
  BY <1>1, <1>2 DEF Belongs, Inv, AftrHearsClientsOnly
<1>4. q.who \in Askers /\ q = [who |-> q.who, id |-> q.id]
  BY DEF Inv, TypeOK, Query
<1>5. pkt.dgram.shim = Shim(q.who) /\ pkt.dgram.id = q.id
  BY <1>3
<1>6. Destination = q.who
  BY <1>4, <1>5, WayBack DEF Destination
<1> QED BY <1>4, <1>5, <1>6

(* What a client's handler gets was asked by a client.                     *)
LEMMA QueryIsAsked ==
  ASSUME Inv, FromClient
  PROVE  /\ pkt.dgram \in Datagrams /\ pkt.dgram.who \in Askers
         /\ [who |-> pkt.dgram.who, id |-> pkt.dgram.id] \in asked /\ pkt.dgram.id \in Ids
<1>1. pkt.dgram \in Datagrams /\ Belongs(pkt.sock, pkt.dgram, asked, wire)
  BY DEF Inv, InService, FromClient
<1>2. pkt.dgram.kind = "query"
  BY <1>1, KindIs DEF Belongs, FromClient, IsFromServer
<1> QED BY <1>1, <1>2, QueryId DEF Belongs

(* An answer of the AFTR goes back to the client in its shim.              *)
LEMMA FromServerKeeps == ASSUME Inv, FromServer PROVE Inv'
<1>1. answered' \subseteq Query
  BY AnswerIsAsked DEF Inv, TypeOK, FromServer
<1>2. TypeOK'
  BY <1>1 DEF Inv, TypeOK, FromServer, Done
<1>3. InService'
  BY DEF Inv, InService, FromServer, Done
<1>4. QueryFitsBuffer' /\ AftrHearsClientsOnly'
  BY DEF Inv, QueryFitsBuffer, AftrHearsClientsOnly, FromServer
<1> QED BY <1>2, <1>3, <1>4 DEF Inv

(* A query gets its shim and goes to the AFTR.                             *)
LEMMA FromClientKeeps == ASSUME Inv, FromClient PROVE Inv'
<1> DEFINE new == [shim |-> Shim(pkt.dgram.who), id |-> pkt.dgram.id]
<1>1. wire' = wire \/ wire' = wire \cup {new}
  BY DEF FromClient
<1>2. /\ pkt.dgram \in Datagrams /\ pkt.dgram.who \in Askers
      /\ [who |-> pkt.dgram.who, id |-> pkt.dgram.id] \in asked /\ pkt.dgram.id \in Ids
  BY QueryIsAsked
<1>3. wire \subseteq wire' /\ asked' = asked /\ rx' = rx /\ pc' = "select"
  BY <1>1 DEF FromClient, Done
<1>4. filled' \in Nat /\ filled' <= BufferSize
  <2>1. CASE Fits(pkt.dgram)
    <3>1. ShimLength + Bytes(pkt.dgram) \in 0 .. BufferSize
      BY <1>2, <2>1, FillFits
    <3> QED BY <3>1, <2>1 DEF FromClient, BufferSize
  <2>2. CASE ~ Fits(pkt.dgram)
    BY <2>2 DEF Inv, TypeOK, QueryFitsBuffer, FromClient
  <2> QED BY <2>1, <2>2
<1>5. new \in Encoded
  BY <1>2 DEF Shims, Encoded
<1>6. TypeOK'
  <2>1. wire' \subseteq Encoded
    BY <1>1, <1>5 DEF Inv, TypeOK
  <2> QED BY <2>1, <1>3, <1>4 DEF Inv, TypeOK, FromClient
<1>7. InService'
  BY <1>3, StillBelongs DEF Inv, InService
<1>8. AftrHearsClientsOnly'
  <2>1. \E q \in asked : new = [shim |-> Shim(q.who), id |-> q.id]
    BY <1>2
  <2> QED BY <2>1, <1>1, <1>3 DEF Inv, AftrHearsClientsOnly
<1> QED BY <1>4, <1>6, <1>7, <1>8 DEF Inv, QueryFitsBuffer

(* A datagram that comes to a socket it belongs to.                        *)
LEMMA ArrivalKeeps ==
  ASSUME Inv, NEW s \in SocketSet, NEW d \in Datagrams, Arrives(s, d),
         Belongs(s, d, asked', wire), asked \subseteq asked',
         asked' \subseteq Query, answers' \in 0 .. MaxAnswers,
         UNCHANGED <<pc, pkt, wire, filled, answered>>
  PROVE  Inv'
<1>1. rx' \in [SocketSet -> Seq(Datagrams)] /\ InService'
  BY ArrivesFacts DEF Inv
<1>2. TypeOK'
  BY <1>1 DEF Inv, TypeOK
<1>3. QueryFitsBuffer' /\ AftrHearsClientsOnly'
  BY DEF Inv, QueryFitsBuffer, AftrHearsClientsOnly
<1> QED BY <1>1, <1>2, <1>3 DEF Inv

(* A client asks: its query waits at the LAN socket and belongs there.     *)
LEMMA ClientAsksKeeps == ASSUME Inv, NEW a \in Askers, NEW i \in Ids, ClientAsks(a, i) PROVE Inv'
<1> DEFINE d == Datagram("query", a, i, NoShim)
<1>1. d \in Datagrams /\ d.kind = "query" /\ d.who = a /\ d.id = i
  BY DEF Datagrams, Queries, Datagram
<1>2. asked' = asked \cup {[who |-> a, id |-> i]} /\ wire' = wire
  BY DEF ClientAsks
<1>3. Belongs("nat_pmp_lan", d, asked', wire)
  BY <1>1, <1>2 DEF Belongs
<1>4. asked' \subseteq Query
  BY <1>2 DEF Inv, TypeOK, Query
<1> HIDE DEF d
<1>5. answers' \in 0 .. MaxAnswers
  BY DEF ClientAsks, Inv, TypeOK
<1> QED BY <1>1, <1>2, <1>3, <1>4, <1>5, SocketsThere, ArrivalKeeps DEF ClientAsks, d

(* The AFTR sends an answer to a query that it got, or something           *)
(* malformed.                                                              *)
LEMMA ServerSendsKeeps ==
  ASSUME Inv, NEW d \in Answers \cup Malformed, ServerSends(d)
  PROVE  Inv'
<1>1. d \in Datagrams
  BY DEF Datagrams
<1>2. Belongs("nat_pmp_ext", d, asked', wire)
  <2>1. CASE d \in Malformed
    <3>1. CASE d = Datagram("short", NoAsker, "none", NoShim)
      BY <3>1 DEF Datagram, Belongs
    <3>2. CASE \E s \in Shims : d = Datagram("plain", NoAsker, "none", [s EXCEPT !.len = 0])
      <4>1. PICK a \in Askers : d = Datagram("plain", NoAsker, "none", [Shim(a) EXCEPT !.len = 0])
        BY <3>2 DEF Shims
      <4>2. d.kind = "plain" /\ d.shim.len = 0
        BY <4>1 DEF Datagram, Shim
      <4> QED BY <4>2 DEF Belongs
    <3> QED BY <2>1, <3>1, <3>2 DEF Malformed
  <2>2. CASE \E e \in wire : d = Datagram("answer", NoAsker, e.id, e.shim)
    <3>1. PICK e \in wire : d = Datagram("answer", NoAsker, e.id, e.shim)
      BY <2>2
    <3>2. e = [shim |-> e.shim, id |-> e.id]
      BY DEF Inv, TypeOK, Encoded
    <3> QED BY <3>1, <3>2 DEF Belongs, Datagram
  <2> QED BY <2>1, <2>2 DEF ServerSends
<1>3. answers' \in 0 .. MaxAnswers /\ asked' = asked /\ "nat_pmp_ext" \in SocketSet
  BY SocketsThere, BoundAssumption DEF ServerSends, Inv, TypeOK
<1>4. asked' \subseteq Query
  BY <1>3 DEF Inv, TypeOK
<1> QED BY <1>1, <1>2, <1>3, <1>4, ArrivalKeeps DEF ServerSends

(* Every step keeps what waits and what is in hand where it belongs.       *)
LEMMA InvNext == Inv /\ [Next]_vars => Inv'
<1> SUFFICES ASSUME Inv, [Next]_vars PROVE Inv'
  OBVIOUS
<1>1. CASE Receive
  <2>1. rx' \in [SocketSet -> Seq(Datagrams)] /\ InService'
    BY <1>1, ReceiveKeeps DEF Inv
  <2>2. TypeOK'
    BY <1>1, <2>1 DEF Inv, TypeOK, Receive
  <2>3. QueryFitsBuffer' /\ AftrHearsClientsOnly'
    BY <1>1 DEF Inv, QueryFitsBuffer, AftrHearsClientsOnly, Receive
  <2> QED BY <2>1, <2>2, <2>3 DEF Inv
<1>2. CASE FromServer \/ FromClient
  BY <1>2, FromServerKeeps, FromClientKeeps
<1>3. CASE Environment
  BY <1>3, ClientAsksKeeps, ServerSendsKeeps DEF Environment
<1>4. CASE UNCHANGED vars
  BY <1>4 DEF vars, Inv, TypeOK, InService, QueryFitsBuffer, AftrHearsClientsOnly
<1> QED BY <1>1, <1>2, <1>3, <1>4 DEF Next, Proxy

(* So whatever waits or is in hand belongs there, at any time.             *)
LEMMA InvAlways == Spec => []Inv
BY InvInit, InvNext, PTL DEF Spec

-----------------------------------------------------------------------------
(* Every variable keeps its type: in particular the shims in the tunnel and*)
(* the addresses that answers go to are those of clients.                  *)
THEOREM TypeCorrect == Spec => []TypeOK
<1>1. Inv => TypeOK
  BY DEF Inv
<1> QED BY <1>1, InvAlways, PTL

(* The shim and the longest query that is taken fit the 128 bytes of the   *)
(* buffer of handle_nat_pmp_ext_fromclient, for queries of any length.     *)
THEOREM NeverOverfills == Spec => []QueryFitsBuffer
<1>1. Inv => QueryFitsBuffer
  BY DEF Inv
<1> QED BY <1>1, InvAlways, PTL

(* handle_packet tunnels what clients sent, each query under the shim of   *)
(* the client it came from, and never what the AFTR sent, however many     *)
(* clients ask at a time and whatever is lost or comes without a shim.     *)
THEOREM TunnelIsForClients == Spec => []AftrHearsClientsOnly
<1>1. Inv => AftrHearsClientsOnly
  BY DEF Inv
<1> QED BY <1>1, InvAlways, PTL

-----------------------------------------------------------------------------
(* Every step is a step of the abstract service, or none: only a client's  *)
(* question and handle_nat_pmp_ext_fromserver's answer show.               *)
LEMMA StepServes ==
  ASSUME Inv, [Next]_vars
  PROVE  [Service!Next]_<<asked, answered>>
<1>1. ASSUME NEW q \in Query, Service!Ask(q) \/ Service!Answer(q)
      PROVE  Service!Next
  BY <1>1 DEF Service!Next, Query, Service!Query
<1>2. ASSUME NEW a \in Askers, NEW i \in Ids, ClientAsks(a, i) PROVE Service!Next
  <2>1. Service!Ask([who |-> a, id |-> i])
    BY <1>2 DEF ClientAsks, Service!Ask
  <2> QED BY <2>1, <1>1 DEF Query
<1>3. CASE FromServer
  <2> DEFINE q == [who |-> Destination, id |-> pkt.dgram.id]
  <2>1. CASE WellFormed /\ Destination.port # 0
    <3>1. q \in asked
      BY <1>3, <2>1, AnswerIsAsked
    <3>2. q \in Query
      BY <3>1 DEF Inv, TypeOK
    <3>3. Service!Answer(q)
      BY <3>1, <1>3, <2>1 DEF FromServer, Service!Answer
    <3> QED BY <3>2, <3>3, <1>1
  <2>2. CASE ~ (WellFormed /\ Destination.port # 0)
    BY <1>3, <2>2 DEF FromServer
  <2> QED BY <2>1, <2>2
<1>4. CASE Receive \/ FromClient
  BY <1>4 DEF Receive, FromClient
<1>5. ASSUME NEW d \in Answers \cup Malformed, ServerSends(d)
      PROVE  UNCHANGED <<asked, answered>>
  BY <1>5 DEF ServerSends
<1>6. CASE Environment
  BY <1>2, <1>5, <1>6 DEF Environment
<1>7. CASE UNCHANGED vars
  BY <1>7 DEF vars
<1> QED BY <1>3, <1>4, <1>6, <1>7 DEF Next, Proxy

(* Extended NAT-PMP, which keeps no table, implements the service that a   *)
(* client expects: answers come to the client and port that asked, on CPUs *)
(* of either byte order, whatever the AFTR repeats, reorders, delays or    *)
(* sends without a shim.                                                   *)
THEOREM ImplementsTheService == Spec => ServesQueries
<1>1. Init => Service!Init
  BY DEF Init, Service!Init
<1>2. Inv /\ [Next]_vars => [Service!Next]_<<asked, answered>>
  BY StepServes
<1> QED BY <1>1, <1>2, InvAlways, PTL DEF Spec, ServesQueries, Service!Spec
=============================================================================
