----------------------------- MODULE ExtNatPmp ------------------------------
(***************************************************************************)
(* Extended NAT-PMP, the mode that is on by default: every query of a      *)
(* client goes to the AFTR over IPv6 behind a shim of 12 bytes that says   *)
(* who asked, and the shim of an answer says where to send it, so that no  *)
(* mapping is kept (handle_nat_pmp_ext_fromclient, ..._fromserver and      *)
(* handle_packet of src/src/framework.c).  UPnP UDP is not beside it: with *)
(* that service enabled the program never reaches run() (SocketSetup).     *)
(***************************************************************************)
EXTENDS Integers, Sequences

CONSTANTS
  Askers,           \* addresses and ports of clients
  Ids,              \* what distinguishes their queries
  Length,           \* id -> bytes of the query
  LittleEndian,     \* how the CPU stores an integer
  MaxAnswers,       \* bound: datagrams the AFTR sends
  RxCap             \* bound: datagrams waiting at a socket

MaxPort == 65535   \* a port has 16 bits

ASSUME AskerAssumption ==
  \A a \in Askers :
    /\ a = [addr |-> a.addr, port |-> a.port]
    /\ a.addr # "0.0.0.0" /\ a.port \in 1 .. MaxPort
ASSUME LengthAssumption == Length \in [Ids -> Nat]
ASSUME FlagAssumption == LittleEndian \in BOOLEAN
ASSUME BoundAssumption == MaxAnswers \in Nat /\ RxCap \in Nat

Query == [who : Askers, id : Ids]

(* ctx->sockets, head first.                                               *)
Sockets == <<"nat_pmp_ext", "nat_pmp_lan">>
SocketSet == {Sockets[i] : i \in DOMAIN Sockets}

-----------------------------------------------------------------------------
(* Bytes.  A port has two in network order, high before low; an int has    *)
(* four in memory.                                                         *)
High(p) == p \div 256
Low(p)  == p % 256
IntInMemory(p)   == IF LittleEndian THEN <<Low(p), High(p), 0, 0>>
                                    ELSE <<0, 0, High(p), Low(p)>>
ShortInMemory(p) == IF LittleEndian THEN <<Low(p), High(p)>> ELSE <<High(p), Low(p)>>
ShortAt(b)       == IF LittleEndian THEN b[1] + 256 * b[2] ELSE 256 * b[1] + b[2]
Ntohs(p)         == IF LittleEndian THEN 256 * Low(p) + High(p) ELSE p
NetworkPort(b)   == 256 * b[1] + b[2]

(* memcpy(buf+2, &pkt->srcPort, 2): the first two bytes of an int.         *)
PortField(port) == <<IntInMemory(port)[1], IntInMemory(port)[2]>>

DecodePortFault(field) ==   \* the assignment it replaced: memcpy of the field
  NetworkPort(field)

(* client.sin_port = ntohs(*(short*)(pkt->data+2)), as sendto() reads it.  *)
DecodePort(field) == NetworkPort(ShortInMemory(Ntohs(ShortAt(field))))

ShimLength == 12
MaxQuery   == 100
BufferSize == 128

(* The octets 4-7, the LAN address of this router, are the same always.    *)
Shim(who) == [len |-> ShimLength, tag |-> "P", port |-> PortField(who.port), client |-> who.addr]

Shims   == {Shim(a) : a \in Askers}
Encoded == [shim : Shims, id : Ids]

VARIABLES
  pc,         \* "select" or "handle"
  rx,         \* socket -> datagrams waiting
  pkt,        \* the packet in hand; [sock, kind, who, id, shim]
  wire,       \* what was sent to the AFTR so far
  filled,     \* bytes of buf that the last query took
  asked,      \* queries clients sent
  answered,   \* what they got
  answers     \* datagrams the AFTR sent, up to MaxAnswers

vars == <<pc, rx, pkt, wire, filled, asked, answered, answers>>

NoShim  == [len |-> 0, tag |-> "", port |-> <<0, 0>>, client |-> ""]
NoAsker == [addr |-> "0.0.0.0", port |-> 0]   \* sock_udp6_receive leaves the source zero
Datagram(kind, who, id, shim) == [kind |-> kind, who |-> who, id |-> id, shim |-> shim]
NoPacket == [sock |-> "none", dgram |-> Datagram("none", NoAsker, "none", NoShim)]

(* "query" from a client; "answer" of the AFTR, or a datagram of the AFTR  *)
(* that is too "short" for a shim or has none ("plain").                   *)
Queries == {Datagram("query", a, i, NoShim) : a \in Askers, i \in Ids}
Answers == {Datagram("answer", NoAsker, e.id, e.shim) : e \in Encoded}
Malformed ==
  {Datagram("short", NoAsker, "none", NoShim)}
    \cup {Datagram("plain", NoAsker, "none", [s EXCEPT !.len = 0]) : s \in Shims}
Datagrams == Queries \cup Answers \cup Malformed

Init ==
  /\ pc = "select"
  /\ rx = [s \in SocketSet |-> <<>>]
  /\ pkt = NoPacket
  /\ wire = {} /\ filled = 0
  /\ asked = {} /\ answered = {} /\ answers = 0

-----------------------------------------------------------------------------
IsFirstReady(i) ==
  /\ rx[Sockets[i]] # <<>>
  /\ \A j \in DOMAIN Sockets : j < i => rx[Sockets[j]] = <<>>

(* wait_for_traffic, sock_udp_receive and sock_udp6_receive.               *)
Receive ==
  /\ pc = "select" /\ pc' = "handle"
  /\ \E i \in DOMAIN Sockets :
        /\ IsFirstReady(i)
        /\ pkt' = [sock |-> Sockets[i], dgram |-> Head(rx[Sockets[i]])]
        /\ rx' = [rx EXCEPT ![Sockets[i]] = Tail(@)]
  /\ UNCHANGED <<wire, filled, asked, answered, answers>>

Done == pc' = "select" /\ pkt' = NoPacket

Bytes(d) == IF d.id \in Ids THEN Length[d.id] ELSE 0

IsFromServerFault == pkt.dgram.kind = "answer"   \* told by the content

IsFromServer == pkt.sock = "nat_pmp_ext"

(* At least 12 bytes, the first of them 12 and 'P'.                        *)
WellFormed ==
  pkt.dgram.kind # "short" /\ pkt.dgram.shim.len = ShimLength /\ pkt.dgram.shim.tag = "P"

(* Where handle_nat_pmp_ext_fromserver sends an answer.                    *)
LeadsTo(shim) == [addr |-> shim.client, port |-> DecodePort(shim.port)]
Destination == LeadsTo(pkt.dgram.shim)

(* handle_nat_pmp_ext_fromserver; sendto() refuses port 0.                 *)
FromServer ==
  /\ pc = "handle" /\ IsFromServer
  /\ answered' = IF WellFormed /\ Destination.port # 0
                   THEN answered \cup {[who |-> Destination, id |-> pkt.dgram.id]}
                   ELSE answered
  /\ Done
  /\ UNCHANGED <<rx, wire, filled, asked, answers>>

FitsFault(d) == Bytes(d) <= BufferSize   \* the shim is forgotten

Fits(d) == Bytes(d) <= MaxQuery

(* handle_nat_pmp_ext_fromclient: whatever did not come from the AFTR is   *)
(* a client's.                                                             *)
FromClient ==
  /\ pc = "handle" /\ ~ IsFromServer
  /\ IF Fits(pkt.dgram)
       THEN /\ filled' = ShimLength + Bytes(pkt.dgram)
            /\ \/ wire' = wire \cup {[shim |-> Shim(pkt.dgram.who), id |-> pkt.dgram.id]}
               \/ UNCHANGED wire   \* send() failed
       ELSE UNCHANGED <<wire, filled>>
  /\ Done
  /\ UNCHANGED <<rx, asked, answered, answers>>

-----------------------------------------------------------------------------
(* A datagram arrives, or is lost.                                         *)
Arrives(s, d) ==
  \/ Len(rx[s]) < RxCap /\ rx' = [rx EXCEPT ![s] = Append(@, d)]
  \/ UNCHANGED rx

ClientAsks(a, i) ==
  /\ asked' = asked \cup {[who |-> a, id |-> i]}
  /\ Arrives("nat_pmp_lan", Datagram("query", a, i, NoShim))
  /\ UNCHANGED <<pc, pkt, wire, filled, answered, answers>>

(* The AFTR answers what it got with the same shim: late, in any order,    *)
(* more than once or never; or it knows nothing of shims.                  *)
ServerSends(d) ==
  /\ answers < MaxAnswers
  /\ answers' = answers + 1
  /\ d \in Malformed \/ \E e \in wire : d = Datagram("answer", NoAsker, e.id, e.shim)
  /\ Arrives("nat_pmp_ext", d)
  /\ UNCHANGED <<pc, pkt, wire, filled, asked, answered>>

Proxy == Receive \/ FromServer \/ FromClient

Environment ==
  \/ \E a \in Askers, i \in Ids : ClientAsks(a, i)
  \/ \E d \in Answers \cup Malformed : ServerSends(d)

Next == Proxy \/ Environment

Spec == Init /\ [][Next]_vars

-----------------------------------------------------------------------------
(* Every variable has its type: what is sent has the shim of some client   *)
(* address and port, and answers go to clients of the LAN.                 *)
TypeOK ==
  /\ pc \in {"select", "handle"}
  /\ rx \in [SocketSet -> Seq(Datagrams)]
  /\ wire \subseteq Encoded
  /\ filled \in Nat
  /\ asked \cup answered \subseteq Query
  /\ answers \in 0 .. MaxAnswers

(* Answers reach those who asked, on the port they asked from, although    *)
(* several clients ask at a time, the AFTR may repeat, reorder and delay   *)
(* its answers, send some without the shim, and portproxy keeps nothing.   *)
Service == INSTANCE QueryService
ServesQueries == Service!Spec

(* Shim and query fit the 128 bytes of buf, whatever a client sends.       *)
QueryFitsBuffer == filled <= BufferSize

(* What goes through the tunnel is a query that a client sent, under the   *)
(* shim of that client and no other's; what the AFTR itself sent does not  *)
(* go back to it, not even what is no answer to anything: the two handlers *)
(* are told apart by the socket (framework.c:898).                         *)
AftrHearsClientsOnly ==
  \A e \in wire : \E q \in asked : e = [shim |-> Shim(q.who), id |-> q.id]

(* The shim that leaves leads back to the port the client used.            *)
ShimLeadsBack ==
  \A e \in wire : LeadsTo(e.shim) \in Askers
=============================================================================
