------------------------------ MODULE UdpRelay ------------------------------
(***************************************************************************)
(* The UDP relay of portproxy: run(), wait_for_traffic(), handle_packet()  *)
(* and ctx_mappings_remove_expired() of src/src/framework.c for classic    *)
(* NAT-PMP, the LAN clients and the AFTR around it, the clock and the      *)
(* signals.  UPnP UDP never gets as far as run() (SocketSetup).            *)
(*                                                                         *)
(* One thread runs the loop                                                *)
(*                                                                         *)
(*    test -> arm -> select -> [ handle -> ] sweep0 -> sweep -> test       *)
(*                                                                         *)
(* and everything else, packets, ticks and signals, may come between any   *)
(* two of these steps.                                                     *)
(***************************************************************************)
EXTENDS MappingTable

CONSTANTS
  enable_nat_pmp,   \* --nat-pmp
  shared_udp_sock,  \* --shared-udp-sock
  MaxTime,      \* bound: the clock stops here
  MaxQueries,   \* bound: queries the clients send
  MaxArrivals,  \* bound: answers that come from the AFTR
  RxCap         \* bound: datagrams a socket's receive buffer holds

ASSUME FeatureAssumption == {enable_nat_pmp, shared_udp_sock} \subseteq BOOLEAN
ASSUME BoundAssumption == {MaxTime, MaxQueries, MaxArrivals, RxCap} \subseteq Nat

VARIABLES
  pc,        \* where the thread is
  Shutdown,  \* set by signal_handler
  now,       \* the time of day
  clock,     \* what the last call of time(NULL) returned to the thread
  wake,      \* when the select() that was armed last gives up
  mappings,  \* ctx->mappings, head first
  rx,        \* socket -> datagrams waiting in its receive buffer
  pkt,       \* the datagram being handled, with the socket it came from
  asked,     \* query number -> the client that sent it
  wan,       \* datagrams that the proxy sent to the WAN
  lan,       \* datagrams that the proxy sent to the LAN
  answered,  \* host and socket -> answers that response_send sent to it
  arrivals,  \* answers that came from the AFTR
  overtime   \* datagrams taken up by the loop after Shutdown was set

loopVars == <<pc, Shutdown, clock, wake, mappings, pkt, overtime>>
netVars  == <<rx, wan, lan, answered>>
envVars  == <<asked, arrivals>>
vars     == <<loopVars, netVars, envVars, now>>

-----------------------------------------------------------------------------
(* Datagrams.  The payload is the number of the query it asks or answers;  *)
(* the proxy never looks at it.                                            *)

Datagram ==
  [src : Hosts, sport : Ports, dst : Hosts \cup {LanIP}, dport : Ports,
   kind : {"query", "response"}, id : Nat]

Packet ==
  [src : Hosts, sport : Ports, dst : Hosts \cup {LanIP}, dport : Ports,
   kind : {"query", "response"}, id : Nat, sock : Sockets]

Outgoing ==
  [via : Sockets, dst : Hosts, kind : {"query", "response"}, id : Nat]

Received(d, s) ==
  [src |-> d.src, sport |-> d.sport, dst |-> d.dst, dport |-> d.dport,
   kind |-> d.kind, id |-> d.id, sock |-> s]

Sent(p, via, dst) == [via |-> via, dst |-> dst, kind |-> p.kind, id |-> p.id]

(* ctx->sockets: sockets_bind adds at the head, so the list runs backwards *)
(* from the socket that was opened last.                                   *)
SocketList ==
  (IF shared_udp_sock THEN <<"shared">> ELSE <<>>)
    \o (IF enable_nat_pmp THEN <<"natpmp">> ELSE <<>>)

IsOpen(s) == \E i \in DOMAIN SocketList : SocketList[i] = s

(* A datagram for a socket that is closed or full is lost.                 *)
Deliverable(s) == IsOpen(s) /\ Len(rx[s]) < RxCap
Deliver(s, d) == rx' = [rx EXCEPT ![s] = Append(@, d)]

-----------------------------------------------------------------------------
Init ==
  /\ pc = "test" /\ Shutdown = FALSE
  /\ now = 0 /\ clock = 0 /\ wake = 0
  /\ mappings = <<>>
  /\ rx = [s \in Sockets |-> <<>>]
  /\ pkt = <<>>
  /\ asked = <<>> /\ arrivals = 0
  /\ wan = {} /\ lan = {}
  /\ answered = [r \in Hosts \X Sockets |-> 0]
  /\ overtime = 0

LoopTestFault ==   \* Shutdown is tested only while nothing waits for an answer
  /\ pc = "test"
  /\ pc' = IF Shutdown /\ mappings = <<>> THEN "stopped" ELSE "arm"
  /\ UNCHANGED <<Shutdown, clock, wake, mappings, pkt, overtime, netVars, envVars, now>>

(* run: while (!Shutdown)                                                  *)
LoopTest ==
  /\ pc = "test"
  /\ pc' = IF Shutdown THEN "stopped" ELSE "arm"
  /\ UNCHANGED <<Shutdown, clock, wake, mappings, pkt, overtime, netVars, envVars, now>>

(* wait_for_traffic: the timeout is computed, the set of sockets is built  *)
(* and select() is entered.  A signal before this step interrupts nothing. *)
ArmSelect ==
  /\ pc = "arm"
  /\ clock' = now
  /\ wake' = now + TimeoutGet(mappings, now)
  /\ pc' = "select"
  /\ UNCHANGED <<Shutdown, mappings, pkt, overtime, netVars, envVars, now>>

IsFirstReady(s) ==
  \E i \in DOMAIN SocketList :
     /\ SocketList[i] = s /\ rx[s] # <<>>
     /\ \A j \in 1 .. i - 1 : rx[SocketList[j]] = <<>>

(* select() returned because of data: the first readable socket of the     *)
(* list is read, and only that one.                                        *)
Receive(s) ==
  /\ pc = "select" /\ IsFirstReady(s)
  /\ pkt' = Received(Head(rx[s]), s)
  /\ rx' = [rx EXCEPT ![s] = Tail(@)]
  /\ pc' = "handle"
  /\ overtime' = IF Shutdown THEN overtime + 1 ELSE overtime
  /\ UNCHANGED <<Shutdown, clock, wake, mappings, wan, lan, answered, envVars, now>>

(* recvmsg() failed: the loop goes on without a packet.                    *)
ReceiveFails(s) ==
  /\ pc = "select" /\ IsFirstReady(s)
  /\ rx' = [rx EXCEPT ![s] = Tail(@)]
  /\ pc' = "sweep0"
  /\ UNCHANGED <<Shutdown, clock, wake, mappings, pkt, overtime,
                 wan, lan, answered, envVars, now>>

(* select() returned 0.                                                    *)
SelectTimeout ==
  /\ pc = "select" /\ now >= wake
  /\ \A s \in Sockets : ~ IsFirstReady(s)
  /\ pc' = "sweep0"
  /\ UNCHANGED <<Shutdown, clock, wake, mappings, pkt, overtime, netVars, envVars, now>>

-----------------------------------------------------------------------------
(* handle_packet, called for the packet that was just received.            *)

NoMatch(p) == \A i \in DOMAIN mappings : ~ Matches(mappings[i], p)

(* An answer goes to whoever made the mapping it matches; the mapping is   *)
(* deleted whether or not the answer could be sent.                        *)
ForwardResponse(i) ==
  /\ pc = "handle" /\ IsFound(mappings, pkt, i)
  /\ \E ok \in BOOLEAN :
        LET m == mappings[i] IN
        /\ lan' = IF ok THEN lan \cup {Sent(pkt, m.lanSock, m.client)} ELSE lan
        /\ answered' =
             IF ok THEN [answered EXCEPT ![<<m.client, m.lanSock>>] = @ + 1] ELSE answered
  /\ mappings' = MappingDelete(mappings, i)
  /\ pkt' = <<>> /\ pc' = "sweep0"
  /\ UNCHANGED <<Shutdown, clock, wake, overtime, rx, wan, envVars, now>>

(* packet_valid                                                            *)
PacketValid(p) == TRUE

(* query_socket_get followed by sock_get_port: without the shared socket   *)
(* the descriptor is 0, which is no socket, and every send on it fails.    *)
WanPort == IF shared_udp_sock THEN SharedPort ELSE NoPort

(* query_send: from the shared socket to the server of the mapping.        *)
Forwarded(m, p) ==
  [src |-> WanIP, sport |-> m.wanPort, dst |-> m.server, dport |-> m.routerPort,
   kind |-> p.kind, id |-> p.id]

(* Anything else is taken for a query: a mapping is made for the answer    *)
(* and stays, even when the query could not be sent.                       *)
ForwardQuery ==
  /\ pc = "handle" /\ NoMatch(pkt) /\ PacketValid(pkt)
  /\ LET m == MappingCreate(pkt, WanPort, now + Timeout) IN
     /\ mappings' = MappingAdd(mappings, m)
     /\ \E ok \in {FALSE, shared_udp_sock} :
           wan' = IF ok THEN wan \cup {Forwarded(m, pkt)} ELSE wan
  /\ pkt' = <<>> /\ pc' = "sweep0"
  /\ UNCHANGED <<Shutdown, clock, wake, overtime, rx, lan, answered, envVars, now>>

-----------------------------------------------------------------------------
(* ctx_mappings_remove_expired: the clock is read once; the list is walked *)
(* from the head and walked again from the head after each deletion.       *)

SweepStart ==
  /\ pc = "sweep0"
  /\ clock' = now /\ pc' = "sweep"
  /\ UNCHANGED <<Shutdown, wake, mappings, pkt, overtime, netVars, envVars, now>>

SweepOne(i) ==
  /\ pc = "sweep" /\ FirstExpired(mappings, clock, i)
  /\ mappings' = MappingDelete(mappings, i)
  /\ UNCHANGED <<pc, Shutdown, clock, wake, pkt, overtime, netVars, envVars, now>>

SweepDone ==
  /\ pc = "sweep" /\ \A i \in DOMAIN mappings : ~ Expired(mappings[i], clock)
  /\ pc' = "test"
  /\ UNCHANGED <<Shutdown, clock, wake, mappings, pkt, overtime, netVars, envVars, now>>

-----------------------------------------------------------------------------
(* The environment.                                                        *)

QueryFrom(c) ==
  [src |-> c, sport |-> ClientPort, dst |-> LanIP, dport |-> NatPmpPort,
   kind |-> "query", id |-> Len(asked) + 1]

(* A client asks for a port mapping.                                       *)
ClientQuery(c) ==
  /\ Len(asked) < MaxQueries /\ Deliverable("natpmp")
  /\ asked' = Append(asked, c)
  /\ Deliver("natpmp", QueryFrom(c))
  /\ UNCHANGED <<loopVars, wan, lan, answered, arrivals, now>>

AnswerTo(d) ==
  [src |-> AftrIP, sport |-> NatPmpPort, dst |-> d.src, dport |-> d.sport,
   kind |-> "response", id |-> d.id]

(* The AFTR answers a query that came to its NAT-PMP port: at any later    *)
(* time, more than once, in any order, or never.                           *)
Answer(d) ==
  /\ arrivals < MaxArrivals /\ Deliverable("shared")
  /\ d.kind = "query" /\ d.dst = AftrIP /\ d.dport = NatPmpPort
  /\ Deliver("shared", AnswerTo(d))
  /\ arrivals' = arrivals + 1
  /\ UNCHANGED <<loopVars, wan, lan, answered, asked, now>>

(* signal_handler; a select() that is waiting returns EINTR.               *)
Signal ==
  /\ ~ Shutdown \/ pc = "select"
  /\ Shutdown' = TRUE
  /\ pc' = IF pc = "select" THEN "sweep0" ELSE pc
  /\ UNCHANGED <<clock, wake, mappings, pkt, overtime, netVars, envVars, now>>

Tick ==
  /\ now < MaxTime
  /\ now' = now + 1
  /\ UNCHANGED <<loopVars, netVars, envVars>>

-----------------------------------------------------------------------------
Proxy ==
  \/ LoopTest \/ ArmSelect \/ SelectTimeout
  \/ \E s \in Sockets : Receive(s) \/ ReceiveFails(s)
  \/ \E i \in DOMAIN mappings : ForwardResponse(i)
  \/ ForwardQuery
  \/ SweepStart
  \/ \E i \in DOMAIN mappings : SweepOne(i)
  \/ SweepDone

Environment ==
  \/ \E c \in Clients : ClientQuery(c)
  \/ \E d \in wan : Answer(d)
  \/ Signal
  \/ Tick

Next == Proxy \/ Environment

Spec == Init /\ [][Next]_vars

-----------------------------------------------------------------------------
(* Every variable has its type: the table holds mappings, the buffers hold *)
(* datagrams, the thread handles a packet exactly in handle.               *)
TypeOK ==
  /\ pc \in {"test", "arm", "select", "handle", "sweep0", "sweep", "stopped"}
  /\ Shutdown \in BOOLEAN
  /\ now \in Nat /\ clock \in Nat /\ wake \in Nat
  /\ mappings \in Seq(Mapping)
  /\ rx \in [Sockets -> Seq(Datagram)]
  /\ pkt \in Packet \cup {<<>>}
  /\ pc = "handle" <=> pkt # <<>>
  /\ asked \in Seq(Clients)
  /\ wan \subseteq Datagram
  /\ lan \subseteq Outgoing
  /\ answered \in [Hosts \X Sockets -> Nat]
  /\ arrivals \in Nat /\ overtime \in Nat

(* mapping_add puts the youngest mapping at the head and stamps it with a  *)
(* clock that does not go back, so timeouts never grow along the list and  *)
(* no mapping expires later than one made now would.                       *)
TableSorted ==
  /\ \A i, j \in DOMAIN mappings :
        i < j => mappings[i].timeout >= mappings[j].timeout
  /\ \A i \in DOMAIN mappings : mappings[i].timeout <= now + Timeout

(* The timeout that ctx_timeout_get computed never makes select() sleep    *)
(* past the moment a mapping expires, but for the second it rounds up to,  *)
(* and is never zero, which would make the loop spin.                      *)
NeverOversleeps ==
  pc = "select" =>
     /\ wake > clock
     /\ \A i \in DOMAIN mappings :
           wake <= mappings[i].timeout \/ wake = clock + 1

(* Whatever the network loses, repeats and reorders: what a client is sent *)
(* as an answer stands for a query of its own, which is thereby done with, *)
(* and queries are given up, never multiplied.  A query waits in the       *)
(* receive buffer, in the packet in hand, or as a mapping.                 *)
IsQueryOf(d, c) == d.kind = "query" /\ d.src = c
Asked(c) == Cardinality({q \in DOMAIN asked : asked[q] = c})
Waiting(c) ==
  Cardinality({i \in DOMAIN rx["natpmp"] : IsQueryOf(rx["natpmp"][i], c)})
    + (IF pc = "handle" /\ IsQueryOf(pkt, c) THEN 1 ELSE 0)
    + Cardinality({i \in DOMAIN mappings :
                     mappings[i].client = c /\ mappings[i].lanSock = "natpmp"})
Service(c) ==
  INSTANCE RelayService WITH
    asked <- Asked(c), waiting <- Waiting(c), answered <- answered[<<c, "natpmp">>]
ServesRequests ==
  /\ \A c \in Clients : Service(c)!Init
  /\ [][\A c \in Clients : [Service(c)!Next]_(Service(c)!vars)]_vars

(* A late answer is taken for a query: it leaves a mapping whose client is *)
(* the AFTR beside those of the clients, with the same server and the same *)
(* WAN port.  Still nothing but an answer is ever sent as one, to a client *)
(* that asked, from the socket it asked at; no answer to a client's query  *)
(* is used up by such a mapping.                                           *)
AnswersReachClients ==
  \A o \in lan :
     /\ o.kind = "response" /\ o.via = "natpmp"
     /\ \E q \in DOMAIN asked : asked[q] = o.dst

(* response_send forwards an answer to the client whose query it answers.  *)
(* mapping_find cannot tell two clients that wait apart, so this fails as  *)
(* soon as there are two.                                                  *)
AnswerReachesAsker ==
  \A o \in lan : o.kind = "response" => o.dst = asked[o.id]

(* run() tests Shutdown once per packet: after the signal at most one more *)
(* packet is taken from a socket.                                          *)
OneLastPacket == overtime <= 1

(* A mapping leaves the table because its time is over or because a packet *)
(* it matches is being answered: neither the walk of                       *)
(* ctx_mappings_remove_expired nor mapping_delete loses another one.       *)
NoMappingLost ==
  [][\A i \in DOMAIN mappings :
        (\A j \in DOMAIN mappings' : mappings'[j] # mappings[i]) =>
           \/ mappings[i].timeout <= now
           \/ /\ pc = "handle" /\ pkt.dport = mappings[i].wanPort
              /\ pkt.sport = mappings[i].routerPort]_vars

(* packet_valid should let only the packets of clients become queries: no  *)
(* answer of the WAN is sent back to the WAN.                              *)
NoAnswerForwardedAsQuery == \A d \in wan : d.kind = "query"
=============================================================================
