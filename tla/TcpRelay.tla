------------------------------ MODULE TcpRelay ------------------------------
(***************************************************************************)
(* The TCP relay of UPnP TCP mode: sock_tcp_accept, sock_tcp_receive,      *)
(* handle_tcp_packet and handle_tcp_close of src/src/framework.c, as run() *)
(* calls them.  Each client connection is relayed to a connection of its   *)
(* own to the AFTR; the two descriptors name each other as "peer".         *)
(*                                                                         *)
(* The kernel and the two far ends are modelled as far as portproxy sees   *)
(* them: descriptor numbers are reused, lowest first, an end may finish    *)
(* sending, close or reset at any moment, and it may stop reading.         *)
(***************************************************************************)
EXTENDS Integers, Sequences, FiniteSets, SequencesExt

CONSTANTS
  Conns,    \* connections that clients make
  Limits,   \* how many descriptors there may be for them
  MaxSent,  \* bound: messages of an end that are told apart at a time
  Window,   \* messages sent to an end before it must read
  Talkers,  \* bound: ends that send
  Leavers   \* bound: ends that finish, close or reset

ASSUME ConnAssumption == IsFiniteSet(Conns)
ASSUME SizeAssumption == Limits \subseteq Nat /\ MaxSent \in Nat /\ Window \in Nat \ {0}

Fds   == UNION {1 .. n : n \in Limits}
Ends  == Conns \X {"lan", "wan"}   \* the client and the AFTR's side of each
ASSUME EndsAssumption == Talkers \subseteq Ends /\ Leavers \subseteq Ends

Other(e) == <<e[1], IF e[2] = "lan" THEN "wan" ELSE "lan">>
None  == 0
NoEnd == <<>>

Message == [from : Ends, n : 1 .. MaxSent]

(* An end as the socket connected to it shows it.  "fin": it finished      *)
(* sending; "gone": it finished and reads no more; "reset": an RST came and*)
(* is not reported yet; "broken": no data can go either way.               *)
Links == {"idle", "up", "fin", "gone", "reset", "broken"}

VARIABLES
  limit,     \* descriptors there are for connections
  pc,        \* where the thread is
  Shutdown,  \* set by signal_handler
  sockets,   \* connected sockets of ctx->sockets, head first: fd and peer
  open,      \* descriptors of TCP connections
  end,       \* descriptor -> the end it is connected to
  pkt,       \* the message in hand and the socket it came from
  joining,   \* lansock and wansock of the connection being established
  backlog,   \* connections that wait for accept
  link,      \* end -> its state
  sent,      \* end -> messages it sent
  inbox,     \* end -> messages that wait to be received from it
  to,        \* end -> messages sent to it, oldest first
  read       \* end -> how many of them it read

procVars == <<pc, sockets, open, end, pkt, joining>>
netVars  == <<backlog, link, sent, inbox, to, read>>
vars     == <<limit, procVars, Shutdown, netVars>>

NoPacket  == [sock |-> None, data |-> [from |-> NoEnd, n |-> 0]]
NoJoining == [lan |-> None, wan |-> None]

Init ==
  /\ limit \in Limits
  /\ pc = "test" /\ Shutdown = FALSE
  /\ sockets = <<>> /\ open = {}
  /\ end = [f \in Fds |-> NoEnd]
  /\ pkt = NoPacket /\ joining = NoJoining
  /\ backlog = <<>>
  /\ link = [e \in Ends |-> "idle"]
  /\ sent = [e \in Ends |-> 0]
  /\ inbox = [e \in Ends |-> <<>>]
  /\ to = [e \in Ends |-> <<>>]
  /\ read = [e \in Ends |-> 0]

-----------------------------------------------------------------------------
(* socket_find: the first socket of the list with this descriptor.         *)
SocketFind(fd) == sockets[SelectInSeq(sockets, LAMBDA s : s.fd = fd)]

(* socket_del unlinks the first socket with this descriptor, if there is   *)
(* one, and closes the descriptor.                                         *)
FdsOf(list) == {list[i].fd : i \in DOMAIN list}
SocketDel(list, fd) ==
  IF fd \in FdsOf(list) THEN RemoveAt(list, SelectInSeq(list, LAMBDA s : s.fd = fd)) ELSE list
Unlink(list) == sockets' = list /\ open' = open \ (FdsOf(sockets) \ FdsOf(list))

Free  == (1 .. limit) \ open
LowestOf(S) == CHOOSE f \in S : \A g \in S : f <= g

(* select() reports data, the end of the stream and an error alike.        *)
Readable(fd) ==
  inbox[end[fd]] # <<>> \/ link[end[fd]] \in {"fin", "gone", "reset", "broken"}

(* wait_for_traffic takes the first socket that is ready.  The listening   *)
(* sockets come after every connection.                                    *)
Ready == \E i \in DOMAIN sockets : Readable(sockets[i].fd)
FirstReady == sockets[SelectInSeq(sockets, LAMBDA s : Readable(s.fd))]

(* while (!Shutdown), and sockets_close once run() has returned.           *)
LoopTest ==
  /\ pc = "test"
  /\ IF Shutdown THEN pc' = "exited" /\ sockets' = <<>> /\ open' = {}
                 ELSE pc' = "select" /\ UNCHANGED <<sockets, open>>
  /\ UNCHANGED <<end, pkt, joining, Shutdown, netVars>>

SelectTimeout ==
  /\ pc = "select" /\ ~ Ready /\ backlog = <<>>
  /\ pc' = "test"
  /\ UNCHANGED <<sockets, open, end, pkt, joining, Shutdown, netVars>>

(* sock_tcp_accept, up to connect().  No descriptor: the connection stays  *)
(* in the backlog.  One only: it is accepted and closed at once.           *)
Accept ==
  /\ pc = "select" /\ ~ Ready /\ backlog # <<>>
  /\ IF Free = {}
       THEN pc' = "test" /\ UNCHANGED <<open, end, joining, backlog>>
       ELSE LET lan == LowestOf(Free)
                rest == Free \ {lan}
                c == Head(backlog)
            IN  /\ backlog' = Tail(backlog)
                /\ IF rest = {}
                     THEN pc' = "test" /\ UNCHANGED <<open, end, joining>>
                     ELSE LET wan == LowestOf(rest) IN
                            /\ pc' = "connect"
                            /\ joining' = [lan |-> lan, wan |-> wan]
                            /\ open' = open \cup {lan, wan}
                            /\ end' = [end EXCEPT ![lan] = <<c, "lan">>,
                                                  ![wan] = <<c, "wan">>]
  /\ UNCHANGED <<sockets, pkt, Shutdown, link, sent, inbox, to, read>>

ConnectedFault ==   \* each peer is set before the other descriptor is there
  /\ pc = "connect" /\ pc' = "test"
  /\ link' = [link EXCEPT ![end[joining.wan]] = "up"]
  /\ sockets' = <<[fd |-> joining.wan, peer |-> joining.lan],
                  [fd |-> joining.lan, peer |-> None]>> \o sockets
  /\ joining' = NoJoining
  /\ UNCHANGED <<open, end, pkt, Shutdown, backlog, sent, inbox, to, read>>

(* connect() returned 0: each socket gets the other's descriptor and both  *)
(* enter the list, wansock in front.                                       *)
Connected ==
  /\ pc = "connect" /\ pc' = "test"
  /\ link' = [link EXCEPT ![end[joining.wan]] = "up"]
  /\ sockets' = <<[fd |-> joining.wan, peer |-> joining.lan],
                  [fd |-> joining.lan, peer |-> joining.wan]>> \o sockets
  /\ joining' = NoJoining
  /\ UNCHANGED <<open, end, pkt, Shutdown, backlog, sent, inbox, to, read>>

(* connect() failed: both are closed.                                      *)
NotConnected ==
  /\ pc = "connect" /\ pc' = "test"
  /\ open' = open \ {joining.lan, joining.wan}
  /\ joining' = NoJoining
  /\ UNCHANGED <<sockets, end, pkt, Shutdown, netVars>>

(* sock_tcp_receive with data.                                             *)
Receive ==
  /\ pc = "select" /\ Ready
  /\ LET e == end[FirstReady.fd] IN
       /\ inbox[e] # <<>>
       /\ pkt' = [sock |-> FirstReady.fd, data |-> Head(inbox[e])]
       /\ inbox' = [inbox EXCEPT ![e] = Tail(@)]
  /\ pc' = "send"
  /\ UNCHANGED <<sockets, open, end, joining, Shutdown, backlog, link, sent, to, read>>

ReceiveFailsFault ==   \* the socket that failed is closed, its peer is not
  /\ pc = "select" /\ Ready
  /\ LET e == end[FirstReady.fd] IN inbox[e] = <<>> /\ link[e] = "reset"
  /\ Unlink(SocketDel(sockets, FirstReady.fd))
  /\ pc' = "test"
  /\ UNCHANGED <<end, pkt, joining, Shutdown, netVars>>

(* recvmsg() reports the RST, once: no packet, the socket stays.           *)
ReceiveFails ==
  /\ pc = "select" /\ Ready
  /\ LET e == end[FirstReady.fd] IN
       /\ inbox[e] = <<>> /\ link[e] = "reset"
       /\ link' = [link EXCEPT ![e] = "broken"]
  /\ pc' = "test"
  /\ UNCHANGED <<sockets, open, end, pkt, joining, Shutdown, backlog, sent, inbox, to,
                 read>>

TcpCloseFault(s) == SocketDel(sockets, s.fd)   \* the peer is forgotten
TcpClose(s) == SocketDel(SocketDel(sockets, s.fd), s.peer)

(* recvmsg() returns 0: handle_tcp_close closes the socket and its peer.   *)
EndOfStream ==
  /\ pc = "select" /\ Ready
  /\ LET e == end[FirstReady.fd] IN
       inbox[e] = <<>> /\ link[e] \in {"fin", "gone", "broken"}
  /\ Unlink(TcpClose(FirstReady))
  /\ pc' = "test"
  /\ UNCHANGED <<end, pkt, joining, Shutdown, netVars>>

HasPeer == pkt.sock \in FdsOf(sockets) /\ SocketFind(pkt.sock).peer \in FdsOf(sockets)
Target  == end[SocketFind(pkt.sock).peer]

SendFault ==   \* a send() that would wait drops the message
  /\ pc = "send"
  /\ HasPeer => link[Target] \in {"up", "fin"}
  /\ to' = IF HasPeer /\ Len(to[Target]) - read[Target] < Window
             THEN [to EXCEPT ![Target] = Append(@, pkt.data)] ELSE to
  /\ pc' = "test" /\ pkt' = NoPacket
  /\ UNCHANGED <<sockets, open, end, joining, Shutdown, backlog, link, sent, inbox, read>>

(* handle_tcp_packet: send() to an end that reads waits until there is     *)
(* room.  A packet for which no socket is found is dropped.                *)
Send ==
  /\ pc = "send"
  /\ HasPeer => link[Target] \in {"up", "fin"} /\ Len(to[Target]) - read[Target] < Window
  /\ to' = IF HasPeer THEN [to EXCEPT ![Target] = Append(@, pkt.data)] ELSE to
  /\ pc' = "test" /\ pkt' = NoPacket
  /\ UNCHANGED <<sockets, open, end, joining, Shutdown, backlog, link, sent, inbox, read>>

(* send() to an end that has closed succeeds; an RST is the answer, sooner *)
(* or later.                                                               *)
SendToGone ==
  /\ pc = "send" /\ HasPeer
  /\ link[Target] = "gone"
  /\ \E l \in {"gone", "broken"} : link' = [link EXCEPT ![Target] = l]
  /\ pc' = "test" /\ pkt' = NoPacket
  /\ UNCHANGED <<sockets, open, end, joining, Shutdown, backlog, sent, inbox, to, read>>

(* send() reports the RST, once; the message is lost.                      *)
SendFails ==
  /\ pc = "send" /\ HasPeer
  /\ link[Target] = "reset"
  /\ link' = [link EXCEPT ![Target] = "broken"]
  /\ pc' = "test" /\ pkt' = NoPacket
  /\ UNCHANGED <<sockets, open, end, joining, Shutdown, backlog, sent, inbox, to, read>>

(* After that send() raises SIGPIPE, for which framework_init installs no  *)
(* handler: the process ends.                                              *)
SendKills ==
  /\ pc = "send" /\ HasPeer
  /\ link[Target] = "broken"
  /\ pc' = "killed" /\ open' = {} /\ sockets' = <<>> /\ pkt' = NoPacket
  /\ UNCHANGED <<end, joining, Shutdown, netVars>>

-----------------------------------------------------------------------------
(* The far ends.  They act while there is a connection to act on.          *)
Waiting(e)  == e[2] = "lan" /\ \E i \in DOMAIN backlog : backlog[i] = e[1]
Attached(e) == \E f \in open : end[f] = e

ClientConnects(c) ==
  /\ link[<<c, "lan">>] = "idle"
  /\ link' = [link EXCEPT ![<<c, "lan">>] = "up"]
  /\ backlog' = Append(backlog, c)
  /\ UNCHANGED <<procVars, Shutdown, sent, inbox, to, read>>

EndSends(e) ==
  /\ e \in Talkers
  /\ Attached(e) \/ Waiting(e)
  /\ link[e] = "up" /\ sent[e] < MaxSent
  /\ sent' = [sent EXCEPT ![e] = @ + 1]
  /\ inbox' = [inbox EXCEPT ![e] = Append(@, [from |-> e, n |-> sent[e] + 1])]
  /\ UNCHANGED <<procVars, Shutdown, backlog, link, to, read>>

(* An end may send without end.  Its messages are numbered anew once those *)
(* with the numbers up to MaxSent have all been forwarded, and are read.   *)
StartsOver(e) ==
  /\ Attached(e)
  /\ link[e] = "up" /\ link[Other(e)] \in {"up", "fin"}
  /\ sent[e] = MaxSent /\ inbox[e] = <<>> /\ pkt.data.from # e
  /\ sent' = [sent EXCEPT ![e] = 0]
  /\ to' = [to EXCEPT ![Other(e)] = <<>>] /\ read' = [read EXCEPT ![Other(e)] = 0]
  /\ UNCHANGED <<procVars, Shutdown, backlog, link, inbox>>

(* Only the reads that make room for a send() tell anything apart.         *)
EndReads(e) ==
  /\ Attached(e) /\ link[e] \in {"up", "fin"}
  /\ Len(to[e]) - read[e] = Window
  /\ read' = [read EXCEPT ![e] = @ + 1]
  /\ UNCHANGED <<procVars, Shutdown, backlog, link, sent, inbox, to>>

(* shutdown(SHUT_WR), close(), and an RST before or after the FIN.         *)
EndChanges(e) ==
  /\ e \in Leavers
  /\ Attached(e) \/ Waiting(e)
  /\ \/ link[e] = "up" /\ \E l \in {"fin", "gone", "reset"} : link' = [link EXCEPT ![e] = l]
     \/ link[e] = "fin" /\ \E l \in {"gone", "broken"} : link' = [link EXCEPT ![e] = l]
     \/ link[e] = "gone" /\ link' = [link EXCEPT ![e] = "broken"]
  /\ UNCHANGED <<procVars, Shutdown, backlog, sent, inbox, to, read>>

(* signal_handler; only select() is cut short, connect() and send() resume.*)
Signal ==
  /\ ~ Shutdown /\ pc \notin {"exited", "killed"}
  /\ Shutdown' = TRUE
  /\ pc' = IF pc = "select" THEN "test" ELSE pc
  /\ UNCHANGED <<sockets, open, end, pkt, joining, netVars>>

Proxy ==
  /\ \/ LoopTest \/ SelectTimeout \/ Accept \/ Connected \/ NotConnected
     \/ Receive \/ ReceiveFails \/ EndOfStream
     \/ Send \/ SendToGone \/ SendFails \/ SendKills
  /\ UNCHANGED limit

Reads(e) == EndReads(e) /\ UNCHANGED limit

Environment ==
  \/ \E e \in Ends : Reads(e)
  \/ /\ \/ Signal
        \/ \E c \in Conns : ClientConnects(c)
        \/ \E e \in Ends : EndSends(e) \/ StartsOver(e) \/ EndChanges(e)
     /\ UNCHANGED limit

Next == Proxy \/ Environment

(* The thread is scheduled, and connect() ends with or without success.    *)
Spec == Init /\ [][Next]_vars /\ WF_vars(Proxy)

(* In addition, both ends go on reading.                                   *)
ReadingSpec == Spec /\ \A e \in Ends : WF_vars(Reads(e))

-----------------------------------------------------------------------------
(* Every variable has its type: sockets that are listed have descriptors   *)
(* for themselves and for their peers, a packet in hand has a socket.      *)
TypeOK ==
  /\ limit \in Limits /\ open \subseteq 1 .. limit
  /\ pc \in {"test", "select", "connect", "send", "exited", "killed"}
  /\ Shutdown \in BOOLEAN
  /\ sockets \in Seq([fd : Fds, peer : Fds])
  /\ end \in [Fds -> Ends \cup {NoEnd}]
  /\ pkt = NoPacket \/ pkt \in [sock : Fds, data : Message]
  /\ joining = NoJoining \/ joining \in [lan : Fds, wan : Fds]
  /\ backlog \in Seq(Conns)
  /\ link \in [Ends -> Links]
  /\ sent \in [Ends -> 0 .. MaxSent]
  /\ inbox \in [Ends -> Seq(Message)] /\ to \in [Ends -> Seq(Message)]
  /\ read \in [Ends -> Nat]

(* However descriptors are reused: the list holds each open descriptor     *)
(* once, a socket's peer is in the list and names the socket, and the two  *)
(* belong to the same connection.                                          *)
PeersPaired ==
  /\ \A i, j \in DOMAIN sockets : sockets[i].fd = sockets[j].fd => i = j
  /\ \A i \in DOMAIN sockets :
       \E j \in DOMAIN sockets :
          /\ sockets[j].fd = sockets[i].peer /\ sockets[j].peer = sockets[i].fd
          /\ end[sockets[j].fd] = Other(end[sockets[i].fd])
  /\ open = FdsOf(sockets) \cup ({joining.lan, joining.wan} \ {None})

(* What an end receives are the messages of its own connection's other end,*)
(* in order, each once and without a gap.                                  *)
NoCrosstalk ==
  \A e \in Ends : \A i \in DOMAIN to[e] : to[e][i] = [from |-> Other(e), n |-> i]

(* A connection is closed for the sake of its own ends only.               *)
OthersSurvive ==
  [][\A f \in open \ open' :
        \/ Shutdown \/ pc = "connect" \/ pc' = "killed"
        \/ \E e \in {end[f], Other(end[f])} :
              link[e] \in {"fin", "gone", "broken"} /\ inbox[e] = <<>>]_vars

Ended(e) == Attached(e) /\ link[e] \in {"fin", "gone", "reset", "broken"}

(* The ends whose sockets come before e's in the list send no more from    *)
(* some time on: its peer may be one of them, newer connections always are.*)
InFront(o, e) ==
  \E i, j \in DOMAIN sockets : i < j /\ end[sockets[i].fd] = o /\ end[sockets[j].fd] = e
QuietInFront(e) ==
  <>[][\A o \in Ends : InFront(o, e) => Len(inbox'[o]) <= Len(inbox[o])]_vars

(* When one end is done, both descriptors are closed: also when the RST is *)
(* met by recvmsg() or by send(), and with data still on its way, behind   *)
(* newer connections and whatever those behind it send, unless one before  *)
(* it goes on sending without end or an end does not read.                 *)
EndedIsClosed ==
  \A e \in Leavers :
     QuietInFront(e) => (Ended(e) ~> ~ (Attached(e) \/ Attached(Other(e))))

(* A connection that is closed has had everything forwarded that reached   *)
(* portproxy, unless an end had closed or failed.                          *)
AllForwarded ==
  pc = "select" =>
    \A c \in Conns :
       LET ends == {<<c, "lan">>, <<c, "wan">>}
       IN  (\A e \in ends : link[e] \in {"up", "fin"} /\ ~ Attached(e))
              => \A e \in ends : inbox[e] = <<>>

(* The service ends by a signal of its operator and by nothing a client    *)
(* or the AFTR does.                                                       *)
EndsBySignal == pc # "killed"

(* A signal ends the program.                                              *)
SignalExits == Shutdown ~> pc \in {"exited", "killed"}
=============================================================================
