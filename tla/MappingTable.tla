---------------------------- MODULE MappingTable ----------------------------
(***************************************************************************)
(* The mapping table of portproxy (src/src/framework.c).                   *)
(*                                                                         *)
(* The elements of the list of MappingList: a mapping remembers a query    *)
(* that was forwarded to the WAN, who asked (client, clientPort, lanSock), *)
(* which answer it waits for (server, routerPort, wanIP, wanPort) and when *)
(* it stops waiting (timeout).                                             *)
(*                                                                         *)
(* mapping_create and mapping_find also treat datagrams to mcast apart.    *)
(* framework_init sets mcast to 250.255.255.239, which is no multicast     *)
(* address: nothing that the sockets of a running proxy receive is sent to *)
(* it (SocketSetup), so neither test is ever true and both are left out.   *)
(***************************************************************************)
EXTENDS MappingList

CONSTANTS
  Clients,      \* hosts of the LAN that send queries
  LanIP,        \* ctx->lanIP
  WanIP,        \* ctx->wanIP
  AftrIP,       \* ctx->aftrIPv4
  Timeout       \* ctx->timeout, what atoi() made of --timeout

Hosts == Clients \cup {AftrIP, WanIP}

ASSUME AddressAssumption ==
  /\ LanIP \notin Hosts
  /\ AftrIP # WanIP
  /\ AftrIP \notin Clients /\ WanIP \notin Clients
ASSUME TimeoutAssumption == Timeout \in Int

NatPmpPort == 5351    \* ctx->natpmp_udp_port
SharedPort == 40000   \* the ephemeral port the kernel gave the shared socket
ClientPort == 50000   \* the ephemeral port a client asks from
NoPort     == -1      \* sock_get_port() of something that is not a socket

Ports   == {NatPmpPort, SharedPort, ClientPort, NoPort}
Sockets == {"shared", "natpmp"}

Mapping ==
  [client : Hosts, clientPort : Ports, lanSock : Sockets,
   server : {AftrIP}, routerPort : Ports, wanPort : Ports,
   timeout : Int]

-----------------------------------------------------------------------------
MappingCreateFault(pkt, wanPort, expires) ==   \* server copied from the packet
  [client |-> pkt.src, clientPort |-> pkt.sport, lanSock |-> pkt.sock,
   server |-> pkt.dst, routerPort |-> pkt.dport, wanPort |-> wanPort,
   timeout |-> expires]

(* mapping_create: whom the answer must come from and whom it is for.      *)
MappingCreate(pkt, wanPort, expires) ==
  [client     |-> pkt.src,
   clientPort |-> pkt.sport,
   lanSock    |-> pkt.sock,
   server     |-> AftrIP,
   routerPort |-> pkt.dport,
   wanPort    |-> wanPort,
   timeout    |-> expires]

MatchesFault(m, pkt) ==   \* the source port is not compared
  /\ pkt.src = m.server
  /\ pkt.dst = WanIP /\ pkt.dport = m.wanPort

(* The comparison of mapping_find: nothing of the payload is looked at.    *)
Matches(m, pkt) ==
  /\ pkt.src = m.server
  /\ pkt.dst = WanIP
  /\ pkt.sport = m.routerPort
  /\ pkt.dport = m.wanPort

(* mapping_find returns the first match from the head.                     *)
IsFound(table, pkt, i) ==
  /\ i \in DOMAIN table
  /\ Matches(table[i], pkt)
  /\ \A j \in 1 .. i - 1 : ~ Matches(table[j], pkt)
=============================================================================
