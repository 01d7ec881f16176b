---------------------------- MODULE SocketSetup -----------------------------
(***************************************************************************)
(* The start and the end of portproxy: sanity_check, sockets_bind, the     *)
(* persistent retry loop of main and sockets_close (portproxy.c,           *)
(* framework.c, lowlevel-linux.c under src/src), with the descriptors that *)
(* are opened and closed on the way and the addresses of the interfaces,   *)
(* which come and go.                                                      *)
(***************************************************************************)
EXTENDS Integers, Sequences, FiniteSets

CONSTANTS
  Configs,   \* command lines: records of the features that main acts on
  MaxFds,    \* RLIMIT_NOFILE, less what is open before main
  MaxFlaps   \* bound: how often an address or interface goes away

ASSUME ConfigsAssumption == Configs \subseteq
  [nat_pmp : BOOLEAN, nat_pmp_ext : BOOLEAN, upnp_udp : BOOLEAN, upnp_tcp : BOOLEAN,
   shared_udp_sock : BOOLEAN, wanIPv6_given : BOOLEAN, persistent : BOOLEAN,
   lan_octet_high : BOOLEAN]
ASSUME BoundsAssumption == MaxFds \in Nat /\ MaxFlaps \in Nat

Fds   == 1 .. MaxFds
Names == {"lan_ssdp", "wan_ssdp", "natpmp_lan", "ext6", "natpmp", "tcp1", "tcp2", "shared"}
(* The two interfaces; the address of br-lan; the IPv4 and IPv6 addresses  *)
(* of the tunnel.  An address may be on another interface than the one     *)
(* that was named, so each comes and goes by itself.                       *)
Addrs == {"dev", "lan", "wan", "wan6"}
Kept  == {"lan_ssdp", "wan_ssdp", "natpmp_lan", "ext6", "shared"}
None  == 0

VARIABLES
  cfg,       \* ctx: the parsed command line, never changed afterwards
  pc,        \* where main is
  step,      \* the next step of sockets_bind
  sockets,   \* ctx->sockets, head first: name and descriptor
  open,      \* descriptors the process holds
  handle,    \* ctx->lan_ssdp_sock, shared_udp_sock_fd, ...: name -> descriptor
  up,        \* addresses that are configured now
  Shutdown,  \* set by signal_handler
  failures,  \* failed attempts, counted up to 3
  flaps      \* addresses lost so far

mainVars == <<cfg, pc, step, sockets, open, handle, failures>>
vars == <<mainVars, up, Shutdown, flaps>>

MaxCounted == 3   \* bound of failures

-----------------------------------------------------------------------------
(* What sockets_bind does for a configuration, in order.  "add" opens and  *)
(* binds, "join" joins the multicast group, "detect" asks the kernel for   *)
(* the global IPv6 address of the WAN interface.                           *)

When(b, s) == IF b THEN s ELSE <<>>
Do(act, name) == [act |-> act, name |-> name]

Plan(c) ==
  When(c.upnp_udp, <<Do("add", "lan_ssdp"), Do("join", "lan_ssdp"),
                     Do("add", "wan_ssdp"), Do("join", "wan_ssdp")>>)
    \o When(c.nat_pmp_ext, <<Do("add", "natpmp_lan")>>
                             \o When(~ c.wanIPv6_given, <<Do("detect", "ext6")>>)
                             \o <<Do("add6", "ext6")>>)
    \o When(c.nat_pmp, <<Do("add", "natpmp")>>)
    \o When(c.upnp_tcp, <<Do("add", "tcp1"), Do("add", "tcp2")>>)
    \o When(c.shared_udp_sock /\ (c.upnp_udp \/ c.nat_pmp), <<Do("add", "shared")>>)

(* The steps that open a socket for ctx->sockets.                          *)
Opening(c) == {k \in DOMAIN Plan(c) : Plan(c)[k].act \in {"add", "add6"}}

(* What bind() needs, SO_BINDTODEVICE for the SSDP sockets; what joining   *)
(* the multicast group needs.                                              *)
Needs(name) ==
  CASE name \in {"lan_ssdp", "wan_ssdp"} -> "dev"
    [] name \in {"natpmp_lan", "natpmp", "tcp1", "tcp2"} -> "lan"
    [] name = "shared" -> "wan"
    [] name = "ext6" -> "wan6"
Group(name) == IF name = "lan_ssdp" THEN "lan" ELSE "wan"

(* mcast = htonl(4211081199u), byte by byte as it is sent, and the test of *)
(* the kernel for the addresses of groups.                                 *)
mcast == <<250, 255, 255, 239>>
IsMulticast(addr) == addr[1] \in 224 .. 239

Listed == {sockets[i].name : i \in DOMAIN sockets}

(* bind() refuses an address that is not there and one that is in use: both*)
(* kinds of NAT-PMP listen on the same LAN address and port.  sock_add     *)
(* takes an address for multicast when s_addr >> 24, on a little-endian CPU*)
(* its last octet, is 239 or more, and the kernel then refuses to join it. *)
Bindable(name) ==
  /\ Needs(name) \in up
  /\ name = "natpmp" => "natpmp_lan" \notin Listed
  /\ ~ (Needs(name) = "lan" /\ cfg.lan_octet_high)

(* The context keeps descriptors of some sockets: of the SSDP sockets once *)
(* they joined their group, of others whatever socket_add returned.        *)
Keep(name, fd) ==
  handle' = IF name \in {"natpmp_lan", "ext6", "shared"}
              THEN [handle EXCEPT ![name] = fd] ELSE handle
KeepFailure(name) == IF name = "natpmp_lan" THEN UNCHANGED handle ELSE Keep(name, None)

Free == Fds \ open
NewFd == CHOOSE f \in Free : \A g \in Free : f <= g

-----------------------------------------------------------------------------
Init ==
  /\ cfg \in Configs
  /\ pc = "sanity" /\ step = 1
  /\ sockets = <<>> /\ open = {} /\ failures = 0
  /\ handle = [n \in Names |-> None]
  /\ up \in SUBSET Addrs
  /\ Shutdown = FALSE /\ flaps = 0

(* sanity_check: 0 when nothing is enabled, -1 when both kinds of NAT-PMP  *)
(* are, else 1.                                                            *)
SanityCheck(c) ==
  IF ~ (c.nat_pmp \/ c.upnp_tcp \/ c.upnp_udp \/ c.nat_pmp_ext) THEN 0
  ELSE IF c.nat_pmp /\ c.nat_pmp_ext THEN -1 ELSE 1

(* if (!sanity_check(ctx)) return -1                                       *)
Check ==
  /\ pc = "sanity"
  /\ pc' = IF SanityCheck(cfg) = 0 THEN "exited" ELSE "bind"
  /\ UNCHANGED <<cfg, step, sockets, open, handle, failures, up, Shutdown, flaps>>

RegisterFault(name, fd) ==   \* at the other end of the list
  sockets' = sockets \o <<[name |-> name, fd |-> fd]>>

RegisterEarly(name, fd) ==   \* takes the descriptor from the context before it is there
  sockets' = <<[name |-> name, fd |-> handle[name]]>> \o sockets

InBind(act) == pc = "bind" /\ step <= Len(Plan(cfg)) /\ Plan(cfg)[step].act = act
Name == Plan(cfg)[step].name
Register(name, fd) == sockets' = <<[name |-> name, fd |-> fd]>> \o sockets

(* socket_add: the socket enters the list after sock_add succeeded; a      *)
(* sock_add that fails after socket() returns without closing it.          *)
Add ==
  /\ InBind("add") /\ Free # {}
  /\ open' = open \cup {NewFd}
  /\ IF Bindable(Name)
       THEN /\ Register(Name, NewFd) /\ step' = step + 1
            /\ Keep(Name, NewFd) /\ UNCHANGED pc
       ELSE pc' = "failed" /\ KeepFailure(Name) /\ UNCHANGED <<step, sockets>>
  /\ UNCHANGED <<cfg, failures, up, Shutdown, flaps>>

Add6Fault ==   \* on failure the descriptor is closed, the structure stays
  /\ InBind("add6") /\ Free # {}
  /\ Register(Name, NewFd)
  /\ IF Bindable(Name)
       THEN /\ open' = open \cup {NewFd} /\ step' = step + 1
            /\ Keep(Name, NewFd) /\ UNCHANGED pc
       ELSE pc' = "failed" /\ KeepFailure(Name) /\ UNCHANGED <<open, step>>
  /\ UNCHANGED <<cfg, failures, up, Shutdown, flaps>>

(* socket6_add: the socket enters the list before it is bound and          *)
(* connected, so a failure leaves it to sockets_close.                     *)
Add6 ==
  /\ InBind("add6") /\ Free # {}
  /\ open' = open \cup {NewFd}
  /\ Register(Name, NewFd)
  /\ IF Bindable(Name)
       THEN step' = step + 1 /\ Keep(Name, NewFd) /\ UNCHANGED pc
       ELSE pc' = "failed" /\ KeepFailure(Name) /\ UNCHANGED step
  /\ UNCHANGED <<cfg, failures, up, Shutdown, flaps>>

(* socket() failed: EMFILE.                                                *)
NoDescriptor ==
  /\ InBind("add") \/ InBind("add6")
  /\ Free = {}
  /\ pc' = "failed" /\ KeepFailure(Name)
  /\ UNCHANGED <<cfg, step, sockets, open, failures, up, Shutdown, flaps>>

(* socket_mcast_join needs a group and the address of the interface; the   *)
(* socket is the one that was just added, and stays listed on failure.     *)
Join ==
  /\ InBind("join")
  /\ IF IsMulticast(mcast) /\ Group(Name) \in up
       THEN /\ step' = step + 1 /\ UNCHANGED pc
            /\ handle' = [handle EXCEPT ![Name] = Head(sockets).fd]
       ELSE pc' = "failed" /\ UNCHANGED <<step, handle>>
  /\ UNCHANGED <<cfg, sockets, open, failures, up, Shutdown, flaps>>

(* iface_ip6_get: rtnl_open takes a descriptor that nobody closes.  The    *)
(* address "wan6" stands for the address and for a route to the AFTR.      *)
Detect ==
  /\ InBind("detect") /\ Free # {}
  /\ open' = open \cup {NewFd}
  /\ IF "wan6" \in up THEN step' = step + 1 /\ UNCHANGED pc
                      ELSE pc' = "failed" /\ UNCHANGED step
  /\ UNCHANGED <<cfg, sockets, handle, failures, up, Shutdown, flaps>>

(* iface_ip6_get does not look at the result of rtnl_open.  When there was *)
(* no descriptor, recvmsg() fails for good and rtnl_dump_filter repeats it.*)
DetectSpins ==
  /\ InBind("detect") /\ Free = {}
  /\ pc' = "stuck"
  /\ UNCHANGED <<cfg, step, sockets, open, handle, failures, up, Shutdown, flaps>>

(* An answer of the kernel that does not come is waited for without end,   *)
(* and signal() restarts the wait (libnetlink.c:170; Interfaces).          *)
DetectWaits ==
  /\ InBind("detect") /\ Free # {}
  /\ open' = open \cup {NewFd}
  /\ pc' = "stuck"
  /\ UNCHANGED <<cfg, step, sockets, handle, failures, up, Shutdown, flaps>>

Bound ==
  /\ pc = "bind" /\ step > Len(Plan(cfg))
  /\ pc' = "run"
  /\ UNCHANGED <<cfg, step, sockets, open, handle, failures, up, Shutdown, flaps>>

FailedFault ==   \* a failed attempt ends main, persistent or not
  /\ pc = "failed"
  /\ pc' = "exited" /\ failures' = failures
  /\ UNCHANGED <<cfg, step, sockets, open, handle, up, Shutdown, flaps>>

(* main: without --persistent a failure ends the program.                  *)
Failed ==
  /\ pc = "failed"
  /\ failures' = IF failures < MaxCounted THEN failures + 1 ELSE failures
  /\ pc' = IF cfg.persistent THEN "close" ELSE "exited"
  /\ UNCHANGED <<cfg, step, sockets, open, handle, up, Shutdown, flaps>>

SocketDelFault ==   \* the structure is freed, the descriptor forgotten
  /\ sockets' = Tail(sockets) /\ UNCHANGED open

(* socket_del of the head: closes the descriptor and frees the structure.  *)
SocketDel ==
  /\ open' = open \ {Head(sockets).fd}
  /\ sockets' = Tail(sockets)

(* sockets_close, before the next attempt and after run().                 *)
CloseOne ==
  /\ pc \in {"close", "shut"} /\ sockets # <<>>
  /\ SocketDel
  /\ UNCHANGED <<cfg, pc, step, handle, failures, up, Shutdown, flaps>>

CloseDone ==
  /\ pc \in {"close", "shut"} /\ sockets = <<>>
  /\ pc' = IF pc = "close" THEN "sleep" ELSE "exited"
  /\ UNCHANGED <<cfg, step, sockets, open, handle, failures, up, Shutdown, flaps>>

RetryFault ==   \* Shutdown does not end the retries
  /\ pc = "sleep"
  /\ step' = 1 /\ pc' = "bind"
  /\ UNCHANGED <<cfg, sockets, open, handle, failures, up, Shutdown, flaps>>

(* After sleep(10): while (Shutdown != 1).                                 *)
Retry ==
  /\ pc = "sleep"
  /\ step' = 1
  /\ pc' = IF Shutdown THEN "run" ELSE "bind"
  /\ UNCHANGED <<cfg, sockets, open, handle, failures, up, Shutdown, flaps>>

(* run() returns because of Shutdown; UdpRelay and EventLoop model run().  *)
RunReturns ==
  /\ pc = "run" /\ Shutdown
  /\ pc' = "shut"
  /\ UNCHANGED <<cfg, step, sockets, open, handle, failures, up, Shutdown, flaps>>

(* It never returns from a send() to a host that does not read any more    *)
(* (framework.c:702; TcpRelay).                                            *)
RunBlocks ==
  /\ pc = "run" /\ cfg.upnp_tcp
  /\ pc' = "blocked"
  /\ UNCHANGED <<cfg, step, sockets, open, handle, failures, up, Shutdown, flaps>>

-----------------------------------------------------------------------------
AddressComes(a) ==
  /\ a \notin up
  /\ up' = up \cup {a}
  /\ UNCHANGED <<mainVars, Shutdown, flaps>>

AddressGoes(a) ==
  /\ a \in up /\ flaps < MaxFlaps
  /\ up' = up \ {a} /\ flaps' = flaps + 1
  /\ UNCHANGED <<mainVars, Shutdown>>

(* A handler is installed by framework_init, before anything else.         *)
Signal ==
  /\ ~ Shutdown
  /\ Shutdown' = TRUE
  /\ UNCHANGED <<mainVars, up, flaps>>

Stopped == pc \in {"exited", "stuck", "blocked"} /\ UNCHANGED vars

Main ==
  \/ Check \/ Add \/ Add6 \/ NoDescriptor \/ Join \/ Detect \/ DetectSpins \/ DetectWaits
  \/ Bound \/ Failed \/ CloseOne \/ CloseDone \/ Retry \/ RunReturns \/ RunBlocks

Next == Main \/ Signal \/ Stopped \/ \E a \in Addrs : AddressComes(a) \/ AddressGoes(a)

(* main is scheduled; addresses and signals come if they come.             *)
Spec == Init /\ [][Next]_vars /\ WF_vars(Main)

-----------------------------------------------------------------------------
(* Every variable has its type; the step and the counters are in bounds.   *)
TypeOK ==
  /\ cfg \in Configs
  /\ pc \in {"sanity", "bind", "failed", "close", "sleep", "run", "shut", "exited",
            "stuck", "blocked"}
  /\ step \in 1 .. Len(Plan(cfg)) + 1
  /\ sockets \in Seq([name : Names, fd : Fds])
  /\ open \subseteq Fds
  /\ handle \in [Names -> {None} \cup Fds]
  /\ up \subseteq Addrs /\ Shutdown \in BOOLEAN
  /\ failures \in 0 .. MaxCounted /\ flaps \in 0 .. MaxFlaps

(* Over all retries and reuses of descriptor numbers, the list names only  *)
(* descriptors that are open, none of them twice: sockets_close never      *)
(* closes a descriptor that belongs to something else.                     *)
ListIsOpen ==
  /\ \A i \in DOMAIN sockets : sockets[i].fd \in open
  /\ \A i, j \in DOMAIN sockets : sockets[i].fd = sockets[j].fd => i = j

(* run() after a successful bind finds the sockets of the configuration,   *)
(* all of them, newest first, and the descriptors kept in the context,     *)
(* which earlier attempts have set too, are those of the list.  With UPnP  *)
(* UDP, whose join fails, main does not get there.                         *)
RunsComplete ==
  pc = "run" /\ ~ Shutdown =>
     /\ Listed = {Plan(cfg)[k].name : k \in Opening(cfg)}
     /\ \A i, j \in DOMAIN sockets, k, l \in Opening(cfg) :
          /\ i < j
          /\ sockets[i].name = Plan(cfg)[k].name /\ sockets[j].name = Plan(cfg)[l].name
          => k > l
     /\ \A i \in DOMAIN sockets :
          sockets[i].name \in Kept => handle[sockets[i].name] = sockets[i].fd

(* A failed attempt costs at most two descriptors, one of sock_add and one *)
(* of iface_ip6_get, and a successful one at most one.                     *)
LeakBound ==
  failures < MaxCounted =>
     Cardinality(open) - Len(sockets) <= 2 * failures + 2

(* Main is in a call that never returns.                                   *)
Blocked == pc \in {"stuck", "blocked"}

(* Whatever main is doing, binding, closing, sleeping between attempts or  *)
(* in run(), SIGTERM ends the program, unless main is in the detection of  *)
(* an address or in a send() when that does not return.                    *)
SignalExitsUnlessBlocked == [](~ Blocked) => (Shutdown ~> pc = "exited")

(* signal_handler: the program is shutting down.                           *)
SignalExits == Shutdown ~> pc = "exited"

Ready == up = Addrs

Persists == cfg.persistent /\ SanityCheck(cfg) = 1 /\ ~ cfg.upnp_udp
Settled == pc = "run" \/ Shutdown

(* In persistent mode without UPnP UDP, once every address is there to     *)
(* stay, main gets to run(), unless the failed attempts have used up the   *)
(* descriptors or a detection gets no answer.                              *)
PersistsWhileDescriptorsLast ==
  Persists /\ <>[]Ready /\ [](pc # "stuck") =>
    <>(Settled \/ Cardinality(Free) < Cardinality(Opening(cfg)) + 1)

(* In persistent mode main keeps trying until the addresses are there.     *)
PersistentBinds == Persists /\ <>[]Ready /\ [](pc # "stuck") => <>Settled

(* mcast is 239.255.255.250, the group of SSDP: joining it fails only when *)
(* the interface has no address.                                           *)
JoinsItsGroup == [][Join /\ Group(Name) \in up => pc' # "failed"]_vars

(* With every address and interface in place nothing but a shortage of     *)
(* descriptors makes binding fail: portproxy listens on the LAN address it *)
(* is told to use.                                                         *)
BindsWhenReady == []Ready => [](pc = "failed" => Free = {})

(* Classic and extended NAT-PMP are not both enabled when sockets are      *)
(* bound.                                                                  *)
MutuallyExclusive == pc = "bind" => ~ (cfg.nat_pmp /\ cfg.nat_pmp_ext)
=============================================================================
