# A TLA+ development of portproxy

portproxy runs on the B4 router of a DS-Lite network. LAN clients speak NAT-PMP
and UPnP to the router; portproxy relays what they say to the AFTR (the carrier's
NAT) and the answers back. The modules here are translated from `src/src/*.c`
and from the OpenWrt integration under `src/luci/applications/softwire/`.

    tlasany M.tla                        parse a module
    tlc -config X.cfg M                  model-check it
    tlapm MProofs.tla                    check the proofs about M (minutes)

## 1. The system

One process, one thread. `main` parses the command line, binds the sockets
(again and again in persistent mode) and calls `run`, which waits in `select()`,
serves one packet, removes expired mappings and starts over until a signal
handler has set `Shutdown`. All state hangs off one `context_t`.

| component | state | operations | what makes it correct |
|---|---|---|---|
| mapping table (`framework.c`) | `ctx->mappings`, a linked list, in memory from `malloc`, of who asked whom from which port until when | `mapping_create`, `_add`, `_find`, `_delete`, `ctx_mappings_remove_expired`, `ctx_timeout_get` | ordered by timeout; a sweep leaves nothing expired and takes nothing else; `select()` wakes in time; the pointers stay a list and no walk follows one that was freed |
| event loop and signals (`framework.c`) | `Shutdown`, the descriptor set, the list order | `run`, `wait_for_traffic`, `signal_handler` | a signal stops it; mappings end under any load; no starvation of the answers' socket |
| UDP relay: classic NAT-PMP (`framework.c`) | the mappings, the kernel's receive buffers | `handle_packet`, `query_send`, `response_send` | answers go to clients that asked, no more of them than questions |
| UPnP UDP, SSDP (`framework.c`) | two sockets in a multicast group | `socket_mcast_join`, `packet_wan_mcast`, multicast branches of the relay | never gets to work: see below |
| extended NAT-PMP (`framework.c`) | none: a shim of 12 bytes carries the client's address and port | `handle_nat_pmp_ext_fromclient`, `..._fromserver` | the shim leads back to the asker whatever the AFTR repeats, reorders or sends without a shim |
| TCP relay (`framework.c`) | pairs of sockets that name each other by descriptor | `sock_tcp_accept`, `sock_tcp_receive`, `handle_tcp_packet`, `handle_tcp_close` | pairs stay pairs while numbers are reused; order; both sides are closed in the end |
| start, persistent binding, exit (`portproxy.c`, `lowlevel-linux.c`) | `ctx->sockets`, the descriptors kept in `ctx`, open descriptors | `sanity_check`, `sockets_bind`, the loop of `main`, `sockets_close` | list and descriptors agree; `run` gets the complete set; retries end in success or at a signal |
| command line (`portproxy.c`), rc script, UCI section | settings | `ctx_defaults`, `cmd_line_parse`, `rc.d/portproxy` | the script's line is accepted; a given address wins; settings take effect |
| interface discovery over netlink (`lowlevel-linux.c`, `libnetlink.c`) | lists of interfaces and addresses built from two dumps | `rtnl_open`, `rtnl_wilddump_request`, `rtnl_dump_filter`, `store_nlmsg`, `if_list_get`, `ipaddr_global_get`, `iface_ip`, `iface_ip6_get` | the two answers are not mixed; finds an address that is there, of the right kind and of that interface; ends |
| LuCI pages, templates, logging, headers | none that portproxy reads, except the UCI section | | presentation |

Interaction: the packet handlers of all modes are called from the same loop, on
one list of sockets; they share the mapping table, the descriptor numbers and
the one thread, which any of them may block. Clients, the AFTR, the clock, the administrator's signals and the addresses of interfaces act at any
moment between two steps of that thread.

UPnP UDP is the exception. `framework_init` sets the group to
`htonl(4211081199u)` (`framework.c:27`), which is 250.255.255.239 on either byte
order and not the 239.255.255.250 of its comment. That is no multicast address, so
`IP_ADD_MEMBERSHIP` fails (`framework.c:1164-1170`), `sockets_bind` returns -1
(`portproxy.c:460-462`) and a portproxy with `--upnp-udp 1` ends, or retries for
ever, without getting to `run`. `SocketSetup` models this; the code behind it that
handles SSDP packets is never reached, and no module models it.

The hard behaviours: answers that come late, twice, in another order, or while
another client waits; a signal between the test of `Shutdown` and `select()`;
the scan that always starts at the head of the list; descriptor numbers that are
reused while something still remembers them; cells that are freed while a walk
stands on them; a step of several that fails, with what was already done left
behind; ends that stop reading, reset or half-close; addresses that come later
than the program, or go while they are being listed. `PROJECT.json` lists them as hazards
at their lines.

## 2. The modules

                 PendingTable          RelayService     QueryService      abstract
                      ^ implemented by       ^                ^
    MappingList <- MappingHeap               |                |
        ^                                    |                |
    MappingTable  <------------------- UdpRelay          ExtNatPmp        the loop with
    EventLoop   TcpRelay                                                  its handlers
    SocketSetup   Interfaces   Configuration                              before the loop

`MappingList` holds what the code does to `ctx->mappings` as operators on a
sequence, head first, of records with a timeout: `MappingAdd` puts the new
element at the head like `mapping_add`, `MappingDelete` unlinks one,
`FirstExpired` and `TimeoutGet` are the sweep's test and `ctx_timeout_get`,
clamped to at least 1. `MappingTable` adds the fields: `MappingCreate` is
`mapping_create`, `Matches`/`IsFound` are `mapping_find`'s comparison and its
first match. Ports are the few roles there are (NAT-PMP, the shared socket, a
client's, none).

`MappingHeap` is the same list as it lies in memory: cells that `malloc` gives
and `free` takes, `next` pointers, an `int` that overflows, and the walks of
`mapping_find`, `mapping_delete`, the sweep and `ctx_timeout_get`, one cell per
step (`FindStep`, `UnlinkStep`, `SweepStep`, `TimeoutStep`). `chain`, the cells
that were linked and not unlinked, is history. `PendingTable` is the abstract
list that the loop expects, with whole operations; `MappingHeap` implements it
under a mapping that reads the cells along `chain` and takes a walk for the
phase it belongs to (`ImplementsTable`).

`UdpRelay` (extends `MappingTable`) is the loop with classic NAT-PMP.
One action per step of the thread between which something else can happen:
`LoopTest`, `ArmSelect` (timeout computed, `select()` entered), `Receive`/
`ReceiveFails`/`SelectTimeout`, one of `ForwardResponse` and `ForwardQuery` (the
ways through `handle_packet`, each whole, with a send that may fail), then
`SweepStart` (the clock is read once) and `SweepOne` per deletion and `SweepDone`.
`lan`, `wan`, `asked` and `answered` are history: what was sent, asked and
answered. A datagram carries the number of the query it belongs to; the proxy
never looks at it. `RelayService` is what one client may expect: each of its
queries is answered once or given up, and whose of several answers it gets is not
promised. `UdpRelay` implements it for every client at once, where the queries
that may still be answered are the mappings of that client in the table and its
queries under way (`ServesRequests`).

`EventLoop` is the same loop without packet contents and with what is left of a
timeout instead of the time of day: finite without stopping the clock, so
liveness can be checked. It answers who is served and what must end.

`SocketSetup` is `main` around the loop. `Plan(c)` is the order in which
`sockets_bind` adds sockets, joins groups and detects the IPv6 address for the
features `c`; `Add`, `Add6`, `Join`, `Detect` are its steps with their failures
and with the descriptors that each failure loses; `Failed`, `CloseOne`,
`CloseDone`, `Retry` are the loop of `main`. `RunReturns` stands for `run`, which
the other modules have, and `RunBlocks` for a `run` with UPnP TCP that waits in
`send()` for an end that does not read. The detection may find no descriptor
(`DetectSpins`) or get no answer of the kernel (`DetectWaits`). `Join` computes
with the value of `mcast`. The addresses (`up`) come and go by themselves.

`TcpRelay` is the loop for paired TCP sockets. The kernel gives the lowest free
descriptor; an end may send, finish, close, reset, stop reading. `send()` waits
for room (`Send`), is answered by an RST later (`SendToGone`), reports it once
(`SendFails`) and then raises SIGPIPE (`SendKills`).

`ExtNatPmp` is `handle_packet` with extended NAT-PMP on. Bytes matter in one place only, the port, which goes through an
`int`, a `short` and `ntohs`; these conversions are modelled for both byte
orders. `QueryService` is the abstract service: a query that was sent may be
answered to its sender, any number of times, and nothing else arrives.
`ExtNatPmp` implements it under the mapping of the variables of the same name
(`ServesQueries`).

`Configuration` is the rc script and the parser: a UCI section becomes a list of
words, or a command line is given by hand, and each option is one step. The script
quotes no value, so that the shell splits each at blanks: `WordsOf` says into what.

`Interfaces` is the netlink code: one call of `if_list_get` (by `main`, once) and
then calls of `iface_ip6_get` (each attempt to bind). `Begin` is `rtnl_open` with
its failures, `AskLinks` and `AskAddresses` the two requests, `Receive` the
loop of `rtnl_dump_filter`, one message per step, `BuildList` and `Detect` what
is made of the answers. The kernel keeps a position in its table between two
pieces of a dump (`KernelSends`) and refuses a second dump on the same socket
while one goes on; links and addresses come and go meanwhile.

`MC*` modules give the constants. `UdpRelayProofs`, `MappingHeapProofs`,
`ExtNatPmpProofs`, `SocketSetupProofs`, `TcpRelayProofs`, `ConfigurationProofs` and
`InterfacesProofs` have the theorems about the module they are named for;
`ListFacts` has those that several of them need: least and greatest elements,
what `RemoveAt`, `Tail` and `Append` do to a list, how a function defined by
recursion is known to exist, and what a list in the order of its timeouts keeps
and waits for.

Operators called `...Fault` or `...Early` are plausible slips of the definition
beside which they stand; no specification uses them. `PROJECT.json` says which
property finds each of them.

## 3. What is checked

| run | bounds | what it shows |
|---|---|---|
| `udp_safe` | 2 clients and the AFTR, 3 queries, 2 answers, buffers of 2, timeout 1, clock to 2 | the table is ordered and loses nothing, `select()` does not oversleep; the relay implements `RelayService`, so that no client gets more answers than it has sent questions, nor an answer to a question that was given up; a late answer, which is taken for a query of the AFTR, is never sent on as an answer by its own mapping (`AnswersReachClients`); after a signal one more packet at most |
| `heap` | 3 cells, 2 keys, timeout 1, clock to 2, `int` up to 7 | the pointers stay a list; no walk reads a freed or unlinked cell, the sweep's included, which deletes the cell it stands on; what leaves the list is freed unless it was the head; every walk ends; cells and walks implement `PendingTable` |
| `event_loop` | 3 sockets, 2 mappings, timeout 2, idle wait 3, buffers of 1 | a signal stops the loop even when it comes just before `select()`; every mapping ends however busy the loop is; a socket is served once those before it are quiet, the head always |
| `setup` | 33 command lines (below), 9 descriptors, one address lost | over failures, retries and reuse the list names open descriptors, each once; `run` starts with the complete set and with current descriptors in `ctx`; a failed attempt loses at most two descriptors; without UPnP UDP, as long as descriptors last and the kernel answers, persistent mode reaches `run` once the addresses stay; a signal ends the program unless `main` is in a detection or a `send()` that does not return |
| `ifaces` | LAN and WAN interface, 4 addresses, 2 beginnings, 2 calls, one change of the tables, 2 messages ahead | the answers to the two requests are never mixed, also after a dump that was cut short; what is detected, with a signed `char`, is an IPv6 address that an interface of that name had; the default is the interface's own; what was there when the call began is found if nothing was removed and no dump was cut short; the dumps end when the socket was set up and both requests were sent |
| `tcp_safe` | 2 connections, 3 or 4 descriptors, one client that sends 3 messages over and over, room for 1 | peers stay paired, nothing is lost or listed twice, no data crosses connections, order is kept without a gap when `send()` has to wait, no connection closes the other; with three descriptors the second is accepted and dropped, or reuses numbers |
| `tcp_ended` | 2 connections, an end before and one behind that send without end, room for 1 | when an end is done both descriptors are closed, once the sockets in front of it in the list are quiet |
| `ext_serves` | 2 clients whose ports mirror each other's bytes, queries of 12 and 128 bytes, 2 datagrams of the AFTR | the stateless shim implements `QueryService`; shim and query fit the buffer; what goes to the AFTR is a query of a client under its own shim, and nothing that the AFTR sent |
| `config_safe` | 3456 sections, a third of them with an interface of two words, all command lines of up to 3 of 12 words | of values of one word the script makes a line that is accepted, and in which an address wins over that of an interface |
| `udp_two_clients` | 2 clients, 1 answer | **fails**: the answer to the first goes to the second |
| `setup_emfile` | 4 descriptors | **fails**: persistent mode does not bind when the address comes at last |
| `tcp_half` | 1 connection | **fails**: what was on its way when one end finished sending is lost |

Why the bounds are enough. In `UdpRelay` a table of two mappings has a head, a
tail and a neighbour to lose; a third client or query meets a mapping in no new
position, and for the table the theorems hold for every bound anyway. Two
answers are a repeated one, or two that overtake each other; a third query lets a
late answer meet the queries of both clients; a clock of 2 with a
timeout of 1 lets a mapping expire, in the same second as another or later.
`MaxTime`, `MaxQueries`, `MaxArrivals` and `RxCap` bound it; a full buffer drops.
In `MappingHeap` three cells are a head, a middle and a tail; with two keys a
walk passes some cells and stops at another; since deleted heads are lost, memory
runs out within the bounds. `IntMax` is larger than any sum (the theorems take the
other values, and `MCMappingHeap_y2038` a small one).
`EventLoop` needs sockets before and behind (3), mappings that expire apart (2)
and an idle wait longer than a timeout. `SocketSetup` takes the features, an
address that is given where it matters, and persistence: 32 command lines with
one kind of NAT-PMP at most and one with both. `MaxFds` stands per run: above it
attempts only repeat, `MaxCounted` stops the count of failures at 3 and `MaxFlaps`
the number of addresses that vanish. The largest complete set is four sockets
and the netlink descriptor of the detection, so nine leave four to lose. Complete
sets have no SSDP sockets: with UPnP UDP no attempt succeeds, and `RunsComplete` and
`PersistsWhileDescriptorsLast` say nothing about it.
`Interfaces`: two links and four addresses are enough for an entry before and
behind the position of a dump; `MaxCalls` of 2 has a call of each kind;
`MaxChanges` of 1 lets something come, go, or come back under another index in
the next call; `RxCap` of 2 lets a dump that was cut short leave messages
behind. `TcpRelay`: `Limits` are the numbers of descriptors there may be, below
and at what two connections need; `MaxSent` and `Window` let `send()` wait, in
`tcp_safe` twice over. Messages are numbered, so a lost, swapped or doubled one
shows. An end may send without pause all the same: once its messages were
forwarded and read it starts over with the numbers (`StartsOver`). `Talkers` and
`Leavers` are the ends that send and that finish; in `tcp_safe` one client sends
and all ends finish (either connection may be accepted first, so that the silent
one stands for an older and a newer one), in `tcp_ended` one of each connection
sends and those of one finish, and either connection may be the newer one, in
front of the list. `ExtNatPmp`: ports 300 and 11265 are each other's bytes in
reverse, so a missing or a second swap sends an answer to the other port; a query
of 12 bytes is taken, one of 128 fills the buffer and is refused; `MaxAnswers`
bounds what the AFTR sends, `RxCap` what waits at a socket.

Deadlock is checked in `EventLoop`, `SocketSetup` and `MappingHeap`, whose final
states are actions of their own (`Stopped`, `Crashed`). In the others the
environment is bounded, or the parser ends, so `CHECK_DEADLOCK FALSE`: a blocked
`send()`, an exhausted clock or a parsed command line is a state where nothing
happens. Symmetry is used in `udp_safe`, over clients, for safety properties and
step simulations only, in which clients are not told apart.

Fairness. `WF(Proxy)` or `WF(Main)`: the process is scheduled as long as it can
go on, and `connect()` and `select()` come back. Not strong fairness: nothing
says a branch that is possible again and again is ever taken. `WF(Tick)` in
`EventLoop`: time passes, else no `select()` would end. `ReadingSpec` adds that
both ends of a TCP connection go on reading; without it `send()` may wait for
ever, see below. It does not say that they pause: the loop reads one socket per
`select()`, the first ready one of the list, so that an end that sends without pause
starves those behind it. `ServedWhenOthersQuiet` and `EndedIsClosed` have the premise
that those in front are quiet from some time on (`QuietInFront`). `MappingHeap`'s walks need the thread alone (`WF(Thread)`);
`Interfaces` needs the thread and a kernel that goes on with a dump it started
(`WF(KernelSends)`). No packet, signal, connection or address has to come, and
properties that need an address assume it (`<>[]Ready`).

### Disagreements

The three failing runs are the findings of `PROJECT.json`.

* `framework.c:1109`: "forwards response to client". All mappings of one service
  have the same ports and addresses; with two clients waiting, `mapping_find`
  gives the first answer to the one that asked last.
* `softwire-portproxy-perm.lua:67-70`: persistent mode "will keep trying to bind
  sockets with 10 seconds intervals". Each attempt loses a descriptor in `sock_add`
  when `bind()` fails (`lowlevel-linux.c:424`; one more where `iface_ip6_get` is
  called), so that none is left when the address comes.
* users' guide, UPnP TCP mode: "All data sent by client will be forwarded to CGN
  and vice versa". The first end of stream closes both sockets.

More of them came up. They are kept as configurations, each property of which the
code does not have; they are not among the runs of the project, and `tlc` on them
ends with the counterexample (to see another one of the same configuration, take
the first out).

| configuration | property | what happens |
|---|---|---|
| `MCUdpRelay_gaps` | `NoAnswerForwardedAsQuery` | `packet_valid` "checks if packet is valid" (`framework.c:1018`) and always says yes: an answer without a mapping is sent back to the AFTR as a query |
| `MCMappingHeap_lost` | `NothingLost` | a mapping deleted at the head of the list is never freed (`framework.c:998`) |
| | `NeverWithoutMemory` | with memory used up, `mapping_create` writes through a null pointer |
| `MCMappingHeap_y2038` | `LivesItsTime` | a sum of clock and timeout that does not fit in an `int` is swept at once |
| `MCSocketSetup_ssdp` | `JoinsItsGroup` | `mcast` is "239.255.255.250" (`framework.c:27`) only in the comment; its value is 250.255.255.239, which no socket can join, so that with UPnP UDP nothing binds |
| `MCSocketSetup_spin` | `SignalExits` | without a descriptor `rtnl_dump_filter` repeats a failing `recvmsg` for ever, without an answer it waits for ever, and no signal helps |
| `MCSocketSetup_both` | `MutuallyExclusive` | `sanity_check` returns -1 for both kinds of NAT-PMP (`portproxy.c:576`), and `main` takes that for true |
| `MCSocketSetup_octet` | `BindsWhenReady` | `s_addr >> 24` is the last octet on a little-endian CPU: a LAN address ending in 239 or more is taken for multicast |
| `MCInterfaces_signed` | `DetectedIsGlobal` | "returns first non-local IPv6 address" (`lowlevel-linux.c:205`): `char` is signed on x86 and MIPS, and the Makefile says nothing else, so that `addr[0] == 0xfe` is never true and a link-local address that comes first is returned |
| `MCInterfaces_cells` | `EveryAddressIsReal` | "copy old addrs" (`lowlevel-linux.c:313`) goes 16 bytes behind the start of an array of 4-byte addresses |
| `MCInterfaces_missing` | `NoCrash` | a name that is not in the list is looked for behind the end, since the last `next` is never set |
| `MCInterfaces_peer` | `DefaultIsOwn` | `IFA_ADDRESS` is the other end's address on a point-to-point interface |
| `MCInterfaces_gaps` | `FindsWhatStays` | what is removed during a dump moves the rest up, and the entry behind is passed over |
| | `CallsEnd` | a request that was not sent, or a socket without its port id, is waited for without end |
| `MCTcpRelay_killed` | `EndsBySignal` | sending to a connection that was reset raises SIGPIPE and ends the program |
| `MCTcpRelay_blocked` | `SignalExits` | an end that does not read blocks `send()` and the only thread; a signal restarts the call |
| `MCExtNatPmp_bigendian` | `ShimLeadsBack` | `memcpy` of the first two bytes of an `int` is port 0 on a big-endian CPU |
| `MCConfiguration_gaps` | `FeaturesAsConfigured` | the script passes none of the feature switches |
| | `ListensWhereConfigured` | with extended NAT-PMP alone the script does not pass the LAN address |
| | `DetectsWhereConfigured` | nor the WAN interface |
| | `DefaultsAsDocumented` | `portproxy.c:27` says NAT-PMP is on by default; it is off |

## 4. What is proved

**`UdpRelayProofs`**, for every set of clients, every timeout, with and without the
shared socket and for every bound: `TypeCorrect`; `TableStaysSorted`,
`SelectNeverOversleeps`, `AtMostOneLastPacket`, the invariants of the table, of the
timeout and of the end of the loop; and `MappingsAreNotLost`, an action property;
`AnswersAlwaysReachClients` and `ImplementsTheService`, which are about what clients
get.

All but the last two follow from `InvariantHolds`, for the conjunction `IInv` of `TypeOK`,
`TableSorted`, `ClockNotAhead`, `NeverOversleeps` and `LastPass`.
`ClockNotAhead` (what `time(NULL)` returned to the thread is not later than now)
is what makes a new mapping at the head the one that expires last.
`NeverOversleeps` needs `TableSorted`: in a sorted table the last mapping, or the
idle wait, is the least of what `ctx_timeout_get` compares (`ShortestFacts`).
`OneLastPacket` is not inductive: a packet could be counted in any pass.
`LastPass` says where the thread can be when one has been counted, so that the
next test of `Shutdown` is the last. The list operations come first, from lemmas of
`ListFacts` (`RemoveAtFacts`, `ConsFacts`, `RemoveSorted`); then each conjunct
has one lemma for a step, which goes through the actions that can disturb it.

`AnswersAlwaysReachClients` is about mappings that late answers leave: their client
is the AFTR, and their server and port on the WAN those of every other mapping.
`FitInv` says where each datagram, on its way or in hand, comes from and which port
it goes to (`RxFits`, `PktFits`, `WanFits`) and whom a mapping remembers
(`MappingsFit`), so that an answer of the AFTR, which comes from its NAT-PMP port,
meets only the mappings of clients (`LanFits`). `ImplementsTheService`
is the refinement of `RelayService` for each client. What `RelayService`
calls open is, in the relay, a number: mappings of the client in the table, its
queries at the socket, and the one in hand. So each step is a matter of counting
in lists: `CountOneMore` and `CountOneLess` say what an element that is added or
lost does to the count, `WaitingIs` takes the number apart into its three, and
`ServiceStep` goes through the actions. A sweep takes a step of the abstract service
for each mapping it deletes (it is given up), and answers move one from open to
answered; everything else keeps the number, a query by moving from the socket into
the hand and from there into the table.

**`MappingHeapProofs`**, for any number of cells and keys, any timeout and any
width of `int`: `TypeCorrect`, `AlwaysLinked`, `NeverDangling`,
`OnlyHeadsAreLost`, from `StructInv`: the types, the pointers along `chain`, each
cell of it in use, and where the walks stand. `mapping_delete` walks with two
pointers; that `tmp` is still before the cell to be unlinked is what keeps its
walk from running off the list. These hold whatever overflows. With the premise
`TimeFits` (the latest sum of clock and timeout fits in an `int`) `ListAlways`
adds that the cells are sorted and that a walk has passed no match, no expired
mapping and no lesser timeout; from that `ImplementsTheTable` proves the whole
refinement: initial states to initial states, every step of a walk to a step of
`PendingTable` or to none.

**`ExtNatPmpProofs`**, for any clients, queries and lengths and either byte order:
`TypeCorrect`, `NeverOverfills`, `TunnelIsForClients`, and `ImplementsTheService`,
the refinement of `QueryService`. The invariant says of each datagram that waits
at a socket, or is in hand, that it belongs there (`Belongs`): a query was asked,
an answer carries a shim and a number that went through the tunnel. Why the
port in a shim leads back to the port that asked is a lemma about bytes
(`PortComesBack`).

**`SocketSetupProofs`**, for any command lines, numbers of descriptors and
failures: `TypeCorrect`, `ListAlwaysOpen` (`JoinHasSocket` strengthens it: a group
is joined on a socket that was just added), and `LeaksAreBounded`, by counting
what is open and neither listed nor to be given back (`LeaksCounted`): two for
each failure, and one in the middle of an attempt that has detected an address.
`RunsAreComplete` needs `BuildInv`: in the middle of an attempt the list holds the
sockets of the steps that are done, newest first, and the context knows the
descriptor of each, except of an SSDP socket between its `socket_add` and its
`socket_mcast_join`. Three facts about the plan carry it, whatever the features
(`PlanIsPart`): no socket is opened by two steps, a join follows the step that
opened its socket, and an SSDP socket is followed by its join. The descriptors
that an earlier attempt left in the context do no harm because each is
overwritten before `run`.

**`TcpRelayProofs`**, for any connections, numbers of descriptors, messages and
windows: `TypeCorrect`, `PeersAlwaysPaired`, `NoCrosstalkEver` and the
action property `OthersAlwaysSurvive`. `PairInv` strengthens `PeersPaired`: every listed socket
has an end, and the two sockets on which `connect()` works are distinct, not
listed and belong to one connection. What `socket_del` leaves is a lemma
(`SocketDelFacts`), from which `CloseKeeps` shows that `handle_tcp_close` takes
out a whole pair and nothing else; the first-free rule for descriptors enters
through `FreeIsThere`. `NoCrosstalk` is about what was received; `StreamInv` adds
what is on its way: what waits to be received is in order and continues what the
proxy has read (`InboxInOrder`), the packet in hand is the next one for the end it
goes to (`HandIsNext`), what that end got, what is in hand and what is still in
the inbox add up to what was sent as long as it goes on reading (`NoGap`), and a
connection is new, and empty, exactly once (`NewIsEmpty`, `ConnectsOnce`), so that
no two share an end.

**`InterfacesProofs`**, for any tables, any names, any limit of messages and any
changes of the tables. `DumpsNeverMixed` follows from `Inv`: each message that
waits, and the dump the kernel is at, carries the number of a request that was
made, and an entry under the number of a request is of its kind (`Sound`); the
history has everything that is in the tables (`HistIs`). `DetectedIsAlwaysOwn`
and `DefaultIsAlwaysOwn` need more than the code knows, that `IFA_ADDRESS` is the
interface's own address (`Own6`, `Own4`), as it is where the link is no tunnel. These
are premises of the theorems, and `MCInterfaces_peer` shows what happens without
them. That a detected address is global is not proved: with a signed `char` it is
false (`MCInterfaces_signed`). The default is found in a list
that was built from the answers, so `OwnInv` says that each address of that list
was the interface's (`IfacesOwn`). `FindsWhatIsAlwaysThere` has the longest
argument. `CompleteInv` says where each entry is that was in the table when the call
began: stored, or waiting before the message that ends the dump, or behind the
position of the kernel (`OnItsWay`); since nothing was removed, no entry moves
past that position (`SinceStart`, `InReach`), and none answers a later request
(`NotAhead`). When both dumps are over everything is stored (`CompleteSoFar`), and
the search by name finds it because no two interfaces have one name (`NowNamed`).

**`ConfigurationProofs`**, for every section of values that are empty or one word
each (`Plain`), whatever the words are, any addresses and interfaces, and any way the
shell may split other values: `ScriptAlwaysAccepted` and `GivenAddressAlwaysWins`. Neither is inductive, since
both are about what the parser has still to read. `LineInv` therefore says where it
is. The line of the script falls into nine items (`Items`), each of which is nothing, a
switch, or an option with its value (`Shape`); `From` is what is left of the line
at the beginning of each. The parser always stands at such a beginning (`AtItem`),
so that it never takes a value for an option, and what the items before it have
set is still in the context (`Applied`). `LineIs` shows that `ScriptStarts` puts the
parser at the first item; `ParserTurn` that each turn of the parser takes it to the
next. The parameters of the script are not quoted, so that an empty address after
`-b` or `-s` vanishes and the next word is taken for it: `BrokenTurn` shows that
this ends the program, which is why `ScriptIsAccepted` has its premise, and that it
can never do worse, namely take an option for an address. `-l` and `-w` are items
7 and 8, behind both interfaces, and `IPv4Sets` says that no other item after them
touches what they set: that is `GivenAddressWins`.

Assumptions: the roles' addresses are distinct where the code distinguishes them
(`AddressAssumption` of `MappingTable`); `inet_pton` takes neither the empty string nor
an option for an address (`AddressAssumption` of `Configuration`), and the shell makes
no word of an empty value (`WordsAssumption`); `--timeout` is any integer, as `atoi` reads it, in
`UdpRelay` (`TimeoutAssumption`), and a natural number that fits in an `int` in
`MappingHeap` (`HeapAssumption`); 3600 is positive (`IdleAssumption`); clients
have addresses and ports below 65536 (`AskerAssumption`); features are Booleans,
bounds and lengths natural numbers; connections are finitely many; no two
interfaces have the same name when a call begins (`BeginAssumption`), and the
results "none" and "failed" are no addresses (`ResultAssumption`).

Model-checked only:

* liveness and everything under fairness, for which the prover has no rules:
  `WalksEnd`, `SignalStops`, `MappingsEnd`, `ServedWhenOthersQuiet`,
  `SignalExitsUnlessBlocked`, `PersistsWhileDescriptorsLast`, `EndedIsClosed`
  and `DumpsEnd`;
* `EventLoop`, whose only invariant is its type: what matters there is liveness, and
  the safety of the same loop is proved about `UdpRelay`.

## 5. What is not modelled

* Memory that is lost outside the mapping list: a `pkt_t` is freed only after a
  TCP send, an accept that fails loses its socket structures. Each is a count
  that grows by one per packet, with nothing to interleave.
* Descriptors of `FD_SETSIZE` and more in `wait_for_traffic`: the write behind the
  set has no defined outcome that a property could be about.
* `handle_ssdp`, `rtnl_talk`, `rtnl_listen` and the attribute builders of
  `libnetlink.c`: never called.
* UPnP UDP beyond the binding of its sockets: `packet_wan_mcast`, and the multicast
  branches of `handle_packet` and `mapping_create`, are reached only with sockets that
  joined a group, which the number in `framework.c:27` does not allow.
* A partial `send()`: a signal that interrupts a blocking `send()` after a part was
  sent makes it return a short count, also under `signal()`, which restarts only
  calls that have done nothing yet. `handle_tcp_packet` does not look at the count and
  the rest is lost. `TcpRelay` sends a message whole or not at all.
* Queries of lengths other than 12 and 128 bytes in the runs; `NeverOverfills` is
  about all of them.
* Patterns in settings, which the shell would expand to names of files: `WordsOf`
  stands for any splitting, and the theorems are about values of one word.
* Logging and printing, LuCI forms and templates, headers and the Makefile. Of the
  forms, what they let an administrator save is the input of `Configuration`.

## 6. Plan

All the modules of the plan are written, in this order: `MappingTable`,
`UdpRelay`, `EventLoop`, `SocketSetup`, `TcpRelay`, `QueryService` and
`ExtNatPmp`, `Configuration`, `Interfaces`, `MappingHeap` with `PendingTable`,
`RelayService`, and the proofs. What is left:

* The settings of `Configuration` composed with `SocketSetup`: which sections
  lead to which sockets.
