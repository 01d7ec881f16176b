------------------------------ MODULE Interfaces ------------------------------
(***************************************************************************)
(* How portproxy learns which interfaces and addresses there are: the      *)
(* dumps over netlink (rtnl_open, rtnl_wilddump_request, rtnl_dump_filter  *)
(* of src/src/libnetlink.c), the list that main builds from them once      *)
(* (if_list_get, ipaddr_global_get), the look-ups of ctx_defaults in that  *)
(* list (iface_ip), and the detection of the IPv6 address before each      *)
(* attempt to bind (iface_ip6_get, ipaddr6_global_get).                    *)
(*                                                                         *)
(* Every call opens a socket and asks for the links, then for the          *)
(* addresses.  The kernel answers piece by piece and keeps nothing but a   *)
(* position between two pieces, while links and addresses come and go.     *)
(***************************************************************************)
EXTENDS Integers, Sequences, FiniteSets, SequencesExt

CONSTANTS
  Lan, Wan,      \* ctx->lan, ctx->wan: the names that are looked up
  Names,         \* names of interfaces
  IPv4, Global6, LinkLocal6,   \* addresses an interface may have
  PeerOf,        \* address -> what IFA_ADDRESS carries: on a point-to-point
                 \*   interface the address of the other end
  Beginnings,    \* what links and addresses there may be at the start
  CharIsSigned,  \* how the compiler takes a plain char
  MaxIndex,      \* bound: interfaces there ever are
  MaxChanges,    \* bound: links and addresses that come or go
  MaxCalls,      \* bound: calls of if_list_get and iface_ip6_get
  RxCap          \* bound: messages the kernel puts ahead of the reader

Addresses == IPv4 \cup Global6 \cup LinkLocal6
Link      == [kind : {"link"}, index : Nat, name : Names]
Address   == [kind : {"addr"}, index : Nat, addr : Addresses]
NoAddress == "0.0.0.0"

ASSUME NamesAssumption == {Lan, Wan} \subseteq Names
ASSUME FamilyAssumption ==
  IPv4 \cap (Global6 \cup LinkLocal6) = {} /\ Global6 \cap LinkLocal6 = {}
ASSUME PeerAssumption ==
  /\ PeerOf \in [Addresses -> Addresses]
  /\ \A a \in Addresses : a \in IPv4 <=> PeerOf[a] \in IPv4
ASSUME ResultAssumption == NoAddress \notin Addresses /\ "failed" \notin Addresses
ASSUME BeginAssumption ==   \* no two interfaces have the same name
  /\ Beginnings \subseteq [links : Seq(Link), addrs : Seq(Address)]
  /\ \A b \in Beginnings : \A i, j \in DOMAIN b.links : b.links[i].name = b.links[j].name => i = j
ASSUME CharAssumption  == CharIsSigned \in BOOLEAN
ASSUME BoundAssumption == {MaxIndex, MaxChanges, MaxCalls, RxCap} \subseteq Nat

VARIABLES
  pc,       \* where the thread is
  call,     \* the call that is going on: "if_list_get" or "iface_ip6_get"
  calls,    \* calls so far
  fd,       \* "none", "unnamed" (bind or getsockname failed) or "named"
  seq,      \* rth->seq, which rth->dump equals once a request was made
  linfo, ainfo,   \* the answers that store_nlmsg appended
  ifaces,   \* ctx->ifaces
  heap,     \* whether ipaddr_global_get wrote behind a buffer
  found,    \* what the last look-up or detection came to, with its name
  rx,       \* messages waiting at the netlink socket
  dump,     \* the kernel's dump: whose request, which table, how far
  links, addrs,   \* the kernel's tables
  fresh,    \* the last index given to an interface
  changes,
  hist      \* of this call: what there was at its start and ever since,
            \*   whether something was removed, a dump cut, a request lost

threadVars == <<pc, call, calls, fd, seq, linfo, ainfo, ifaces, heap, found>>
kernelVars == <<links, addrs, fresh, changes>>
vars == <<threadVars, rx, dump, kernelVars, hist>>

NoDump == [seq |-> 0, table |-> "none", next |-> 0]
Entry(s, e) == [seq |-> s, type |-> "entry", body |-> e]
DoneMsg(s)  == [seq |-> s, type |-> "done"]
ErrorMsg(s) == [seq |-> s, type |-> "error"]

Since(ls, as) ==
  [startLinks |-> ls, startAddrs |-> as, links |-> ls, addrs |-> as,
   removed |-> FALSE, cut |-> FALSE, lost |-> FALSE]

NoResult == [of |-> "none", name |-> Wan, addr |-> "none"]

Init ==
  /\ \E b \in Beginnings : links = b.links /\ addrs = b.addrs
  /\ fresh = Len(links) /\ changes = 0
  /\ pc = "idle" /\ call = "none" /\ calls = 0
  /\ fd = "none" /\ seq = 0
  /\ linfo = <<>> /\ ainfo = <<>>
  /\ ifaces = <<>> /\ heap = "intact" /\ found = NoResult
  /\ rx = <<>> /\ dump = NoDump
  /\ hist = Since({}, {})

-----------------------------------------------------------------------------
(* rtnl_open: socket() may fail, or a later step, which leaves the socket  *)
(* without the port id that its messages carry.  Nobody looks at the       *)
(* result, and nobody closes what an earlier call opened.                  *)
Begin ==
  /\ pc = "idle" /\ calls < MaxCalls
  /\ calls' = calls + 1
  /\ call' = IF calls = 0 THEN "if_list_get" ELSE "iface_ip6_get"
  /\ fd' \in {"none", "unnamed", "named"}
  /\ seq' = 0 /\ rx' = <<>> /\ dump' = NoDump
  /\ linfo' = <<>> /\ ainfo' = <<>>
  /\ found' = NoResult
  /\ hist' = Since(ToSet(links), ToSet(addrs))
  /\ pc' = "ask_links"
  /\ UNCHANGED <<ifaces, heap, kernelVars>>

(* The kernel starts a dump, unless one is still going on at this socket   *)
(* (EBUSY).                                                                *)
KernelTakes(table) ==
  IF dump = NoDump
    THEN /\ dump' = [seq |-> seq + 1, table |-> table, next |-> 1]
         /\ UNCHANGED rx
    ELSE /\ rx' = Append(rx, ErrorMsg(seq + 1))
         /\ UNCHANGED dump

(* rtnl_wilddump_request; that sendto() may have failed is ignored.        *)
Request(from, to, table) ==
  /\ pc = from /\ pc' = to
  /\ seq' = seq + 1
  /\ \/ fd # "none" /\ KernelTakes(table) /\ UNCHANGED hist
     \/ UNCHANGED <<rx, dump>> /\ hist' = [hist EXCEPT !.lost = TRUE]
  /\ UNCHANGED <<call, calls, fd, linfo, ainfo, ifaces, heap, found, kernelVars>>

AskLinks     == Request("ask_links", "links", "links")
AskAddresses == Request("ask_addrs", "addrs", "addrs")

MineFault(m) == TRUE   \* the sequence number is not looked at

(* A message that answers the request of this dump.                        *)
Mine(m) == fd = "named" /\ m.seq = seq

(* rtnl_dump_filter returns.                                               *)
DumpOver(cut) ==
  /\ pc' = IF pc = "links" THEN "ask_addrs" ELSE "build"
  /\ hist' = [hist EXCEPT !.cut = @ \/ cut]

StoreFault(e) ==   \* the list is not followed to its end: the newest is all there is
  IF pc = "links" THEN linfo' = <<e>> /\ UNCHANGED ainfo
                  ELSE ainfo' = <<e>> /\ UNCHANGED linfo

(* store_nlmsg: the message is copied to the end of the list.              *)
Store(e) ==
  IF pc = "links" THEN linfo' = Append(linfo, e) /\ UNCHANGED ainfo
                  ELSE ainfo' = Append(ainfo, e) /\ UNCHANGED linfo

ReceiveErrorFault(m) ==   \* the dump waits for the end it knows
  /\ m.type = "error"
  /\ UNCHANGED <<pc, hist, linfo, ainfo>>

(* NLMSG_ERROR ends the dump; what came before it is kept.                 *)
ReceiveError(m) ==
  /\ m.type = "error"
  /\ DumpOver(TRUE) /\ UNCHANGED <<linfo, ainfo>>

(* One message of rtnl_dump_filter.  Whatever recvmsg() reports as an      *)
(* error, it is called again; without a descriptor for ever.               *)
Receive ==
  /\ pc \in {"links", "addrs"} /\ fd # "none" /\ rx # <<>>
  /\ rx' = Tail(rx)
  /\ LET m == Head(rx) IN
     \/ ~ Mine(m) /\ UNCHANGED <<pc, linfo, ainfo, hist>>   \* junk
     \/ Mine(m) /\ m.type = "done" /\ DumpOver(FALSE) /\ UNCHANGED <<linfo, ainfo>>
     \/ Mine(m) /\ ReceiveError(m)
     \/ Mine(m) /\ m.type = "entry" /\ Store(m.body) /\ UNCHANGED <<pc, hist>>
     \/ Mine(m) /\ m.type = "entry" /\ DumpOver(TRUE)        \* malloc() failed
           /\ UNCHANGED <<linfo, ainfo>>
  /\ UNCHANGED <<call, calls, fd, seq, ifaces, heap, found, dump, kernelVars>>

-----------------------------------------------------------------------------
(* ipaddr_global_get.  Each further address gets a new buffer with one     *)
(* cell more; the old cells are copied to buf+4, which is four ints and    *)
(* not four bytes, and cells nobody wrote hold whatever malloc() found.    *)

Garbage == "garbage"

Grow(buf, a) ==
  [i \in 1 .. Len(buf) + 1 |->
     IF i = 1 THEN a ELSE IF i - 4 \in DOMAIN buf THEN buf[i - 4] ELSE Garbage]

OfInterfaceFault(e, index) == TRUE   \* the index is not compared

OfInterface(e, index) == e.index = index

IPv4Of(index) ==
  LET Takes(e) == e.addr \in IPv4 /\ OfInterface(e, index)
      buf[n \in 0 .. Len(ainfo)] ==
        IF n = 0 THEN <<>>
        ELSE IF Takes(ainfo[n]) THEN Grow(buf[n - 1], PeerOf[ainfo[n].addr]) ELSE buf[n - 1]
  IN  buf[Len(ainfo)]

(* if_list_get: an element for every link, in the order of the dump.       *)
BuildList ==
  /\ pc = "build" /\ call = "if_list_get"
  /\ ifaces' = [i \in DOMAIN linfo |->
                  [name |-> linfo[i].name, ipaddr |-> IPv4Of(linfo[i].index)]]
  /\ heap' = IF \E i \in DOMAIN ifaces' : Len(ifaces'[i].ipaddr) > 1
               THEN "overrun" ELSE heap
  /\ pc' = "lan_ip"
  /\ UNCHANGED <<call, calls, fd, seq, linfo, ainfo, found, rx, dump, kernelVars, hist>>

IsNamed(i, name) == i \in DOMAIN ifaces /\ ifaces[i].name = name
IsFirstNamed(i, name) == IsNamed(i, name) /\ \A j \in 1 .. i - 1 : ~ IsNamed(j, name)

Result(name, a) == found' = [of |-> call, name |-> name, addr |-> a]

(* iface_ip finds the name in the list.                                    *)
LookupHit(from, to, name) ==
  /\ pc = from /\ pc' = to
  /\ \E i \in DOMAIN ifaces :
        /\ IsFirstNamed(i, name)
        /\ Result(name, IF ifaces[i].ipaddr # <<>> THEN ifaces[i].ipaddr[1] ELSE NoAddress)
  /\ UNCHANGED <<call, calls, fd, seq, linfo, ainfo, ifaces, heap, rx, dump, kernelVars, hist>>

(* It does not: the walk goes on to the next pointer of the last element,  *)
(* which nobody set.  That is null in memory malloc() took for the first   *)
(* time, and anything in memory it took before.                            *)
LookupMiss(from, to, name) ==
  /\ pc = from /\ \A i \in DOMAIN ifaces : ~ IsNamed(i, name)
  /\ \/ pc' = to
     \/ ifaces # <<>> /\ pc' = "crashed"
  /\ Result(name, NoAddress)
  /\ UNCHANGED <<call, calls, fd, seq, linfo, ainfo, ifaces, heap, rx, dump, kernelVars, hist>>

(* ctx_defaults: the LAN address, then the WAN address.                    *)
LookUpLan == LookupHit("lan_ip", "wan_ip", Lan) \/ LookupMiss("lan_ip", "wan_ip", Lan)
LookUpWan == LookupHit("wan_ip", "idle", Wan) \/ LookupMiss("wan_ip", "idle", Wan)

(* The heap was overrun: the next malloc() or free() may notice it.        *)
HeapAborts ==
  /\ heap = "overrun" /\ pc \notin {"crashed", "idle"}
  /\ pc' = "crashed"
  /\ UNCHANGED <<call, calls, fd, seq, linfo, ainfo, ifaces, heap, found, rx, dump,
                 kernelVars, hist>>

-----------------------------------------------------------------------------
(* ipaddr6_global_get: the bytes of the address are compared as char with  *)
(* the int constants 0xfe and 0x80.                                        *)
AsChar(byte) == IF CharIsSigned /\ byte >= 128 THEN byte - 256 ELSE byte
Bytes(a) == IF a \in LinkLocal6 THEN <<254, 128>> ELSE <<32, 1>>

IsLinkLocal(a) == AsChar(Bytes(a)[1]) = 254 /\ AsChar(Bytes(a)[2]) = 128

Takes6(e, index) ==
  /\ e.addr \notin IPv4 /\ OfInterface(e, index)
  /\ ~ IsLinkLocal(PeerOf[e.addr])

(* iface_ip6_get: the first address that will do of the last link of that  *)
(* name which has one.                                                     *)
DetectsFrom(l, a) ==
  /\ l \in DOMAIN linfo /\ linfo[l].name = Wan
  /\ a \in DOMAIN ainfo /\ Takes6(ainfo[a], linfo[l].index)
  /\ \A b \in 1 .. a - 1 : ~ Takes6(ainfo[b], linfo[l].index)
  /\ \A k \in DOMAIN linfo : k > l /\ linfo[k].name = Wan =>
        \A b \in DOMAIN ainfo : ~ Takes6(ainfo[b], linfo[k].index)

Detect ==
  /\ pc = "build" /\ call = "iface_ip6_get" /\ pc' = "idle"
  /\ \/ \E l \in DOMAIN linfo, a \in DOMAIN ainfo :
           DetectsFrom(l, a) /\ Result(Wan, PeerOf[ainfo[a].addr])
     \/ /\ \A l \in DOMAIN linfo, a \in DOMAIN ainfo : ~ DetectsFrom(l, a)
        /\ Result(Wan, "failed")
  /\ UNCHANGED <<call, calls, fd, seq, linfo, ainfo, ifaces, heap, rx, dump, kernelVars, hist>>

-----------------------------------------------------------------------------
(* The kernel.  It goes through a table by position, so that an entry      *)
(* which is removed in front of the position hides the one behind it.      *)
Table == IF dump.table = "links" THEN links ELSE addrs

KernelSends ==
  /\ dump # NoDump /\ Len(rx) < RxCap
  /\ IF dump.next \in DOMAIN Table
       THEN /\ rx' = Append(rx, Entry(dump.seq, Table[dump.next]))
            /\ dump' = [dump EXCEPT !.next = @ + 1]
       ELSE /\ rx' = Append(rx, DoneMsg(dump.seq))
            /\ dump' = NoDump
  /\ UNCHANGED <<threadVars, kernelVars, hist>>

AddressComes(index, a) ==
  /\ changes < MaxChanges /\ changes' = changes + 1
  /\ \E i \in DOMAIN links : links[i].index = index
  /\ \A i \in DOMAIN addrs : addrs[i].addr # a
  /\ LET e == [kind |-> "addr", index |-> index, addr |-> a] IN
     /\ addrs' = Append(addrs, e)
     /\ hist' = [hist EXCEPT !.addrs = @ \cup {e}]
  /\ UNCHANGED <<threadVars, rx, dump, links, fresh>>

AddressGoes(i) ==
  /\ changes < MaxChanges /\ changes' = changes + 1
  /\ addrs' = RemoveAt(addrs, i)
  /\ hist' = [hist EXCEPT !.removed = TRUE]
  /\ UNCHANGED <<threadVars, rx, dump, links, fresh>>

(* An interface is plugged in or created again: it gets a new index.       *)
LinkComes(name) ==
  /\ changes < MaxChanges /\ changes' = changes + 1
  /\ fresh < MaxIndex /\ \A i \in DOMAIN links : links[i].name # name
  /\ fresh' = fresh + 1
  /\ LET e == [kind |-> "link", index |-> fresh + 1, name |-> name] IN
     /\ links' = Append(links, e)
     /\ hist' = [hist EXCEPT !.links = @ \cup {e}]
  /\ UNCHANGED <<threadVars, rx, dump, addrs>>

(* What is left of a table without the entries of one interface.           *)
Without(table, index) ==
  LET rest[n \in 0 .. Len(table)] ==
        IF n = 0 THEN <<>>
        ELSE IF table[n].index = index THEN rest[n - 1] ELSE Append(rest[n - 1], table[n])
  IN  rest[Len(table)]

LinkGoes(i) ==
  /\ changes < MaxChanges /\ changes' = changes + 1
  /\ links' = RemoveAt(links, i)
  /\ addrs' = Without(addrs, links[i].index)
  /\ hist' = [hist EXCEPT !.removed = TRUE]
  /\ UNCHANGED <<threadVars, rx, dump, fresh>>

-----------------------------------------------------------------------------
Thread ==
  \/ Begin \/ AskLinks \/ AskAddresses \/ Receive
  \/ BuildList \/ LookUpLan \/ LookUpWan \/ HeapAborts \/ Detect

Changes ==
  \/ \E index \in 1 .. MaxIndex, a \in Addresses : AddressComes(index, a)
  \/ \E i \in DOMAIN addrs : AddressGoes(i)
  \/ \E name \in Names : LinkComes(name)
  \/ \E i \in DOMAIN links : LinkGoes(i)

Next == Thread \/ KernelSends \/ Changes

Spec == Init /\ [][Next]_vars

(* The process is scheduled, and the kernel goes on with a dump as long as *)
(* the answers are read.                                                   *)
FairSpec == Spec /\ WF_vars(Thread) /\ WF_vars(KernelSends)

-----------------------------------------------------------------------------
(* rtnl_dump_filter takes what answers its own request: however the first  *)
(* dump ended and whatever it left at the socket, the list of links holds  *)
(* links that there were, and the list of addresses such addresses.        *)
DumpsNotMixed ==
  call # "none" => ToSet(linfo) \subseteq hist.links /\ ToSet(ainfo) \subseteq hist.addrs

Had(name, a) ==
  \E l \in hist.links, e \in hist.addrs :
     l.name = name /\ e.index = l.index /\ e.addr = a

(* What iface_ip6_get reports is an IPv6 address which an interface of     *)
(* that name has had during the call, and not one of another interface.    *)
DetectedIsOwn ==
  found.of = "iface_ip6_get" /\ found.addr # "failed" =>
     found.addr \in Global6 \cup LinkLocal6 /\ Had(found.name, found.addr)

(* The default for the LAN or WAN address is the interface's own.          *)
DefaultIsOwn ==
  found.of = "if_list_get" /\ found.addr # NoAddress =>
     found.addr \in IPv4 /\ Had(found.name, found.addr)

HadAtStart(name, as) ==
  \E l \in hist.startLinks, e \in hist.startAddrs :
     l.name = name /\ e.index = l.index /\ e.addr \in as

Undisturbed == ~ hist.removed /\ ~ hist.cut

(* An address that was there when the call began is found, unless a dump   *)
(* was cut short or something was removed while it went on.                *)
FindsWhatIsThere ==
  /\ found.of = "iface_ip6_get" /\ Undisturbed /\ HadAtStart(found.name, Global6)
        => found.addr # "failed"
  /\ found.of = "if_list_get" /\ Undisturbed /\ HadAtStart(found.name, IPv4)
        => found.addr # NoAddress

(* A call ends when the socket was set up and both requests were sent,     *)
(* also when the first dump was cut short and the kernel, still busy with  *)
(* it, refuses the second.                                                 *)
DumpsEnd ==
  pc \in {"ask_links", "links", "ask_addrs", "addrs"} ~>
     pc \notin {"links", "addrs"} \/ fd # "named" \/ hist.lost

-----------------------------------------------------------------------------
(* What a reader of the code would expect beyond that, and does not get.   *)

(* ipaddr6_global_get: "returns first non-local IPv6 address for specified *)
(* interface".                                                             *)
DetectedIsGlobal ==
  found.of = "iface_ip6_get" /\ found.addr # "failed" => found.addr \in Global6

(* ipaddr_global_get: "returns non-local addresses for specified           *)
(* interface", the older ones copied behind the newest.                    *)
EveryAddressIsReal ==
  \A i \in DOMAIN ifaces : \A k \in DOMAIN ifaces[i].ipaddr :
     ifaces[i].ipaddr[k] # Garbage

(* iface_ip returns 0.0.0.0 for an interface that does not exist.          *)
NoCrash == pc # "crashed"

(* An address that stays is found whatever else goes.                      *)
FindsWhatStays ==
  found.of = "iface_ip6_get" /\ ~ hist.cut /\ found.addr = "failed" =>
     \A l \in ToSet(links) \cap hist.startLinks, e \in ToSet(addrs) \cap hist.startAddrs :
        ~ (l.name = Wan /\ e.index = l.index /\ e.addr \in Global6)

(* Each call ends.                                                         *)
CallsEnd == pc = "ask_links" ~> pc \in {"build", "crashed"}
=============================================================================
