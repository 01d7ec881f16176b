-------------------------- MODULE InterfacesProofs --------------------------
(***************************************************************************)
(* Proofs about Interfaces for any names, addresses, tables of the kernel  *)
(* and numbers of changes and calls.                                       *)
(***************************************************************************)
EXTENDS Interfaces, ListFacts

-----------------------------------------------------------------------------
(* What the loops over the lists come to.                                  *)
Cells == Addresses \cup {Garbage}

(* The buffer of addresses grows by an address, which comes first.         *)
LEMMA GrowFacts ==
  ASSUME NEW buf \in Seq(Cells), NEW a \in Cells
  PROVE  Grow(buf, a) \in Seq(Cells) /\ Grow(buf, a) # <<>> /\ Grow(buf, a)[1] = a
<1>1. Len(buf) \in Nat
  OBVIOUS
<1> DEFINE n == Len(buf) + 1
           cell(i) == IF i = 1 THEN a ELSE IF i - 4 \in DOMAIN buf THEN buf[i - 4] ELSE Garbage
<1>2. \A i \in 1 .. n : cell(i) \in Cells
  BY DEF Cells
<1>3. Grow(buf, a) = [i \in 1 .. n |-> cell(i)] /\ n \in Nat /\ 1 \in 1 .. n
  BY <1>1 DEF Grow
<1>4. cell(1) = a
  OBVIOUS
<1> HIDE DEF n, cell
<1>5. [i \in 1 .. n |-> cell(i)] \in Seq(Cells)
  BY <1>2, <1>3
<1>6. Len([i \in 1 .. n |-> cell(i)]) = n /\ [i \in 1 .. n |-> cell(i)][1] = cell(1)
  BY <1>3
<1> QED BY <1>3, <1>4, <1>5, <1>6

(* ipaddr_global_get: there is a buffer when the interface has an address, *)
(* and its first cell holds one of the interface's.                        *)
Owns(index) == {k \in DOMAIN ainfo : ainfo[k].addr \in IPv4 /\ OfInterface(ainfo[k], index)}

(* There is a buffer exactly when the interface has an address, and its    *)
(* first cell is one of these.                                             *)
LEMMA IPv4OfIs ==
  ASSUME ainfo \in Seq(Address), NEW index
  PROVE  /\ IPv4Of(index) \in Seq(Cells)
         /\ Owns(index) # {} <=> IPv4Of(index) # <<>>
         /\ IPv4Of(index) # <<>> =>
               \E k \in Owns(index) : IPv4Of(index)[1] = PeerOf[ainfo[k].addr]
<1> DEFINE N == Len(ainfo)
           S == Seq(Cells)
           next(n, b) == IF ainfo[n].addr \in IPv4 /\ OfInterface(ainfo[n], index)
                           THEN Grow(b, PeerOf[ainfo[n].addr]) ELSE b
           Rec(f) == f = [n \in 0 .. N |-> IF n = 0 THEN <<>> ELSE next(n, f[n - 1])]
           buf == CHOOSE f : Rec(f)
<1>1. N \in Nat /\ \A n \in 1 .. N : PeerOf[ainfo[n].addr] \in Cells
  <2>1. \A n \in 1 .. N : ainfo[n] \in Address
    OBVIOUS
  <2>2. \A e \in Address : e.addr \in Addresses
    BY DEF Address
  <2> QED BY <2>1, <2>2, PeerAssumption DEF Cells
<1>2. IPv4Of(index) = buf[N]
  BY DEF IPv4Of
<1>3. \A n \in 1 .. N, b \in S : next(n, b) \in S
  BY <1>1, GrowFacts
<1>4. \E f : Rec(f)
  <2> DEFINE step == [p \in (1 .. N) \X S |-> next(p[1], p[2])]
  <2>1. step \in [(1 .. N) \X S -> S] /\ <<>> \in S
    BY <1>3
  <2>2. \A n \in 1 .. N, b \in S : step[<<n, b>>] = next(n, b)
    OBVIOUS
  <2> HIDE DEF step, S, N, next
  <2>3. PICK f : IsHistory(f, N, S, <<>>, step)
    BY <1>1, <2>1, HistoryExists
  <2>4. ASSUME NEW n \in 1 .. N PROVE f[n] = next(n, f[n - 1])
    <3>1. n - 1 \in 0 .. N
      BY <1>1
    <3> QED BY <2>2, <2>3, <3>1 DEF IsHistory
  <2>5. f = [n \in 0 .. N |-> IF n = 0 THEN <<>> ELSE next(n, f[n - 1])]
    <3>1. \A n \in 0 .. N : n = 0 \/ n \in 1 .. N
      BY <1>1
    <3> QED BY <2>3, <2>4, <3>1 DEF IsHistory
  <2> QED BY <2>5
<1>5. Rec(buf)
  BY <1>4
<1> HIDE DEF buf
<1>6. buf[0] = <<>> /\ \A n \in 1 .. N : buf[n] = next(n, buf[n - 1])
  BY <1>1, <1>5
<1> DEFINE OwnsTo(n) == {k \in Owns(index) : k <= n}
           G == {n \in 0 .. N : /\ buf[n] \in S
                                /\ OwnsTo(n) # {} <=> buf[n] # <<>>
                                /\ buf[n] # <<>> =>
                                     \E k \in Owns(index) : buf[n][1] = PeerOf[ainfo[k].addr]}
<1>7. Owns(index) \subseteq 1 .. N
  BY DEF Owns
<1>8. 0 \in G
  <2>1. OwnsTo(0) = {} /\ <<>> \in S /\ 0 \in 0 .. N
    BY <1>1, <1>7
  <2>2. OwnsTo(0) # {} <=> buf[0] # <<>>
    BY <1>6, <2>1
  <2> HIDE DEF OwnsTo, S, N
  <2> QED BY <1>6, <2>1, <2>2
<1>9. ASSUME NEW n \in 1 .. N, n - 1 \in G PROVE n \in G
  <2>1. n \in 0 .. N /\ n \in DOMAIN ainfo /\ buf[n - 1] \in S
    BY <1>1, <1>9
  <2>2. CASE n \in Owns(index)
    <3>1. buf[n] = Grow(buf[n - 1], PeerOf[ainfo[n].addr]) /\ n \in OwnsTo(n)
      BY <1>1, <1>6, <2>1, <2>2 DEF Owns
    <3>2. buf[n] \in S /\ buf[n] # <<>> /\ buf[n][1] = PeerOf[ainfo[n].addr]
      BY <1>1, <2>1, <3>1, GrowFacts
    <3> QED BY <2>1, <2>2, <3>1, <3>2
  <2>3. CASE n \notin Owns(index)
    <3>1. buf[n] = buf[n - 1]
      BY <1>6, <2>1, <2>3 DEF Owns
    <3>2. OwnsTo(n) = OwnsTo(n - 1)
      BY <1>1, <1>7, <2>3
    <3> QED BY <1>9, <2>1, <3>1, <3>2
  <2> QED BY <2>2, <2>3
<1>10. N \in G
  <2> HIDE DEF G
  <2>1. 0 .. N \subseteq G
    BY <1>1, <1>8, <1>9, CountingUp
  <2> QED BY <1>1, <2>1
<1>11. OwnsTo(N) = Owns(index)
  BY <1>1, <1>7
<1> QED BY <1>2, <1>10, <1>11

(* What is left of a table were entries of it.                             *)
LEMMA WithoutFacts ==
  ASSUME NEW table \in Seq(Address), NEW index
  PROVE  /\ Without(table, index) \in Seq(Address)
         /\ ToSet(Without(table, index)) \subseteq ToSet(table)
<1> DEFINE N == Len(table)
           S == Seq(ToSet(table))
           next(n, s) == IF table[n].index = index THEN s ELSE Append(s, table[n])
           Rec(f) == f = [n \in 0 .. N |-> IF n = 0 THEN <<>> ELSE next(n, f[n - 1])]
           rest == CHOOSE f : Rec(f)
<1>1. N \in Nat /\ \A n \in 1 .. N : table[n] \in ToSet(table)
  BY DEF ToSet
<1>2. Without(table, index) = rest[N]
  BY DEF Without
<1>3. \A n \in 1 .. N, s \in S : next(n, s) \in S
  BY <1>1
<1>4. \E f : Rec(f)
  <2> DEFINE step == [p \in (1 .. N) \X S |-> next(p[1], p[2])]
  <2>1. step \in [(1 .. N) \X S -> S] /\ <<>> \in S
    BY <1>3
  <2>2. \A n \in 1 .. N, s \in S : step[<<n, s>>] = next(n, s)
    OBVIOUS
  <2> HIDE DEF step, S, N, next
  <2>3. PICK f : IsHistory(f, N, S, <<>>, step)
    BY <1>1, <2>1, HistoryExists
  <2>4. ASSUME NEW n \in 1 .. N PROVE f[n] = next(n, f[n - 1])
    <3>1. n - 1 \in 0 .. N
      BY <1>1
    <3> QED BY <2>2, <2>3, <3>1 DEF IsHistory
  <2>5. f = [n \in 0 .. N |-> IF n = 0 THEN <<>> ELSE next(n, f[n - 1])]
    <3>1. \A n \in 0 .. N : n = 0 \/ n \in 1 .. N
      BY <1>1
    <3> QED BY <2>3, <2>4, <3>1 DEF IsHistory
  <2> QED BY <2>5
<1>5. Rec(rest)
  BY <1>4
<1> HIDE DEF rest
<1>6. rest[0] = <<>> /\ \A n \in 1 .. N : rest[n] = next(n, rest[n - 1])
  <2> HIDE DEF next
  <2> QED BY <1>1, <1>5
<1> DEFINE G == {n \in 0 .. N : rest[n] \in S}
<1>7. 0 \in G
  <2>1. 0 \in 0 .. N /\ rest[0] \in S
    BY <1>1, <1>6
  <2> QED BY <2>1
<1>8. ASSUME NEW n \in 1 .. N, n - 1 \in G PROVE n \in G
  <2>1. n \in 0 .. N /\ rest[n - 1] \in S
    BY <1>1, <1>8
  <2>2. rest[n] \in S
    BY <1>3, <1>6, <2>1
  <2> QED BY <2>1, <2>2
<1>9. rest[N] \in S
  <2> HIDE DEF G
  <2>1. 0 .. N \subseteq G
    BY <1>1, <1>7, <1>8, CountingUp
  <2>2. N \in G
    BY <1>1, <2>1
  <2> QED BY <2>2 DEF G
<1>10. \A s \in S : s \in Seq(Address) /\ ToSet(s) \subseteq ToSet(table)
  <2> SUFFICES ASSUME NEW s \in S PROVE s \in Seq(Address) /\ ToSet(s) \subseteq ToSet(table)
    OBVIOUS
  <2>1. ToSet(table) \subseteq Address
    BY DEF ToSet
  <2>2. \A i \in 1 .. Len(s) : s[i] \in ToSet(table)
    OBVIOUS
  <2>3. s \in Seq(Address)
    BY <2>1
  <2> QED BY <2>2, <2>3 DEF ToSet
<1> QED BY <1>2, <1>9, <1>10

-----------------------------------------------------------------------------
(* The invariant.  Sequence numbers tell the answers to the first request  *)
(* from those to the second, and so a link from an address.                *)
Messages ==
  [seq : Nat, type : {"entry"}, body : Link \cup Address] \cup
  [seq : Nat, type : {"done", "error"}]

Dumps == [seq : Nat, table : {"links", "addrs"}, next : Nat \ {0}]

Histories ==
  [startLinks : SUBSET Link, startAddrs : SUBSET Address,
   links : SUBSET Link, addrs : SUBSET Address,
   removed : BOOLEAN, cut : BOOLEAN, lost : BOOLEAN]

TypeInv ==
  /\ pc \in {"idle", "ask_links", "links", "ask_addrs", "addrs", "build", "lan_ip", "wan_ip",
             "crashed"}
  /\ call \in {"none", "if_list_get", "iface_ip6_get"}
  /\ seq \in Nat /\ fresh \in Nat
  /\ linfo \in Seq(Link) /\ ainfo \in Seq(Address)
  /\ links \in Seq(Link) /\ addrs \in Seq(Address)
  /\ rx \in Seq(Messages)
  /\ dump = NoDump \/ dump \in Dumps
  /\ hist \in Histories

PcIs ==
  /\ pc = "ask_links" => seq = 0
  /\ pc \in {"links", "ask_addrs"} => seq = 1
  /\ pc = "addrs" => seq = 2
  /\ pc \in {"lan_ip", "wan_ip"} => call = "if_list_get"

DumpIs ==
  dump # NoDump => \/ dump.seq = 1 /\ dump.table = "links"
                   \/ dump.seq = 2 /\ dump.table = "addrs"

Sound(m) ==
  m.type = "entry" => \/ m.seq = 1 /\ m.body \in hist.links
                      \/ m.seq = 2 /\ m.body \in hist.addrs

RxIs == \A m \in ToSet(rx) : Sound(m)

HistIs ==
  IF call = "none"
    THEN pc = "idle" /\ dump = NoDump /\ rx = <<>> /\ found = NoResult
    ELSE ToSet(links) \subseteq hist.links /\ ToSet(addrs) \subseteq hist.addrs

Inv == TypeInv /\ PcIs /\ DumpIs /\ RxIs /\ HistIs /\ DumpsNotMixed

-----------------------------------------------------------------------------
(* What iface_ip6_get and iface_ip find.                                   *)
IfacesOwn ==
  pc \in {"lan_ip", "wan_ip"} =>
     \A i \in DOMAIN ifaces : ifaces[i].ipaddr # <<>> =>
        ifaces[i].ipaddr[1] \in IPv4 /\ Had(ifaces[i].name, ifaces[i].ipaddr[1])

(* Everything that was there when the call began arrives, unless something *)
(* is removed or a dump is cut short.                                      *)
NowNamed == \A i, j \in DOMAIN links : links[i].name = links[j].name => i = j

SinceStart ==
  call # "none" =>
     /\ hist.startLinks \subseteq hist.links /\ hist.startAddrs \subseteq hist.addrs
     /\ ~ hist.removed => hist.links = ToSet(links) /\ hist.addrs = ToSet(addrs)

NotAhead ==
  /\ \A m \in ToSet(rx) : m.seq <= seq
  /\ dump # NoDump => dump.seq <= seq

InReach == ~ hist.removed /\ dump # NoDump => dump.next <= Len(Table) + 1

(* Of the messages q that wait and the dump d: an entry is stored already, *)
(* or waits at a place before k.                                           *)
Arrives(q, s, e, stored, k) ==
  e \in stored \/ \E j \in DOMAIN q : j < k /\ q[j] = Entry(s, e)

OnItsWay(q, d, s, table, stored, start) ==
  /\ d # NoDump /\ d.seq = s =>
       \A i \in DOMAIN table : i < d.next => Arrives(q, s, table[i], stored, Len(q) + 1)
  /\ \A k \in DOMAIN q : q[k] = DoneMsg(s) => \A e \in start : Arrives(q, s, e, stored, k)

CompleteSoFar ==
  /\ pc = "links" => OnItsWay(rx, dump, 1, links, ToSet(linfo), hist.startLinks)
  /\ pc = "addrs" => OnItsWay(rx, dump, 2, addrs, ToSet(ainfo), hist.startAddrs)
  /\ pc \in {"ask_addrs", "addrs", "build"} => hist.startLinks \subseteq ToSet(linfo)
  /\ pc = "build" => hist.startAddrs \subseteq ToSet(ainfo)

Progress ==
  /\ pc \in {"ask_addrs", "addrs", "build"} => fd = "named"
  /\ call # "none" /\ fd = "named" /\ Undisturbed => CompleteSoFar

IfacesComplete ==
  pc \in {"lan_ip", "wan_ip"} /\ Undisturbed =>
     \A l \in hist.startLinks, e \in hist.startAddrs :
        e.index = l.index /\ e.addr \in IPv4 =>
           /\ \E i \in DOMAIN ifaces : ifaces[i].name = l.name
           /\ \A i \in DOMAIN ifaces : ifaces[i].name = l.name =>
                 ifaces[i].ipaddr # <<>> /\ ifaces[i].ipaddr[1] # NoAddress

CompleteInv ==
  /\ NowNamed /\ SinceStart /\ NotAhead /\ InReach /\ Progress /\ IfacesComplete
  /\ FindsWhatIsThere

-----------------------------------------------------------------------------
(* An empty queue holds nothing.                                           *)
LEMMA EmptySet == ToSet(<<>>) = {}
BY DEF ToSet

(* Reading the first message takes no other out.                           *)
LEMMA TailSet ==
  ASSUME NEW S, NEW s \in Seq(S), s # <<>>
  PROVE  Head(s) \in ToSet(s) /\ ToSet(Tail(s)) \subseteq ToSet(s)
BY TailFacts DEF ToSet

(* A message that is sent is one more in the queue.                        *)
LEMMA AppendSet ==
  ASSUME NEW S, NEW s \in Seq(S), NEW x \in S
  PROVE  ToSet(Append(s, x)) = ToSet(s) \cup {x}
<1>1. ToSet(Append(s, x)) \subseteq ToSet(s) \cup {x}
  BY AppendFacts DEF ToSet
<1>2. \A i \in DOMAIN s : i \in DOMAIN Append(s, x) /\ Append(s, x)[i] = s[i]
  OBVIOUS
<1>3. Len(s) + 1 \in DOMAIN Append(s, x) /\ Append(s, x)[Len(s) + 1] = x
  OBVIOUS
<1> QED BY <1>1, <1>2, <1>3 DEF ToSet

(* Removing an entry of a table brings no new one.                         *)
LEMMA RemoveSet ==
  ASSUME NEW S, NEW s \in Seq(S), NEW i \in DOMAIN s
  PROVE  ToSet(RemoveAt(s, i)) \subseteq ToSet(s)
<1>1. i \in 1 .. Len(s) /\ Len(s) \in Nat
  OBVIOUS
<1>2. ASSUME NEW k \in DOMAIN RemoveAt(s, i) PROVE RemoveAt(s, i)[k] \in ToSet(s)
  <2>1. k \in 1 .. Len(s) - 1
    BY RemoveAtFacts
  <2>2. k \in DOMAIN s /\ k + 1 \in DOMAIN s
    BY <1>1, <2>1
  <2> QED BY <2>2, RemoveAtFacts DEF ToSet
<1> QED BY <1>2 DEF ToSet

(* A call begins with what there is now.                                   *)
LEMMA BeginKeeps == ASSUME Inv, Begin PROVE Inv'
<1>1. /\ pc' = "ask_links" /\ call' \in {"if_list_get", "iface_ip6_get"} /\ seq' = 0
      /\ linfo' = <<>> /\ ainfo' = <<>> /\ rx' = <<>> /\ dump' = NoDump
      /\ hist' = Since(ToSet(links), ToSet(addrs)) /\ UNCHANGED <<links, addrs, fresh>>
  BY DEF Begin, kernelVars
<1>2. ToSet(links) \subseteq Link /\ ToSet(addrs) \subseteq Address
  BY DEF Inv, TypeInv, ToSet
<1>3. hist' \in Histories /\ hist'.links = ToSet(links) /\ hist'.addrs = ToSet(addrs)
  BY <1>1, <1>2 DEF Since, Histories
<1>4. TypeInv'
  BY <1>1, <1>3 DEF Inv, TypeInv
<1>5. ToSet(rx') = {} /\ ToSet(linfo') = {} /\ ToSet(ainfo') = {}
  BY <1>1, EmptySet
<1> QED BY <1>1, <1>3, <1>4, <1>5 DEF Inv, PcIs, DumpIs, RxIs, HistIs, DumpsNotMixed

(* A request starts a dump of its own, or is refused or lost.              *)
LEMMA RequestKeeps ==
  ASSUME Inv, AskLinks \/ AskAddresses
  PROVE  Inv'
<1>1. /\ UNCHANGED <<call, linfo, ainfo, links, addrs, fresh, found>>
      /\ seq' = seq + 1
      /\ \/ pc = "ask_links" /\ pc' = "links" /\ seq' = 1
         \/ pc = "ask_addrs" /\ pc' = "addrs" /\ seq' = 2
  BY DEF AskLinks, AskAddresses, Request, kernelVars, Inv, PcIs
<1>2. /\ hist' = hist \/ hist' = [hist EXCEPT !.lost = TRUE]
      /\ \/ UNCHANGED dump
         \/ dump' = [seq |-> seq + 1, table |-> IF pc' = "links" THEN "links" ELSE "addrs",
                     next |-> 1]
      /\ UNCHANGED rx \/ rx' = Append(rx, ErrorMsg(seq + 1))
  BY DEF AskLinks, AskAddresses, Request, KernelTakes
<1>3. hist' \in Histories /\ hist'.links = hist.links /\ hist'.addrs = hist.addrs
  BY <1>2 DEF Inv, TypeInv, Histories
<1>4. seq \in Nat /\ ErrorMsg(seq + 1) \in Messages /\ ErrorMsg(seq + 1).type = "error"
  BY DEF Inv, TypeInv, ErrorMsg, Messages
<1>5. rx' \in Seq(Messages) /\ RxIs'
  <2>1. \A m \in ToSet(rx) : Sound(m)'
    BY <1>3 DEF Inv, RxIs, Sound
  <2>2. \A m : m.type = "error" => Sound(m)'
    BY DEF Sound
  <2>3. rx \in Seq(Messages)
    BY DEF Inv, TypeInv
  <2>4. CASE UNCHANGED rx
    BY <2>1, <2>3, <2>4 DEF RxIs
  <2>5. CASE rx' = Append(rx, ErrorMsg(seq + 1))
    <3>1. rx' \in Seq(Messages) /\ ToSet(rx') = ToSet(rx) \cup {ErrorMsg(seq + 1)}
      BY <1>4, <2>3, <2>5, AppendSet
    <3>2. \A m \in ToSet(rx') : Sound(m)'
      BY <1>4, <2>1, <2>2, <3>1
    <3> QED BY <3>1, <3>2 DEF RxIs
  <2> QED BY <1>2, <2>4, <2>5
<1>6. DumpIs' /\ (dump' = NoDump \/ dump' \in Dumps)
  <2>1. CASE UNCHANGED dump
    BY <2>1 DEF Inv, TypeInv, DumpIs
  <2>2. CASE dump' = [seq |-> seq + 1, table |-> IF pc' = "links" THEN "links" ELSE "addrs",
                      next |-> 1]
    BY <1>1, <1>4, <2>2 DEF Dumps, DumpIs
  <2> QED BY <1>2, <2>1, <2>2
<1>7. TypeInv'
  BY <1>1, <1>3, <1>5, <1>6 DEF Inv, TypeInv
<1>8. HistIs' /\ DumpsNotMixed'
  BY <1>1, <1>3 DEF Inv, HistIs, DumpsNotMixed
<1> QED BY <1>1, <1>5, <1>6, <1>7, <1>8 DEF Inv, PcIs

(* rtnl_dump_filter takes what bears the number of its request, which was  *)
(* for this table.                                                         *)
LEMMA ReceiveKeeps == ASSUME Inv, Receive PROVE Inv'
<1>1. /\ pc \in {"links", "addrs"} /\ rx # <<>> /\ rx' = Tail(rx)
      /\ UNCHANGED <<call, seq, found, dump, links, addrs, fresh>>
  BY DEF Receive, kernelVars
<1>2. \/ UNCHANGED <<pc, linfo, ainfo, hist>>
      \/ /\ UNCHANGED <<linfo, ainfo>> /\ \E cut \in BOOLEAN : DumpOver(cut)
      \/ /\ UNCHANGED <<pc, hist>> /\ Head(rx).type = "entry" /\ Head(rx).seq = seq
         /\ Store(Head(rx).body)
  BY DEF Receive, ReceiveError, Mine
<1>3. rx' \in Seq(Messages) /\ Head(rx) \in ToSet(rx) /\ ToSet(rx') \subseteq ToSet(rx)
      /\ Head(rx) \in Messages
  <2>1. rx \in Seq(Messages)
    BY DEF Inv, TypeInv
  <2> QED BY <1>1, <2>1, TailSet, TailFacts
<1>4. /\ pc' \in {"links", "ask_addrs", "addrs", "build"}
      /\ pc' = "links" => pc = "links"
      /\ pc' = "ask_addrs" => pc = "links"
      /\ pc' = "addrs" => pc = "addrs"
  BY <1>1, <1>2 DEF DumpOver
<1>5. hist' \in Histories /\ hist'.links = hist.links /\ hist'.addrs = hist.addrs
  <2>1. hist' = hist \/ \E cut \in BOOLEAN : hist' = [hist EXCEPT !.cut = @ \/ cut]
    BY <1>2 DEF DumpOver
  <2> QED BY <2>1 DEF Inv, TypeInv, Histories
<1>6. call # "none"
  BY <1>1 DEF Inv, HistIs
<1>7. /\ linfo' \in Seq(Link) /\ ainfo' \in Seq(Address)
      /\ ToSet(linfo') \subseteq hist.links /\ ToSet(ainfo') \subseteq hist.addrs
  <2>1. /\ linfo \in Seq(Link) /\ ainfo \in Seq(Address)
        /\ ToSet(linfo) \subseteq hist.links /\ ToSet(ainfo) \subseteq hist.addrs
        /\ hist.links \subseteq Link /\ hist.addrs \subseteq Address
    BY <1>6 DEF Inv, TypeInv, DumpsNotMixed, Histories
  <2>2. CASE UNCHANGED <<linfo, ainfo>>
    BY <2>1, <2>2
  <2>3. CASE Head(rx).type = "entry" /\ Head(rx).seq = seq /\ Store(Head(rx).body)
    <3>1. Sound(Head(rx))
      BY <1>3 DEF Inv, RxIs
    <3>2. CASE pc = "links"
      <4>1. seq = 1
        BY <3>2 DEF Inv, PcIs
      <4>2. Head(rx).body \in hist.links
        BY <2>3, <3>1, <4>1 DEF Sound
      <4>3. linfo' = Append(linfo, Head(rx).body) /\ UNCHANGED ainfo
        BY <2>3, <3>2 DEF Store
      <4>4. linfo' \in Seq(Link) /\ ToSet(linfo') = ToSet(linfo) \cup {Head(rx).body}
        BY <2>1, <4>2, <4>3, AppendSet, AppendFacts
      <4> QED BY <2>1, <4>2, <4>3, <4>4
    <3>3. CASE pc = "addrs"
      <4>1. seq = 2
        BY <3>3 DEF Inv, PcIs
      <4>2. Head(rx).body \in hist.addrs
        BY <2>3, <3>1, <4>1 DEF Sound
      <4>3. ainfo' = Append(ainfo, Head(rx).body) /\ UNCHANGED linfo
        BY <2>3, <3>3 DEF Store
      <4>4. ainfo' \in Seq(Address) /\ ToSet(ainfo') = ToSet(ainfo) \cup {Head(rx).body}
        BY <2>1, <4>2, <4>3, AppendSet, AppendFacts
      <4> QED BY <2>1, <4>2, <4>3, <4>4
    <3> QED BY <1>1, <3>2, <3>3
  <2> QED BY <1>2, <2>2, <2>3
<1>8. TypeInv'
  BY <1>1, <1>3, <1>4, <1>5, <1>7 DEF Inv, TypeInv
<1>9. RxIs'
  <2>1. \A m \in ToSet(rx') : Sound(m)'
    BY <1>3, <1>5 DEF Inv, RxIs, Sound
  <2> QED BY <2>1 DEF RxIs
<1>10. PcIs' /\ DumpIs'
  BY <1>1, <1>4 DEF Inv, PcIs, DumpIs
<1>11. HistIs' /\ DumpsNotMixed'
  BY <1>1, <1>5, <1>6, <1>7 DEF Inv, HistIs, DumpsNotMixed
<1> QED BY <1>8, <1>9, <1>10, <1>11 DEF Inv

(* What is done with the lists changes neither them nor the socket.        *)
UseLists == BuildList \/ LookUpLan \/ LookUpWan \/ HeapAborts \/ Detect

(* Looking in the lists that were built changes no list.                   *)
LEMMA UseKeeps == ASSUME Inv, UseLists PROVE Inv'
<1>1. /\ UNCHANGED <<call, seq, linfo, ainfo, rx, dump, links, addrs, fresh, hist>>
      /\ pc \notin {"idle", "crashed"} /\ pc' \in {"idle", "lan_ip", "wan_ip", "crashed"}
      /\ pc' \in {"lan_ip", "wan_ip"} => call = "if_list_get"
  BY DEF UseLists, BuildList, LookUpLan, LookUpWan, LookupHit, LookupMiss, HeapAborts, Detect,
     kernelVars, Inv, TypeInv, PcIs
<1>2. RxIs'
  BY <1>1 DEF Inv, RxIs, Sound
<1>3. TypeInv' /\ PcIs' /\ DumpIs' /\ DumpsNotMixed'
  BY <1>1 DEF Inv, TypeInv, PcIs, DumpIs, DumpsNotMixed
<1>4. HistIs'
  BY <1>1 DEF Inv, HistIs
<1> QED BY <1>2, <1>3, <1>4 DEF Inv

(* The kernel sends what is in its table now, under the number of the dump.*)
LEMMA KernelKeeps == ASSUME Inv, KernelSends PROVE Inv'
<1>1. /\ dump # NoDump /\ UNCHANGED <<threadVars, kernelVars, hist>>
      /\ \/ /\ dump.next \in DOMAIN Table
            /\ rx' = Append(rx, Entry(dump.seq, Table[dump.next]))
            /\ dump' = [dump EXCEPT !.next = @ + 1]
         \/ rx' = Append(rx, DoneMsg(dump.seq)) /\ dump' = NoDump
  BY DEF KernelSends
<1>2. call # "none" /\ dump \in Dumps /\ rx \in Seq(Messages) /\ dump.seq \in Nat
      /\ hist.links \subseteq Link /\ hist.addrs \subseteq Address
  BY <1>1 DEF Inv, HistIs, TypeInv, Dumps, Histories
<1>3. dump' = NoDump \/ (dump' \in Dumps /\ dump'.seq = dump.seq /\ dump'.table = dump.table)
  BY <1>1, <1>2 DEF Dumps
<1>4. \E m \in Messages : rx' = Append(rx, m) /\ Sound(m)
  <2>1. CASE rx' = Append(rx, DoneMsg(dump.seq))
    BY <1>2, <2>1 DEF DoneMsg, Messages, Sound
  <2>2. CASE dump.next \in DOMAIN Table /\ rx' = Append(rx, Entry(dump.seq, Table[dump.next]))
    <3> DEFINE b == Table[dump.next]
    <3>1. b \in ToSet(Table)
      BY <2>2 DEF ToSet
    <3>2. (dump.seq = 1 /\ b \in hist.links) \/ (dump.seq = 2 /\ b \in hist.addrs)
      BY <1>1, <1>2, <3>1 DEF Inv, DumpIs, HistIs, Table
    <3> HIDE DEF b
    <3>3. Entry(dump.seq, b) \in Messages /\ Sound(Entry(dump.seq, b))
      BY <1>2, <3>2 DEF Entry, Messages, Sound
    <3> QED BY <2>2, <3>3 DEF b
  <2> QED BY <1>1, <2>1, <2>2
<1>5. rx' \in Seq(Messages) /\ RxIs'
  <2>1. PICK m \in Messages : rx' = Append(rx, m) /\ Sound(m)
    BY <1>4
  <2>2. rx' \in Seq(Messages) /\ ToSet(rx') = ToSet(rx) \cup {m}
    BY <1>2, <2>1, AppendSet
  <2>3. \A n \in ToSet(rx') : Sound(n)
    BY <2>1, <2>2 DEF Inv, RxIs
  <2> QED BY <1>1, <2>2, <2>3 DEF RxIs, Sound
<1>6. TypeInv'
  BY <1>1, <1>3, <1>5 DEF Inv, TypeInv, threadVars, kernelVars
<1>7. DumpIs'
  BY <1>1, <1>3 DEF Inv, DumpIs
<1> QED BY <1>1, <1>2, <1>5, <1>6, <1>7 DEF Inv, PcIs, HistIs, DumpsNotMixed, threadVars,
           kernelVars

(* Interfaces and addresses that come and go: the history keeps them all.  *)
HistoryKept ==
  /\ links' \in Seq(Link) /\ addrs' \in Seq(Address) /\ hist' \in Histories
  /\ fresh' \in Nat
  /\ hist.links \subseteq hist'.links /\ hist.addrs \subseteq hist'.addrs
  /\ ToSet(links') \subseteq ToSet(links) \cup hist'.links
  /\ ToSet(addrs') \subseteq ToSet(addrs) \cup hist'.addrs

(* What the administrator changes in the tables goes into the history.     *)
LEMMA ChangesKeep == ASSUME Inv, Changes PROVE Inv'
<1>1. UNCHANGED <<threadVars, rx, dump>>
  BY DEF Changes, AddressComes, AddressGoes, LinkComes, LinkGoes
<1>2. links \in Seq(Link) /\ addrs \in Seq(Address) /\ hist \in Histories /\ fresh \in Nat
  BY DEF Inv, TypeInv
<1>3. HistoryKept
  <2>1. ASSUME NEW index \in 1 .. MaxIndex, NEW a \in Addresses, AddressComes(index, a)
        PROVE  HistoryKept
    <3> DEFINE e == [kind |-> "addr", index |-> index, addr |-> a]
    <3>1. e \in Address
      BY DEF Address
    <3>2. addrs' = Append(addrs, e) /\ hist' = [hist EXCEPT !.addrs = @ \cup {e}]
          /\ UNCHANGED <<links, fresh>>
      BY <2>1 DEF AddressComes
    <3> HIDE DEF e
    <3>3. hist' \in Histories /\ hist'.links = hist.links /\ hist'.addrs = hist.addrs \cup {e}
      BY <1>2, <3>1, <3>2 DEF Histories
    <3>4. addrs' \in Seq(Address) /\ ToSet(addrs') = ToSet(addrs) \cup {e}
      BY <1>2, <3>1, <3>2, AppendSet, AppendFacts
    <3> QED BY <1>2, <3>2, <3>3, <3>4 DEF HistoryKept
  <2>2. ASSUME NEW i \in DOMAIN addrs, AddressGoes(i) PROVE HistoryKept
    <3>1. addrs' = RemoveAt(addrs, i) /\ hist' = [hist EXCEPT !.removed = TRUE]
          /\ UNCHANGED <<links, fresh>>
      BY <2>2 DEF AddressGoes
    <3>2. hist' \in Histories /\ hist'.links = hist.links /\ hist'.addrs = hist.addrs
      BY <1>2, <3>1 DEF Histories
    <3>3. addrs' \in Seq(Address) /\ ToSet(addrs') \subseteq ToSet(addrs)
      BY <1>2, <3>1, RemoveSet, RemoveAtFacts
    <3> QED BY <1>2, <3>1, <3>2, <3>3 DEF HistoryKept
  <2>3. ASSUME NEW name \in Names, LinkComes(name) PROVE HistoryKept
    <3> DEFINE e == [kind |-> "link", index |-> fresh + 1, name |-> name]
    <3>1. e \in Link
      BY <1>2 DEF Link
    <3>2. links' = Append(links, e) /\ hist' = [hist EXCEPT !.links = @ \cup {e}]
          /\ UNCHANGED addrs /\ fresh' = fresh + 1
      BY <2>3 DEF LinkComes
    <3> HIDE DEF e
    <3>3. hist' \in Histories /\ hist'.links = hist.links \cup {e} /\ hist'.addrs = hist.addrs
      BY <1>2, <3>1, <3>2 DEF Histories
    <3>4. links' \in Seq(Link) /\ ToSet(links') = ToSet(links) \cup {e}
      BY <1>2, <3>1, <3>2, AppendSet, AppendFacts
    <3> QED BY <1>2, <3>2, <3>3, <3>4 DEF HistoryKept
  <2>4. ASSUME NEW i \in DOMAIN links, LinkGoes(i) PROVE HistoryKept
    <3>1. links' = RemoveAt(links, i) /\ addrs' = Without(addrs, links[i].index)
          /\ hist' = [hist EXCEPT !.removed = TRUE] /\ UNCHANGED fresh
      BY <2>4 DEF LinkGoes
    <3>2. hist' \in Histories /\ hist'.links = hist.links /\ hist'.addrs = hist.addrs
      BY <1>2, <3>1 DEF Histories
    <3>3. links' \in Seq(Link) /\ ToSet(links') \subseteq ToSet(links)
      BY <1>2, <3>1, RemoveSet, RemoveAtFacts
    <3>4. addrs' \in Seq(Address) /\ ToSet(addrs') \subseteq ToSet(addrs)
      BY <1>2, <3>1, WithoutFacts
    <3> QED BY <1>2, <3>1, <3>2, <3>3, <3>4 DEF HistoryKept
  <2> QED BY <2>1, <2>2, <2>3, <2>4 DEF Changes
<1>4. TypeInv'
  BY <1>1, <1>3 DEF HistoryKept, Inv, TypeInv, threadVars
<1>5. RxIs'
  <2>1. \A m \in ToSet(rx) : Sound(m)'
    BY <1>3 DEF HistoryKept, Inv, RxIs, Sound
  <2> QED BY <1>1, <2>1 DEF RxIs
<1>6. HistIs' /\ DumpsNotMixed'
  BY <1>1, <1>3 DEF HistoryKept, Inv, HistIs, DumpsNotMixed, threadVars
<1> QED BY <1>1, <1>4, <1>5, <1>6 DEF Inv, PcIs, DumpIs, threadVars

(* Every step keeps each message with the request it answers.              *)
LEMMA InvNext == Inv /\ [Next]_vars => Inv'
<1> SUFFICES ASSUME Inv, [Next]_vars PROVE Inv'
  OBVIOUS
<1>1. CASE UNCHANGED vars
  BY <1>1 DEF vars, threadVars, kernelVars, Inv, TypeInv, PcIs, DumpIs, RxIs, Sound, HistIs,
     DumpsNotMixed, Table
<1>2. CASE Thread
  BY <1>2, BeginKeeps, RequestKeeps, ReceiveKeeps, UseKeeps DEF Thread, UseLists
<1> QED BY <1>1, <1>2, KernelKeeps, ChangesKeep DEF Next

(* No request has been made when main begins.                              *)
LEMMA InvInit == Init => Inv
<1> SUFFICES ASSUME Init PROVE Inv
  OBVIOUS
<1>1. /\ pc = "idle" /\ call = "none" /\ seq = 0 /\ linfo = <<>> /\ ainfo = <<>>
      /\ rx = <<>> /\ dump = NoDump /\ hist = Since({}, {}) /\ found = NoResult
      /\ fresh = Len(links)
  BY DEF Init
<1>2. links \in Seq(Link) /\ addrs \in Seq(Address)
  BY BeginAssumption DEF Init
<1>3. hist \in Histories
  BY <1>1 DEF Since, Histories
<1>4. TypeInv
  BY <1>1, <1>2, <1>3 DEF TypeInv
<1> QED BY <1>1, <1>4, EmptySet DEF Inv, PcIs, DumpIs, RxIs, HistIs, DumpsNotMixed

(* So each message carries the number of its request, at any time.         *)
LEMMA InvAlways == Spec => []Inv
BY InvInit, InvNext, PTL DEF Spec

(* However the first dump ended, whatever it left at the socket and however*)
(* the tables change: the list of links that rtnl_dump_filter leaves holds *)
(* links there were, and the list of addresses such addresses.             *)
THEOREM DumpsNeverMixed == Spec => []DumpsNotMixed
<1>1. Inv => DumpsNotMixed
  BY DEF Inv
<1> QED BY <1>1, InvAlways, PTL

-----------------------------------------------------------------------------
(* The premise under which the code finds what it looks for: IFA_ADDRESS   *)
(* holds the interface's own address.                                      *)
Own6 == \A a \in Global6 \cup LinkLocal6 : PeerOf[a] = a
Own4 == \A a \in IPv4 : PeerOf[a] = a

(* During a call its history only grows.                                   *)
LEMMA HistoryGrows ==
  ASSUME Inv, [Next]_vars, ~ Begin
  PROVE  /\ call' = call /\ hist.links \subseteq hist'.links /\ hist.addrs \subseteq hist'.addrs
         /\ hist'.startLinks = hist.startLinks /\ hist'.startAddrs = hist.startAddrs
         /\ hist.removed => hist'.removed
         /\ hist.cut => hist'.cut
<1>1. hist \in Histories
  BY DEF Inv, TypeInv
<1>2. \/ UNCHANGED hist
      \/ hist' = [hist EXCEPT !.lost = TRUE]
      \/ hist' = [hist EXCEPT !.removed = TRUE]
      \/ \E cut \in BOOLEAN : hist' = [hist EXCEPT !.cut = @ \/ cut]
      \/ \E e \in Link : hist' = [hist EXCEPT !.links = @ \cup {e}]
      \/ \E e \in Address : hist' = [hist EXCEPT !.addrs = @ \cup {e}]
  <2>1. CASE AskLinks \/ AskAddresses
    BY <2>1 DEF AskLinks, AskAddresses, Request
  <2>2. CASE Receive
    BY <2>2 DEF Receive, ReceiveError, DumpOver
  <2>3. CASE UseLists
    BY <2>3 DEF UseLists, BuildList, LookUpLan, LookUpWan, LookupHit, LookupMiss, HeapAborts,
       Detect
  <2>4. CASE KernelSends \/ UNCHANGED vars
    BY <2>4 DEF KernelSends, vars
  <2>5. CASE \E i \in DOMAIN addrs : AddressGoes(i)
    BY <2>5 DEF AddressGoes
  <2>6. CASE \E i \in DOMAIN links : LinkGoes(i)
    BY <2>6 DEF LinkGoes
  <2>7. ASSUME NEW index \in 1 .. MaxIndex, NEW a \in Addresses, AddressComes(index, a)
        PROVE  \E e \in Address : hist' = [hist EXCEPT !.addrs = @ \cup {e}]
    <3> DEFINE e == [kind |-> "addr", index |-> index, addr |-> a]
    <3>1. e \in Address
      BY DEF Address
    <3>2. hist' = [hist EXCEPT !.addrs = @ \cup {e}]
      BY <2>7 DEF AddressComes
    <3> HIDE DEF e
    <3> QED BY <3>1, <3>2
  <2>8. ASSUME NEW name \in Names, LinkComes(name)
        PROVE  \E e \in Link : hist' = [hist EXCEPT !.links = @ \cup {e}]
    <3> DEFINE e == [kind |-> "link", index |-> fresh + 1, name |-> name]
    <3>1. e \in Link
      BY DEF Link, Inv, TypeInv
    <3>2. hist' = [hist EXCEPT !.links = @ \cup {e}]
      BY <2>8 DEF LinkComes
    <3> HIDE DEF e
    <3> QED BY <3>1, <3>2
  <2> QED BY <2>1, <2>2, <2>3, <2>4, <2>5, <2>6, <2>7, <2>8 DEF Next, Thread, UseLists, Changes
<1>3. call' = call
  BY DEF Next, Thread, AskLinks, AskAddresses, Request, Receive, BuildList, LookUpLan, LookUpWan,
     LookupHit, LookupMiss, HeapAborts, Detect, KernelSends, Changes, AddressComes, AddressGoes,
     LinkComes, LinkGoes, vars, threadVars
<1> QED BY <1>1, <1>2, <1>3 DEF Histories

(* The last result changes with the steps that look something up.          *)
LEMMA FoundStays ==
  ASSUME [Next]_vars, ~ Begin, ~ Detect, ~ LookUpLan, ~ LookUpWan
  PROVE  found' = found
BY DEF Next, Thread, AskLinks, AskAddresses, Request, Receive, BuildList, HeapAborts,
   KernelSends, Changes, AddressComes, AddressGoes, LinkComes, LinkGoes, vars, threadVars

(* What an interface had once it has had ever since.                       *)
LEMMA HadStays ==
  ASSUME NEW name, NEW a, Had(name, a),
         hist.links \subseteq hist'.links, hist.addrs \subseteq hist'.addrs
  PROVE  Had(name, a)'
BY DEF Had

(* iface_ip6_get reports what an interface of the name has.                *)
LEMMA DetectFinds ==
  ASSUME Inv, Own6, Detect
  PROVE  DetectedIsOwn'
<1>1. CASE Result(Wan, "failed")
  <2>1. found'.addr = "failed"
    BY <1>1 DEF Result
  <2> QED BY <2>1 DEF DetectedIsOwn
<1>2. ASSUME NEW l \in DOMAIN linfo, NEW a \in DOMAIN ainfo,
             DetectsFrom(l, a), Result(Wan, PeerOf[ainfo[a].addr])
      PROVE  DetectedIsOwn'
  <2>1. linfo[l].name = Wan /\ Takes6(ainfo[a], linfo[l].index)
    BY <1>2 DEF DetectsFrom
  <2>2. linfo[l] \in hist.links /\ ainfo[a] \in hist.addrs /\ ainfo[a] \in Address
    <3>1. call # "none"
      BY DEF Detect
    <3> QED BY <3>1 DEF Inv, TypeInv, DumpsNotMixed, ToSet
  <2> DEFINE b == ainfo[a].addr
  <2>3. b \in Addresses /\ b \notin IPv4
    BY <2>1, <2>2 DEF Takes6, Address
  <2>4. PeerOf[b] = b /\ b \in Global6 \cup LinkLocal6
    BY <2>3 DEF Addresses, Own6
  <2>5. Had(Wan, b)
    BY <2>1, <2>2 DEF Had, Takes6, OfInterface
  <2>6. found'.name = Wan /\ found'.addr = b
    BY <1>2, <2>4 DEF Result
  <2> HIDE DEF b
  <2>7. PICK g \in Global6 \cup LinkLocal6 : g = b /\ Had(Wan, g)
    BY <2>4, <2>5
  <2>8. Had(Wan, g)'
    BY <2>7 DEF Detect, Had
  <2> QED BY <2>6, <2>7, <2>8 DEF DetectedIsOwn, Had
<1> QED BY <1>1, <1>2 DEF Detect

(* A detected address comes from the answers of this call.                 *)
LEMMA DetectedNext == Own6 /\ Inv /\ DetectedIsOwn /\ [Next]_vars => DetectedIsOwn'
<1> SUFFICES ASSUME Own6, Inv, DetectedIsOwn, [Next]_vars
             PROVE  DetectedIsOwn'
  OBVIOUS
<1>1. CASE Begin
  BY <1>1 DEF Begin, NoResult, DetectedIsOwn
<1>2. CASE Detect
  BY <1>2, DetectFinds
<1>3. CASE LookUpLan \/ LookUpWan
  <2>1. found'.of = call /\ pc \in {"lan_ip", "wan_ip"}
    BY <1>3 DEF LookUpLan, LookUpWan, LookupHit, LookupMiss, Result
  <2>2. found'.of = "if_list_get"
    BY <2>1 DEF Inv, PcIs
  <2> QED BY <2>2 DEF DetectedIsOwn
<1>4. CASE ~ Begin /\ ~ Detect /\ ~ LookUpLan /\ ~ LookUpWan
  <2>1. found' = found /\ hist.links \subseteq hist'.links /\ hist.addrs \subseteq hist'.addrs
    BY <1>4, FoundStays, HistoryGrows
  <2> QED BY <2>1 DEF DetectedIsOwn, Had
<1> QED BY <1>1, <1>2, <1>3, <1>4

(* What the WAN interface is detected to have (iface_ip6_get) is an IPv6   *)
(* address that it did have while the dumps went on, whatever changed in   *)
(* the kernel and however the dumps ended, unless the far end of a tunnel  *)
(* is announced in place of the near one.                                  *)
THEOREM DetectedIsAlwaysOwn ==
  ASSUME Own6 PROVE Spec => []DetectedIsOwn
<1>1. Init => DetectedIsOwn
  BY DEF Init, NoResult, DetectedIsOwn
<1>2. Inv /\ DetectedIsOwn /\ [Next]_vars => DetectedIsOwn'
  BY DetectedNext
<1> QED BY <1>1, <1>2, InvAlways, PTL DEF Spec

-----------------------------------------------------------------------------
(* if_list_get: each element has a link's name and that link's addresses.  *)
LEMMA BuildOwn ==
  ASSUME Inv, Own4, BuildList
  PROVE  IfacesOwn'
<1> SUFFICES ASSUME NEW i \in DOMAIN ifaces', ifaces'[i].ipaddr # <<>>
             PROVE  /\ ifaces'[i].ipaddr[1] \in IPv4
                    /\ \E l \in hist'.links, e \in hist'.addrs :
                          /\ l.name = ifaces'[i].name
                          /\ e.index = l.index /\ e.addr = ifaces'[i].ipaddr[1]
  BY DEF IfacesOwn, Had
<1> DEFINE index == linfo[i].index
<1>1. /\ i \in DOMAIN linfo /\ UNCHANGED hist /\ call # "none"
      /\ ifaces'[i].name = linfo[i].name /\ ifaces'[i].ipaddr = IPv4Of(index)
  BY DEF BuildList
<1>2. linfo[i] \in hist.links /\ ainfo \in Seq(Address)
  BY <1>1 DEF Inv, TypeInv, DumpsNotMixed, ToSet
<1>3. PICK k \in Owns(index) : IPv4Of(index)[1] = PeerOf[ainfo[k].addr]
  <2> HIDE DEF index
  <2> QED BY <1>1, <1>2, IPv4OfIs
<1>4. ainfo[k] \in hist.addrs /\ ainfo[k].index = index /\ ainfo[k].addr \in IPv4
  BY <1>1 DEF Owns, OfInterface, Inv, DumpsNotMixed, ToSet
<1>5. ifaces'[i].ipaddr[1] = ainfo[k].addr
  BY <1>1, <1>3, <1>4 DEF Own4
<1> QED BY <1>1, <1>2, <1>4, <1>5

(* iface_ip reports what an element of the name holds first.               *)
LEMMA LookUpFinds ==
  ASSUME Inv, IfacesOwn, NEW name,
         NEW from \in {"lan_ip", "wan_ip"}, NEW to,
         LookupHit(from, to, name) \/ LookupMiss(from, to, name)
  PROVE  DefaultIsOwn'
<1>1. CASE found'.addr = NoAddress
  BY <1>1 DEF DefaultIsOwn
<1>2. CASE found'.addr # NoAddress
  <2>1. PICK i \in DOMAIN ifaces :
          /\ ifaces[i].name = name /\ ifaces[i].ipaddr # <<>>
          /\ found'.name = name /\ found'.addr = ifaces[i].ipaddr[1]
    BY <1>2 DEF LookupHit, LookupMiss, Result, IsFirstNamed, IsNamed
  <2>2. pc \in {"lan_ip", "wan_ip"} /\ UNCHANGED hist
    BY DEF LookupHit, LookupMiss
  <2>3. found'.addr \in IPv4 /\ Had(found'.name, found'.addr)
    BY <2>1, <2>2 DEF IfacesOwn
  <2> QED BY <2>2, <2>3 DEF DefaultIsOwn, Had
<1> QED BY <1>1, <1>2

OwnInv == IfacesOwn /\ DefaultIsOwn

(* The list is built from the answers, and its addresses are the           *)
(* interfaces' own.                                                        *)
LEMMA OwnNext == Own4 /\ Inv /\ OwnInv /\ [Next]_vars => OwnInv'
<1> SUFFICES ASSUME Own4, Inv, OwnInv, [Next]_vars PROVE OwnInv'
  OBVIOUS
<1>1. CASE Begin
  BY <1>1 DEF Begin, NoResult, DefaultIsOwn, OwnInv, IfacesOwn
<1>2. CASE BuildList
  <2>1. DefaultIsOwn'
    BY <1>2 DEF BuildList, OwnInv, DefaultIsOwn, Had
  <2> QED BY <1>2, <2>1, BuildOwn DEF OwnInv
<1>3. CASE LookUpLan \/ LookUpWan
  <2>1. DefaultIsOwn'
    BY <1>3, LookUpFinds DEF LookUpLan, LookUpWan, OwnInv
  <2>2. UNCHANGED <<hist, ifaces>> /\ pc \in {"lan_ip", "wan_ip"}
    BY <1>3 DEF LookUpLan, LookUpWan, LookupHit, LookupMiss
  <2>3. IfacesOwn'
    BY <2>2 DEF OwnInv, IfacesOwn, Had
  <2> QED BY <2>1, <2>3 DEF OwnInv
<1>4. CASE Detect
  <2>1. found'.of = "iface_ip6_get" /\ pc' = "idle"
    BY <1>4 DEF Detect, Result
  <2> QED BY <2>1 DEF OwnInv, IfacesOwn, DefaultIsOwn
<1>5. CASE ~ Begin /\ ~ BuildList /\ ~ LookUpLan /\ ~ LookUpWan /\ ~ Detect
  <2>1. found' = found /\ hist.links \subseteq hist'.links /\ hist.addrs \subseteq hist'.addrs
    BY <1>5, FoundStays, HistoryGrows
  <2>2. DefaultIsOwn'
    BY <2>1 DEF OwnInv, DefaultIsOwn, Had
  <2>3. /\ UNCHANGED ifaces
        /\ pc' \in {"lan_ip", "wan_ip"} => pc \in {"lan_ip", "wan_ip"}
    BY <1>5 DEF Next, Thread, AskLinks, AskAddresses, Request, Receive, ReceiveError, DumpOver,
       HeapAborts, KernelSends, Changes, AddressComes, AddressGoes, LinkComes, LinkGoes, vars,
       threadVars
  <2>4. IfacesOwn'
    BY <2>1, <2>3 DEF OwnInv, IfacesOwn, Had
  <2> QED BY <2>2, <2>4 DEF OwnInv
<1> QED BY <1>1, <1>2, <1>3, <1>4, <1>5

(* The default for the LAN or the WAN address (iface_ip over the list that *)
(* if_list_get made) is an IPv4 address that an interface of this name had *)
(* while the dumps went on, unless IFA_ADDRESS is the far end's.           *)
THEOREM DefaultIsAlwaysOwn ==
  ASSUME Own4 PROVE Spec => []DefaultIsOwn
<1>1. Init => OwnInv
  BY DEF Init, NoResult, DefaultIsOwn, OwnInv, IfacesOwn
<1>2. Inv /\ OwnInv /\ [Next]_vars => OwnInv'
  BY OwnNext
<1>3. OwnInv => DefaultIsOwn
  BY DEF OwnInv
<1> QED BY <1>1, <1>2, <1>3, InvAlways, PTL DEF Spec

-----------------------------------------------------------------------------
(* What is on its way stays so, as messages are read and sent and a table  *)
(* grows.                                                                  *)
LEMMA MessageIs ==
  ASSUME NEW s, NEW t, NEW e, NEW m \in Messages
  PROVE  /\ Entry(s, e) # DoneMsg(t)
         /\ m.seq \in Nat
         /\ m.type = "done" <=> m = DoneMsg(m.seq)
         /\ m.type = "entry" => m = Entry(m.seq, m.body)
         /\ m = Entry(s, e) => m.type = "entry" /\ m.seq = s /\ m.body = e
         /\ m = DoneMsg(s) => m.type = "done" /\ m.seq = s
BY DEF Messages, Entry, DoneMsg

(* Reading a message keeps everything on its way, if what it holds is      *)
(* stored.                                                                 *)
LEMMA WayRead ==
  ASSUME NEW q \in Seq(Messages), q # <<>>, NEW d, NEW s, NEW table, NEW stored, NEW start,
         OnItsWay(q, d, s, table, stored, start),
         NEW more, stored \subseteq more, \A e : Head(q) = Entry(s, e) => e \in more
  PROVE  OnItsWay(Tail(q), d, s, table, more, start)
<1>1. /\ Len(q) \in Nat /\ Len(Tail(q)) = Len(q) - 1 /\ Head(q) = q[1]
      /\ \A i \in DOMAIN Tail(q) : i \in Int /\ i + 1 \in DOMAIN q /\ Tail(q)[i] = q[i + 1]
  BY TailFacts
<1>2. ASSUME NEW e, NEW k \in Int, Arrives(q, s, e, stored, k + 1)
      PROVE  Arrives(Tail(q), s, e, more, k)
  <2>1. CASE e \in stored
    BY <2>1 DEF Arrives
  <2>2. ASSUME NEW j \in DOMAIN q, j < k + 1, q[j] = Entry(s, e)
        PROVE  Arrives(Tail(q), s, e, more, k)
    <3>1. CASE j = 1
      BY <1>1, <2>2, <3>1 DEF Arrives
    <3>2. CASE j # 1
      <4>1. j - 1 \in DOMAIN Tail(q) /\ j - 1 < k /\ (j - 1) + 1 = j
        BY <1>1, <2>2, <3>2
      <4>2. Tail(q)[j - 1] = Entry(s, e)
        BY <1>1, <2>2, <4>1
      <4> QED BY <4>1, <4>2 DEF Arrives
    <3> QED BY <3>1, <3>2
  <2> QED BY <1>2, <2>1, <2>2 DEF Arrives
<1>3. ASSUME d # NoDump, d.seq = s, NEW i \in DOMAIN table, i < d.next
      PROVE  Arrives(Tail(q), s, table[i], more, Len(Tail(q)) + 1)
  <2>1. Arrives(q, s, table[i], stored, Len(q) + 1)
    BY <1>3 DEF OnItsWay
  <2>2. Len(q) \in Int /\ Len(q) = Len(Tail(q)) + 1
    BY <1>1
  <2> QED BY <1>2, <2>1, <2>2
<1>4. ASSUME NEW k \in DOMAIN Tail(q), Tail(q)[k] = DoneMsg(s), NEW e \in start
      PROVE  Arrives(Tail(q), s, e, more, k)
  <2>1. Arrives(q, s, e, stored, k + 1)
    BY <1>1, <1>4 DEF OnItsWay
  <2> QED BY <1>1, <1>2, <2>1
<1> QED BY <1>3, <1>4 DEF OnItsWay

(* Where the message that ends the dump is first, everything has been      *)
(* stored.                                                                 *)
LEMMA WayEnds ==
  ASSUME NEW q \in Seq(Messages), q # <<>>, NEW d, NEW s, NEW table, NEW stored, NEW start,
         OnItsWay(q, d, s, table, stored, start), Head(q) = DoneMsg(s)
  PROVE  start \subseteq stored
<1>1. 1 \in DOMAIN q /\ q[1] = DoneMsg(s) /\ ~ \E j \in DOMAIN q : j < 1
  BY TailFacts
<1> QED BY <1>1 DEF OnItsWay, Arrives

(* The kernel sends an entry and moves on: what was behind its position is *)
(* in the queue now.                                                       *)
LEMMA WaySent ==
  ASSUME NEW q \in Seq(Messages), NEW m \in Messages, NEW d, NEW d2,
         NEW s, NEW table, NEW stored, NEW start,
         OnItsWay(q, d, s, table, stored, start),
         d2 # NoDump /\ d2.seq = s =>
            /\ d # NoDump /\ d.seq = s
            /\ \A i \in DOMAIN table : i < d2.next => i < d.next \/ m = Entry(s, table[i]),
         m = DoneMsg(s) =>
            \A e \in start : \E i \in DOMAIN table : table[i] = e /\ d # NoDump /\ d.seq = s /\ i < d.next
  PROVE  OnItsWay(Append(q, m), d2, s, table, stored, start)
<1> DEFINE p == Append(q, m)
<1>1. /\ Len(q) \in Nat /\ Len(p) = Len(q) + 1 /\ p[Len(q) + 1] = m
      /\ Len(q) + 1 \in DOMAIN p
      /\ \A j \in DOMAIN q : j \in DOMAIN p /\ p[j] = q[j] /\ j < Len(q) + 1 /\ j \in Int
      /\ \A j \in DOMAIN p : \/ j \in DOMAIN q /\ p[j] = q[j]
                             \/ j = Len(q) + 1 /\ p[j] = m
  OBVIOUS
<1> HIDE DEF p
<1>2. ASSUME NEW e, NEW k, NEW n, Arrives(q, s, e, stored, k), \A j \in DOMAIN q : j < k => j < n
      PROVE  Arrives(p, s, e, stored, n)
  BY <1>1, <1>2 DEF Arrives
<1>3. ASSUME d2 # NoDump, d2.seq = s, NEW i \in DOMAIN table, i < d2.next
      PROVE  Arrives(p, s, table[i], stored, Len(p) + 1)
  <2>1. CASE i < d.next
    <3>1. Arrives(q, s, table[i], stored, Len(q) + 1)
      BY <1>3, <2>1 DEF OnItsWay
    <3>2. \A j \in DOMAIN q : j < Len(p) + 1
      BY <1>1
    <3> QED BY <1>2, <3>1, <3>2
  <2>2. CASE m = Entry(s, table[i])
    <3>1. Len(q) + 1 < Len(p) + 1
      BY <1>1
    <3> QED BY <1>1, <2>2, <3>1 DEF Arrives
  <2> QED BY <1>3, <2>1, <2>2
<1>4. ASSUME NEW k \in DOMAIN p, p[k] = DoneMsg(s), NEW e \in start
      PROVE  Arrives(p, s, e, stored, k)
  <2>1. CASE k \in DOMAIN q /\ p[k] = q[k]
    <3>1. Arrives(q, s, e, stored, k)
      BY <1>4, <2>1 DEF OnItsWay
    <3> QED BY <1>2, <3>1
  <2>2. CASE k = Len(q) + 1 /\ p[k] = m
    <3>1. PICK i \in DOMAIN table : table[i] = e /\ d # NoDump /\ d.seq = s /\ i < d.next
      BY <1>4, <2>2
    <3>2. Arrives(q, s, e, stored, Len(q) + 1)
      BY <3>1 DEF OnItsWay
    <3> QED BY <1>2, <2>2, <3>2
  <2> QED BY <1>1, <2>1, <2>2
<1> QED BY <1>3, <1>4 DEF OnItsWay, p

(* An entry that is added to the table during a dump comes behind the      *)
(* others.                                                                 *)
LEMMA WayGrows ==
  ASSUME NEW q, NEW d, NEW s, NEW table \in Seq(Link \cup Address), NEW e \in Link \cup Address,
         NEW stored, NEW start, OnItsWay(q, d, s, table, stored, start),
         d # NoDump /\ d.seq = s => d.next \in Int /\ d.next <= Len(table) + 1
  PROVE  OnItsWay(q, d, s, Append(table, e), stored, start)
<1>1. /\ Len(table) \in Nat
      /\ \A i \in DOMAIN Append(table, e) : \/ i \in DOMAIN table /\ Append(table, e)[i] = table[i]
                                            \/ i = Len(table) + 1
  OBVIOUS
<1> QED BY <1>1 DEF OnItsWay

-----------------------------------------------------------------------------
(* Each step keeps what is known of the tables,                            *)
TablesIs == NowNamed /\ SinceStart

(* Removing an interface leaves the names of the others distinct.          *)
LEMMA RemoveDistinct ==
  ASSUME NEW table \in Seq(Link), NEW i \in DOMAIN table,
         \A j, k \in DOMAIN table : table[j].name = table[k].name => j = k
  PROVE  \A j, k \in DOMAIN RemoveAt(table, i) :
            RemoveAt(table, i)[j].name = RemoveAt(table, i)[k].name => j = k
<1> DEFINE rest == RemoveAt(table, i)
           at(k) == IF k < i THEN k ELSE k + 1
<1>1. /\ Len(table) \in Nat /\ i \in 1 .. Len(table) /\ Len(rest) = Len(table) - 1
      /\ rest \in Seq(Link) /\ \A k \in DOMAIN rest : rest[k] = table[at(k)]
  BY RemoveAtFacts
<1> HIDE DEF rest
<1>2. \A k \in DOMAIN rest : k \in 1 .. Len(table) - 1 /\ at(k) \in DOMAIN table
  BY <1>1
<1> SUFFICES ASSUME NEW j \in DOMAIN rest, NEW k \in DOMAIN rest, rest[j].name = rest[k].name
             PROVE  j = k
  BY DEF rest
<1>3. at(j) = at(k)
  BY <1>1, <1>2
<1> QED BY <1>1, <1>2, <1>3

(* Links and addresses stay what they are, with names that differ.         *)
LEMMA TablesNext == Inv /\ TablesIs /\ [Next]_vars => TablesIs'
<1> SUFFICES ASSUME Inv, TablesIs, [Next]_vars PROVE TablesIs'
  OBVIOUS
<1>1. CASE Begin
  BY <1>1 DEF Begin, kernelVars, TablesIs, NowNamed, SinceStart, Since
<1>2. links \in Seq(Link) /\ addrs \in Seq(Address) /\ hist \in Histories /\ fresh \in Nat
  BY DEF Inv, TypeInv
<1>3. ASSUME NEW index \in 1 .. MaxIndex, NEW a \in Addresses, AddressComes(index, a)
      PROVE  TablesIs'
  <2> DEFINE e == [kind |-> "addr", index |-> index, addr |-> a]
  <2>1. e \in Address
    BY DEF Address
  <2>2. addrs' = Append(addrs, e) /\ hist' = [hist EXCEPT !.addrs = @ \cup {e}]
        /\ UNCHANGED <<links, call>>
    BY <1>3 DEF AddressComes, threadVars
  <2> HIDE DEF e
  <2>3. ToSet(addrs') = ToSet(addrs) \cup {e}
    BY <1>2, <2>1, <2>2, AppendSet
  <2>4. /\ hist'.links = hist.links /\ hist'.addrs = hist.addrs \cup {e}
        /\ hist'.removed = hist.removed
        /\ hist'.startLinks = hist.startLinks /\ hist'.startAddrs = hist.startAddrs
    BY <1>2, <2>2 DEF Histories
  <2> QED BY <2>2, <2>3, <2>4 DEF TablesIs, NowNamed, SinceStart
<1>4. ASSUME NEW name \in Names, LinkComes(name)
      PROVE  TablesIs'
  <2> DEFINE e == [kind |-> "link", index |-> fresh + 1, name |-> name]
  <2>1. e \in Link /\ e.name = name
    BY <1>2 DEF Link
  <2>2. links' = Append(links, e) /\ hist' = [hist EXCEPT !.links = @ \cup {e}]
        /\ UNCHANGED <<addrs, call>> /\ \A i \in DOMAIN links : links[i].name # name
    BY <1>4 DEF LinkComes, threadVars
  <2> HIDE DEF e
  <2>3. ToSet(links') = ToSet(links) \cup {e}
    BY <1>2, <2>1, <2>2, AppendSet
  <2>4. /\ hist'.links = hist.links \cup {e} /\ hist'.addrs = hist.addrs
        /\ hist'.removed = hist.removed
        /\ hist'.startLinks = hist.startLinks /\ hist'.startAddrs = hist.startAddrs
    BY <1>2, <2>2 DEF Histories
  <2>5. \A i \in DOMAIN links' : \/ i \in DOMAIN links /\ links'[i] = links[i]
                                 \/ i = Len(links) + 1 /\ links'[i] = e
    BY <1>2, <2>1, <2>2, AppendFacts
  <2>6. NowNamed'
    BY <2>1, <2>2, <2>5 DEF TablesIs, NowNamed
  <2> QED BY <2>2, <2>3, <2>4, <2>6 DEF TablesIs, SinceStart
<1>5. ASSUME NEW i \in DOMAIN links, LinkGoes(i) PROVE TablesIs'
  <2>1. links' = RemoveAt(links, i) /\ UNCHANGED call /\ hist' = [hist EXCEPT !.removed = TRUE]
    BY <1>5 DEF LinkGoes, threadVars
  <2>2. NowNamed'
    BY <1>2, <2>1, RemoveDistinct DEF TablesIs, NowNamed
  <2> QED BY <1>2, <2>1, <2>2 DEF TablesIs, SinceStart, Histories
<1>6. ASSUME NEW i \in DOMAIN addrs, AddressGoes(i) PROVE TablesIs'
  <2>1. UNCHANGED <<links, call>> /\ hist' = [hist EXCEPT !.removed = TRUE]
    BY <1>6 DEF AddressGoes, threadVars
  <2> QED BY <1>2, <2>1 DEF TablesIs, NowNamed, SinceStart, Histories
<1>7. CASE ~ Begin /\ ~ Changes
  <2>1. UNCHANGED <<links, addrs, call>>
    BY <1>7 DEF Next, Thread, AskLinks, AskAddresses, Request, Receive, BuildList, LookUpLan,
       LookUpWan, LookupHit, LookupMiss, HeapAborts, Detect, KernelSends, vars, kernelVars,
       threadVars
  <2>2. /\ hist'.links = hist.links /\ hist'.addrs = hist.addrs
        /\ hist'.removed = hist.removed
        /\ hist'.startLinks = hist.startLinks /\ hist'.startAddrs = hist.startAddrs
    <3>1. \/ UNCHANGED hist
          \/ hist' = [hist EXCEPT !.lost = TRUE]
          \/ \E cut \in BOOLEAN : hist' = [hist EXCEPT !.cut = @ \/ cut]
      BY <1>7 DEF Next, Thread, AskLinks, AskAddresses, Request, Receive, ReceiveError, DumpOver,
         BuildList, LookUpLan, LookUpWan, LookupHit, LookupMiss, HeapAborts, Detect, KernelSends,
         vars
    <3> QED BY <1>2, <3>1 DEF Histories
  <2> QED BY <2>1, <2>2 DEF TablesIs, NowNamed, SinceStart
<1> QED BY <1>1, <1>3, <1>4, <1>5, <1>6, <1>7 DEF Changes

(* of what waits at the socket,                                            *)
LEMMA NotAheadNext == Inv /\ NotAhead /\ [Next]_vars => NotAhead'
<1> SUFFICES ASSUME Inv, NotAhead, [Next]_vars PROVE NotAhead'
  OBVIOUS
<1>1. CASE Begin
  BY <1>1, EmptySet DEF Begin, NotAhead
<1>2. rx \in Seq(Messages) /\ seq \in Nat /\ (dump = NoDump \/ dump \in Dumps)
      /\ \A m \in ToSet(rx) : m \in Messages /\ m.seq \in Nat
  <2>1. rx \in Seq(Messages) /\ seq \in Nat /\ (dump = NoDump \/ dump \in Dumps)
    BY DEF Inv, TypeInv
  <2>2. \A m \in ToSet(rx) : m \in Messages
    BY <2>1 DEF ToSet
  <2> QED BY <2>1, <2>2, MessageIs
<1>3. CASE AskLinks \/ AskAddresses
  <2> DEFINE err == ErrorMsg(seq + 1)
  <2>1. /\ seq' = seq + 1
        /\ (UNCHANGED rx \/ rx' = Append(rx, err))
        /\ (UNCHANGED dump \/ dump' = [seq |-> seq + 1, table |-> dump'.table, next |-> 1])
    BY <1>3 DEF AskLinks, AskAddresses, Request, KernelTakes
  <2>2. err \in Messages /\ err.seq = seq + 1
    BY <1>2 DEF ErrorMsg, Messages
  <2> HIDE DEF err
  <2>3. ToSet(rx') = ToSet(rx) \/ ToSet(rx') = ToSet(rx) \cup {err}
    <3>1. ToSet(Append(rx, err)) = ToSet(rx) \cup {err}
      BY <1>2, <2>2, AppendSet
    <3>2. CASE UNCHANGED rx
      BY <3>2
    <3>3. CASE rx' = Append(rx, err)
      BY <3>1, <3>3
    <3> QED BY <2>1, <3>2, <3>3
  <2>4. ASSUME NEW m \in ToSet(rx) PROVE m.seq <= seq + 1
    <3>1. m.seq \in Nat /\ m.seq <= seq /\ seq \in Nat
      BY <1>2 DEF NotAhead
    <3> QED BY <3>1
  <2>5. dump' # NoDump => dump'.seq <= seq + 1
    <3>1. CASE UNCHANGED dump
      BY <1>2, <3>1 DEF NotAhead, Dumps
    <3>2. CASE dump' = [seq |-> seq + 1, table |-> dump'.table, next |-> 1]
      <4>1. dump'.seq = seq + 1
        BY <3>2
      <4> QED BY <1>2, <4>1
    <3> QED BY <2>1, <3>1, <3>2
  <2>6. \A m \in ToSet(rx') : m.seq <= seq + 1
    <3>1. err.seq <= seq + 1
      BY <1>2, <2>2
    <3> QED BY <2>3, <2>4, <3>1
  <2> QED BY <2>1, <2>5, <2>6 DEF NotAhead
<1>4. CASE Receive
  <2>1. ToSet(rx') \subseteq ToSet(rx) /\ UNCHANGED <<seq, dump>>
    BY <1>2, <1>4, TailSet DEF Receive
  <2> QED BY <2>1 DEF NotAhead
<1>5. CASE KernelSends
  <2>1. /\ dump # NoDump /\ UNCHANGED seq
        /\ \/ dump' = NoDump
           \/ dump' = [dump EXCEPT !.next = @ + 1]
        /\ \E m : m.seq = dump.seq /\ rx' = Append(rx, m) /\ m \in Messages
    <3>1. Entry(dump.seq, Table[dump.next]).seq = dump.seq /\ DoneMsg(dump.seq).seq = dump.seq
      BY DEF Entry, DoneMsg
    <3>2. rx' \in Seq(Messages)
      BY <1>5, KernelKeeps DEF Inv, TypeInv
    <3>3. \A m : rx' = Append(rx, m) => m \in Messages
      <4> SUFFICES ASSUME NEW m, rx' = Append(rx, m) PROVE m \in Messages
        OBVIOUS
      <4>1. Len(rx) + 1 \in DOMAIN rx' /\ rx'[Len(rx) + 1] = m
        BY <1>2
      <4> QED BY <3>2, <4>1
    <3> QED BY <1>5, <3>1, <3>3 DEF KernelSends, threadVars
  <2>2. PICK m : m.seq = dump.seq /\ rx' = Append(rx, m) /\ m \in Messages
    BY <2>1
  <2>3. ToSet(rx') = ToSet(rx) \cup {m}
    BY <1>2, <2>2, AppendSet
  <2>4. dump' # NoDump => dump'.seq = dump.seq
    BY <1>2, <2>1 DEF Dumps
  <2> QED BY <2>1, <2>2, <2>3, <2>4 DEF NotAhead
<1>6. CASE ~ Begin /\ ~ AskLinks /\ ~ AskAddresses /\ ~ Receive /\ ~ KernelSends
  BY <1>6 DEF Next, Thread, BuildList, LookUpLan, LookUpWan, LookupHit, LookupMiss, HeapAborts,
     Detect, Changes, AddressComes, AddressGoes, LinkComes, LinkGoes, vars, threadVars, NotAhead
<1> QED BY <1>1, <1>3, <1>4, <1>5, <1>6

(* of the tables while nothing is removed,                                 *)
LEMMA ChangesGrow ==
  ASSUME Inv, Changes, ~ hist'.removed
  PROVE  /\ UNCHANGED <<threadVars, rx, dump>> /\ ~ hist.removed
         /\ \/ UNCHANGED addrs /\ \E e \in Link : links' = Append(links, e)
            \/ UNCHANGED links /\ \E e \in Address : addrs' = Append(addrs, e)
<1>1. hist \in Histories /\ fresh \in Nat
  BY DEF Inv, TypeInv
<1>2. ASSUME hist' = [hist EXCEPT !.removed = TRUE] PROVE FALSE
  BY <1>1, <1>2 DEF Histories
<1>3. UNCHANGED <<threadVars, rx, dump>>
  BY DEF Changes, AddressComes, AddressGoes, LinkComes, LinkGoes
<1>4. ASSUME NEW index \in 1 .. MaxIndex, NEW a \in Addresses, AddressComes(index, a)
      PROVE  /\ ~ hist.removed /\ UNCHANGED links
             /\ \E e \in Address : addrs' = Append(addrs, e)
  <2> DEFINE e == [kind |-> "addr", index |-> index, addr |-> a]
  <2>1. e \in Address
    BY DEF Address
  <2>2. addrs' = Append(addrs, e) /\ hist' = [hist EXCEPT !.addrs = @ \cup {e}] /\ UNCHANGED links
    BY <1>4 DEF AddressComes
  <2> HIDE DEF e
  <2> QED BY <1>1, <2>1, <2>2 DEF Histories
<1>5. ASSUME NEW name \in Names, LinkComes(name)
      PROVE  /\ ~ hist.removed /\ UNCHANGED addrs
             /\ \E e \in Link : links' = Append(links, e)
  <2> DEFINE e == [kind |-> "link", index |-> fresh + 1, name |-> name]
  <2>1. e \in Link
    BY <1>1 DEF Link
  <2>2. links' = Append(links, e) /\ hist' = [hist EXCEPT !.links = @ \cup {e}] /\ UNCHANGED addrs
    BY <1>5 DEF LinkComes
  <2> HIDE DEF e
  <2> QED BY <1>1, <2>1, <2>2 DEF Histories
<1> QED BY <1>2, <1>3, <1>4, <1>5 DEF Changes, AddressGoes, LinkGoes

(* The kernel's position never passes an entry that it has not sent.       *)
LEMMA InReachNext == Inv /\ InReach /\ [Next]_vars => InReach'
<1> SUFFICES ASSUME Inv, InReach, [Next]_vars PROVE InReach'
  OBVIOUS
<1>1. CASE Begin
  BY <1>1 DEF Begin, InReach
<1>2. links \in Seq(Link) /\ addrs \in Seq(Address) /\ (dump = NoDump \/ dump \in Dumps)
      /\ Len(links) \in Nat /\ Len(addrs) \in Nat /\ Len(Table) \in Nat
  BY DEF Inv, TypeInv, Table
<1>3. CASE AskLinks \/ AskAddresses
  <2>1. /\ UNCHANGED <<links, addrs>>
        /\ (hist' = hist \/ hist' = [hist EXCEPT !.lost = TRUE])
        /\ (UNCHANGED dump \/ dump' = [seq |-> seq + 1, table |-> dump'.table, next |-> 1])
    BY <1>3 DEF AskLinks, AskAddresses, Request, KernelTakes, kernelVars
  <2>2. hist'.removed = hist.removed
    BY <2>1 DEF Inv, TypeInv, Histories
  <2>3. CASE UNCHANGED dump
    BY <2>1, <2>2, <2>3 DEF InReach, Table
  <2>4. CASE dump' = [seq |-> seq + 1, table |-> dump'.table, next |-> 1]
    <3>1. dump'.next = 1 /\ Len(Table)' \in Nat
      BY <1>2, <2>1, <2>4 DEF Table
    <3>2. dump'.next <= Len(Table)' + 1
      BY <3>1
    <3> QED BY <3>2 DEF InReach
  <2> QED BY <2>1, <2>3, <2>4
<1>4. CASE KernelSends
  <2>1. UNCHANGED <<links, addrs, hist>> /\ dump \in Dumps
        /\ (dump' = NoDump \/ (dump.next \in DOMAIN Table /\ dump' = [dump EXCEPT !.next = @ + 1]))
    BY <1>2, <1>4 DEF KernelSends, kernelVars
  <2>2. CASE dump' = NoDump
    BY <2>2 DEF InReach
  <2>3. CASE dump.next \in DOMAIN Table /\ dump' = [dump EXCEPT !.next = @ + 1]
    <3>1. dump.next \in 1 .. Len(Table)
      BY <1>2, <2>3 DEF Table
    <3>2. dump'.next = dump.next + 1 /\ dump'.table = dump.table
      BY <2>1, <2>3 DEF Dumps
    <3>3. Len(Table)' = Len(Table)
      BY <2>1, <3>2 DEF Table
    <3>4. dump'.next <= Len(Table)' + 1
      BY <1>2, <3>1, <3>2, <3>3
    <3> QED BY <3>4 DEF InReach
  <2> QED BY <2>1, <2>2, <2>3
<1>5. CASE Changes
  <2> SUFFICES ASSUME ~ hist'.removed, dump' # NoDump PROVE dump'.next <= Len(Table)' + 1
    BY DEF InReach
  <2>1. dump' = dump /\ ~ hist.removed
        /\ \/ UNCHANGED addrs /\ \E e \in Link : links' = Append(links, e)
           \/ UNCHANGED links /\ \E e \in Address : addrs' = Append(addrs, e)
    BY <1>5, ChangesGrow
  <2>2. Len(links)' \in Nat /\ Len(links)' >= Len(links)
        /\ Len(addrs)' \in Nat /\ Len(addrs)' >= Len(addrs)
    BY <1>2, <2>1
  <2>3. Len(Table)' \in Nat /\ Len(Table)' >= Len(Table)
    BY <2>1, <2>2 DEF Table
  <2>4. dump.next <= Len(Table) + 1 /\ dump'.next = dump.next /\ dump.next \in Nat
    BY <1>2, <2>1 DEF InReach, Dumps
  <2> QED BY <1>2, <2>3, <2>4
<1>6. CASE ~ Begin /\ ~ AskLinks /\ ~ AskAddresses /\ ~ KernelSends /\ ~ Changes
  <2>1. UNCHANGED <<links, addrs, dump>>
    BY <1>6 DEF Next, Thread, Receive, BuildList, LookUpLan, LookUpWan, LookupHit, LookupMiss,
       HeapAborts, Detect, vars, kernelVars
  <2>2. hist'.removed \/ hist'.removed = hist.removed
    <3>1. \/ UNCHANGED hist
          \/ \E cut \in BOOLEAN : hist' = [hist EXCEPT !.cut = @ \/ cut]
      BY <1>6 DEF Next, Thread, Receive, ReceiveError, DumpOver, BuildList, LookUpLan, LookUpWan,
         LookupHit, LookupMiss, HeapAborts, Detect, vars
    <3> QED BY <3>1 DEF Inv, TypeInv, Histories
  <2> QED BY <2>1, <2>2 DEF InReach, Table
<1> QED BY <1>1, <1>3, <1>4, <1>5, <1>6

(* and of the entries of the tables, which arrive.  A request begins with  *)
(* no end of its dump at the socket;                                       *)
LEMMA WayBegins ==
  ASSUME NEW q, NEW d, NEW s, NEW table \in Seq(Link \cup Address), NEW stored, NEW start,
         \A k \in DOMAIN q : q[k] # DoneMsg(s),
         d # NoDump /\ d.seq = s => d.next = 1
  PROVE  OnItsWay(q, d, s, table, stored, start)
<1>1. \A i \in DOMAIN table : ~ i < 1
  OBVIOUS
<1> QED BY <1>1 DEF OnItsWay

(* A request begins a dump at the start of the table: everything is on its *)
(* way.                                                                    *)
LEMMA AsksOnWay ==
  ASSUME Inv, NotAhead, AskLinks \/ AskAddresses,
         NEW table \in Seq(Link \cup Address), NEW stored, NEW start
  PROVE  OnItsWay(rx', dump', seq', table, stored, start)
<1> DEFINE err == ErrorMsg(seq + 1)
<1>1. /\ seq' = seq + 1
      /\ (UNCHANGED rx \/ rx' = Append(rx, err))
      /\ (UNCHANGED dump \/ dump' = [seq |-> seq + 1, table |-> dump'.table, next |-> 1])
  BY DEF AskLinks, AskAddresses, Request, KernelTakes
<1>2. rx \in Seq(Messages) /\ seq \in Nat /\ (dump = NoDump \/ dump \in Dumps)
  BY DEF Inv, TypeInv
<1>3. err \in Messages /\ err.type = "error"
  BY <1>2 DEF ErrorMsg, Messages
<1> HIDE DEF err
<1>4. ASSUME NEW k \in DOMAIN rx PROVE rx[k] # DoneMsg(seq + 1)
  <2>1. rx[k] \in Messages /\ rx[k].seq <= seq
    BY <1>2 DEF NotAhead, ToSet
  <2>2. rx[k].seq # seq + 1
    BY <1>2, <2>1, MessageIs
  <2> QED BY <2>1, <2>2, MessageIs
<1>5. err # DoneMsg(seq + 1)
  BY <1>3 DEF DoneMsg
<1>6. \A k \in DOMAIN rx' : rx'[k] # DoneMsg(seq + 1)
  <2>1. CASE UNCHANGED rx
    BY <1>4, <2>1
  <2>2. CASE rx' = Append(rx, err)
    <3>1. \A k \in DOMAIN rx' : (k \in DOMAIN rx /\ rx'[k] = rx[k]) \/ rx'[k] = err
      BY <1>2, <1>3, <2>2, AppendFacts
    <3> QED BY <1>4, <1>5, <3>1
  <2> QED BY <1>1, <2>1, <2>2
<1>7. dump' # NoDump /\ dump'.seq = seq + 1 => dump'.next = 1
  <2>1. CASE UNCHANGED dump
    <3>1. dump # NoDump => dump.seq \in Nat /\ dump.seq <= seq
      BY <1>2 DEF NotAhead, Dumps
    <3> QED BY <1>2, <2>1, <3>1
  <2>2. CASE dump' = [seq |-> seq + 1, table |-> dump'.table, next |-> 1]
    BY <2>2
  <2> QED BY <1>1, <2>1, <2>2
<1> QED BY <1>1, <1>6, <1>7, WayBegins

(* the kernel sends an entry as it passes it, and the end after the last;  *)
LEMMA SendsOnWay ==
  ASSUME Inv, KernelSends, NEW s \in {1, 2}, NEW table \in Seq(Link \cup Address),
         table = IF s = 1 THEN links ELSE addrs,
         NEW stored, NEW start, start \subseteq ToSet(table),
         OnItsWay(rx, dump, s, table, stored, start)
  PROVE  OnItsWay(rx', dump', s, table, stored, start)
<1>1. rx \in Seq(Messages) /\ dump \in Dumps /\ dump # NoDump
  BY DEF KernelSends, Inv, TypeInv
<1>2. dump.seq \in Nat /\ dump.next \in Nat \ {0}
  BY <1>1 DEF Dumps
<1>3. dump.seq = s => Table = table
  BY <1>1 DEF Inv, DumpIs, Table
<1>4. rx' \in Seq(Messages)
  BY KernelKeeps DEF Inv, TypeInv
<1>5. ASSUME NEW m, rx' = Append(rx, m) PROVE m \in Messages
  <2>1. Len(rx) + 1 \in DOMAIN rx' /\ rx'[Len(rx) + 1] = m
    BY <1>1, <1>5
  <2> QED BY <1>4, <2>1
<1>6. CASE dump.next \in DOMAIN Table
  <2> DEFINE m == Entry(dump.seq, Table[dump.next])
  <2>1. rx' = Append(rx, m) /\ dump' = [dump EXCEPT !.next = @ + 1]
    BY <1>6 DEF KernelSends
  <2>2. dump'.seq = dump.seq /\ dump'.next = dump.next + 1
    BY <1>1, <2>1 DEF Dumps
  <2>3. m \in Messages /\ m # DoneMsg(s)
    <3>1. m \in Messages
      BY <1>5, <2>1
    <3>2. m # DoneMsg(s)
      BY DEF Entry, DoneMsg
    <3> QED BY <3>1, <3>2
  <2>4. dump.seq = s => m = Entry(s, table[dump.next])
    BY <1>3
  <2> HIDE DEF m
  <2>5. dump.seq = s =>
          \A i \in DOMAIN table : i < dump'.next => i < dump.next \/ m = Entry(s, table[i])
    <3>1. \A i \in DOMAIN table : i \in Int
      OBVIOUS
    <3>2. ASSUME NEW i \in DOMAIN table, i < dump'.next PROVE i < dump.next \/ i = dump.next
      BY <1>2, <2>2, <3>1, <3>2
    <3> QED BY <2>4, <3>2
  <2>6. /\ dump' # NoDump /\ dump'.seq = s =>
             /\ dump # NoDump /\ dump.seq = s
             /\ \A i \in DOMAIN table : i < dump'.next => i < dump.next \/ m = Entry(s, table[i])
        /\ m = DoneMsg(s) =>
             \A e \in start : \E i \in DOMAIN table :
                table[i] = e /\ dump # NoDump /\ dump.seq = s /\ i < dump.next
    BY <1>1, <2>2, <2>3, <2>5
  <2> QED BY <1>1, <2>1, <2>3, <2>6, WaySent
<1>7. CASE dump.next \notin DOMAIN Table
  <2> DEFINE m == DoneMsg(dump.seq)
  <2>1. rx' = Append(rx, m) /\ dump' = NoDump
    BY <1>7 DEF KernelSends
  <2>2. m \in Messages
    BY <1>5, <2>1
  <2>3. m = DoneMsg(s) => dump.seq = s
    BY DEF DoneMsg
  <2> HIDE DEF m
  <2>4. ASSUME dump.seq = s, NEW e \in start
        PROVE  \E i \in DOMAIN table : table[i] = e /\ i < dump.next
    <3>1. PICK i \in DOMAIN table : table[i] = e
      BY DEF ToSet
    <3>2. dump.next \notin DOMAIN table
      BY <1>3, <1>7, <2>4
    <3>3. i < dump.next
      BY <1>2, <3>2
    <3> QED BY <3>1, <3>3
  <2> QED BY <1>1, <2>1, <2>2, <2>3, <2>4, WaySent
<1> QED BY <1>6, <1>7

(* rtnl_dump_filter takes what it reads into its list;                     *)
LEMMA ReadsOnWay ==
  ASSUME Inv, Receive, fd = "named", ~ hist'.cut,
         NEW table, NEW stored, NEW start, NEW more,
         OnItsWay(rx, dump, seq, table, stored, start),
         stored \subseteq more,
         Mine(Head(rx)) /\ Head(rx).type = "entry" /\ Store(Head(rx).body) =>
            Head(rx).body \in more
  PROVE  \/ pc' = pc /\ OnItsWay(rx', dump', seq', table, more, start)
         \/ start \subseteq stored /\ UNCHANGED <<linfo, ainfo>>
            /\ pc' = IF pc = "links" THEN "ask_addrs" ELSE "build"
<1> DEFINE m == Head(rx)
<1>1. rx # <<>> /\ rx' = Tail(rx) /\ UNCHANGED <<seq, dump>> /\ rx \in Seq(Messages)
      /\ hist \in Histories
  BY DEF Receive, Inv, TypeInv
<1>2. m \in Messages
  BY <1>1, TailFacts
<1>3. /\ \/ ~ Mine(m) /\ UNCHANGED <<pc, linfo, ainfo>>
         \/ Mine(m) /\ m.type = "done" /\ DumpOver(FALSE) /\ UNCHANGED <<linfo, ainfo>>
         \/ DumpOver(TRUE)
         \/ Mine(m) /\ m.type = "entry" /\ Store(m.body) /\ UNCHANGED pc
  BY DEF Receive, ReceiveError
<1> HIDE DEF m
<1>4. CASE DumpOver(TRUE)
  BY <1>1, <1>4 DEF DumpOver, Histories
<1>5. CASE Mine(m) /\ m.type = "done" /\ DumpOver(FALSE) /\ UNCHANGED <<linfo, ainfo>>
  <2>1. m = DoneMsg(seq)
    BY <1>2, <1>5, MessageIs DEF Mine
  <2>2. start \subseteq stored
    BY <1>1, <2>1, WayEnds DEF m
  <2> QED BY <1>5, <2>2 DEF DumpOver
<1>6. CASE ~ Mine(m) /\ UNCHANGED <<pc, linfo, ainfo>>
  <2>1. \A e : m # Entry(seq, e)
    BY <1>2, <1>6, MessageIs DEF Mine
  <2>2. OnItsWay(rx', dump', seq', table, more, start)
    BY <1>1, <2>1, WayRead DEF m
  <2> QED BY <1>6, <2>2
<1>7. CASE Mine(m) /\ m.type = "entry" /\ Store(m.body) /\ UNCHANGED pc
  <2>1. \A e : m = Entry(seq, e) => e \in more
    <3>1. m.body \in more
      BY <1>7 DEF m
    <3> QED BY <1>2, <3>1, MessageIs
  <2>2. OnItsWay(rx', dump', seq', table, more, start)
    BY <1>1, <2>1, WayRead DEF m
  <2> QED BY <1>7, <2>2
<1> QED BY <1>3, <1>4, <1>5, <1>6, <1>7

(* and a table that grows does so behind the dump.                         *)
LEMMA GrowsOnWay ==
  ASSUME Inv, InReach, Changes, ~ hist'.removed, NEW s \in {1, 2}, NEW stored, NEW start,
         OnItsWay(rx, dump, s, IF s = 1 THEN links ELSE addrs, stored, start)
  PROVE  OnItsWay(rx', dump', s, IF s = 1 THEN links' ELSE addrs', stored, start)
<1> DEFINE table == IF s = 1 THEN links ELSE addrs
           grown == IF s = 1 THEN links' ELSE addrs'
<1>1. rx' = rx /\ dump' = dump /\ ~ hist.removed
      /\ \/ UNCHANGED addrs /\ \E e \in Link : links' = Append(links, e)
         \/ UNCHANGED links /\ \E e \in Address : addrs' = Append(addrs, e)
  BY ChangesGrow
<1>2. links \in Seq(Link) /\ addrs \in Seq(Address) /\ (dump = NoDump \/ dump \in Dumps)
  BY DEF Inv, TypeInv
<1>3. table \in Seq(Link \cup Address)
  BY <1>2
<1>4. grown = table \/ \E e \in Link \cup Address : grown = Append(table, e)
  BY <1>1
<1>5. dump # NoDump /\ dump.seq = s => dump.next \in Int /\ dump.next <= Len(table) + 1
  <2> SUFFICES ASSUME dump # NoDump, dump.seq = s
               PROVE  dump.next \in Int /\ dump.next <= Len(table) + 1
    OBVIOUS
  <2>1. Table = table
    BY DEF Inv, DumpIs, Table
  <2> QED BY <1>1, <1>2, <2>1 DEF InReach, Dumps
<1>6. OnItsWay(rx, dump, s, table, stored, start)
  OBVIOUS
<1> HIDE DEF table, grown
<1>7. OnItsWay(rx, dump, s, grown, stored, start)
  BY <1>3, <1>4, <1>5, <1>6, WayGrows
<1> QED BY <1>1, <1>7 DEF grown

(* Receive stores the entries of its own request and forgets none it has   *)
(* stored.                                                                 *)
LEMMA StoreKeeps ==
  ASSUME Inv, Receive
  PROVE  /\ ToSet(linfo) \subseteq ToSet(linfo') /\ ToSet(ainfo) \subseteq ToSet(ainfo')
         /\ Mine(Head(rx)) /\ Head(rx).type = "entry" /\ Store(Head(rx).body) =>
               /\ pc = "links" => Head(rx).body \in ToSet(linfo') /\ UNCHANGED ainfo
               /\ pc = "addrs" => Head(rx).body \in ToSet(ainfo') /\ UNCHANGED linfo
<1> DEFINE m == Head(rx)
<1>1. /\ linfo \in Seq(Link) /\ ainfo \in Seq(Address)
      /\ linfo' \in Seq(Link) /\ ainfo' \in Seq(Address)
  BY InvNext DEF Inv, TypeInv, Next, Thread
<1>2. UNCHANGED <<linfo, ainfo>> \/ Store(m.body)
  BY DEF Receive, ReceiveError
<1>3. pc \in {"links", "addrs"}
  BY DEF Receive
<1> HIDE DEF m
<1>4. ASSUME NEW S, NEW s \in Seq(S), NEW x, Append(s, x) \in Seq(S)
      PROVE  x \in ToSet(Append(s, x)) /\ ToSet(s) \subseteq ToSet(Append(s, x))
  <2>1. Len(s) + 1 \in DOMAIN Append(s, x) /\ Append(s, x)[Len(s) + 1] = x
    BY <1>4
  <2>2. x \in S
    BY <1>4, <2>1
  <2>3. ToSet(Append(s, x)) = ToSet(s) \cup {x}
    BY <2>2, AppendSet
  <2> QED BY <2>3
<1>5. CASE Store(m.body) /\ pc = "links"
  <2>1. linfo' = Append(linfo, m.body) /\ UNCHANGED ainfo
    BY <1>5 DEF Store
  <2>2. m.body \in ToSet(linfo') /\ ToSet(linfo) \subseteq ToSet(linfo')
    BY <1>1, <1>4, <2>1
  <2> QED BY <1>5, <2>1, <2>2 DEF m
<1>6. CASE Store(m.body) /\ pc = "addrs"
  <2>1. ainfo' = Append(ainfo, m.body) /\ UNCHANGED linfo
    BY <1>6 DEF Store
  <2>2. m.body \in ToSet(ainfo') /\ ToSet(ainfo) \subseteq ToSet(ainfo')
    BY <1>1, <1>4, <2>1
  <2> QED BY <1>6, <2>1, <2>2 DEF m
<1>7. CASE ~ Store(m.body)
  BY <1>2, <1>7 DEF m
<1> QED BY <1>3, <1>5, <1>6, <1>7

(* So the lists are complete when they are used.                           *)
LEMMA ProgressNext ==
  Inv /\ TablesIs /\ NotAhead /\ InReach /\ Progress /\ [Next]_vars => Progress'
<1> SUFFICES ASSUME Inv, TablesIs, NotAhead, InReach, Progress, [Next]_vars PROVE Progress'
  OBVIOUS
<1>1. CASE Begin
  BY <1>1 DEF Begin, Progress, CompleteSoFar
<1>2. CASE UseLists
  <2>1. pc' \in {"idle", "lan_ip", "wan_ip", "crashed"}
    BY <1>2 DEF UseLists, BuildList, LookUpLan, LookUpWan, LookupHit, LookupMiss, HeapAborts, Detect
  <2> QED BY <2>1 DEF Progress, CompleteSoFar
<1>3. CASE ~ Begin /\ ~ UseLists
  <2>1. /\ call' = call /\ hist'.startLinks = hist.startLinks /\ hist'.startAddrs = hist.startAddrs
        /\ Undisturbed' => Undisturbed
    BY <1>3, HistoryGrows DEF Undisturbed
  <2>2. UNCHANGED fd
    BY <1>3 DEF Next, Thread, UseLists, AskLinks, AskAddresses, Request, Receive, KernelSends,
       Changes, AddressComes, AddressGoes, LinkComes, LinkGoes, vars, threadVars
  <2>3. pc' \in {"ask_addrs", "addrs", "build"} => fd = "named"
    <3>1. CASE pc' = pc
      BY <3>1 DEF Progress
    <3>2. CASE AskLinks \/ AskAddresses
      BY <3>2 DEF AskLinks, AskAddresses, Request, Progress
    <3>3. CASE Receive
      BY <3>3 DEF Receive, ReceiveError, Mine, Progress
    <3> QED BY <1>3, <3>1, <3>2, <3>3 DEF Next, Thread, UseLists, KernelSends, Changes,
               AddressComes, AddressGoes, LinkComes, LinkGoes, vars, threadVars
  <2>4. ASSUME call # "none", fd = "named", Undisturbed, Undisturbed', CompleteSoFar
        PROVE  CompleteSoFar'
    <3>1. links \in Seq(Link \cup Address) /\ addrs \in Seq(Link \cup Address)
      BY DEF Inv, TypeInv
    <3>2. CASE AskLinks
      <4>1. pc' = "links" /\ seq' = 1 /\ UNCHANGED <<linfo, ainfo, links, addrs>>
        BY <3>2 DEF AskLinks, Request, kernelVars, Inv, PcIs
      <4>2. OnItsWay(rx', dump', seq', links, ToSet(linfo), hist.startLinks)
        BY <3>1, <3>2, AsksOnWay
      <4> QED BY <2>1, <4>1, <4>2 DEF CompleteSoFar
    <3>3. CASE AskAddresses
      <4>1. pc = "ask_addrs" /\ pc' = "addrs" /\ seq' = 2
            /\ UNCHANGED <<linfo, ainfo, links, addrs>>
        BY <3>3 DEF AskAddresses, Request, kernelVars, Inv, PcIs
      <4>2. OnItsWay(rx', dump', seq', addrs, ToSet(ainfo), hist.startAddrs)
        BY <3>1, <3>3, AsksOnWay
      <4> QED BY <2>1, <2>4, <4>1, <4>2 DEF CompleteSoFar
    <3>4. CASE Receive
      <4>1. UNCHANGED <<seq, dump, links, addrs>> /\ pc \in {"links", "addrs"} /\ ~ hist'.cut
        BY <2>4, <3>4 DEF Receive, kernelVars, Undisturbed
      <4>2. ToSet(linfo) \subseteq ToSet(linfo') /\ ToSet(ainfo) \subseteq ToSet(ainfo')
        BY <3>4, StoreKeeps
      <4>3. CASE pc = "links"
        <5>1. seq = 1 /\ seq' = 1
          BY <4>1, <4>3 DEF Inv, PcIs
        <5>2. OnItsWay(rx, dump, seq, links, ToSet(linfo), hist.startLinks)
          BY <2>4, <4>3, <5>1 DEF CompleteSoFar
        <5> DEFINE more == ToSet(linfo')
        <5>3. Mine(Head(rx)) /\ Head(rx).type = "entry" /\ Store(Head(rx).body) =>
                Head(rx).body \in more
          BY <3>4, <4>3, StoreKeeps
        <5>4. ToSet(linfo) \subseteq more
          BY <4>2
        <5> HIDE DEF more
        <5>5. \/ pc' = pc /\ OnItsWay(rx', dump', seq', links, more, hist.startLinks)
              \/ hist.startLinks \subseteq ToSet(linfo) /\ pc' = "ask_addrs"
          BY <2>4, <3>4, <4>1, <4>3, <5>2, <5>3, <5>4, ReadsOnWay
        <5> QED BY <2>1, <4>1, <4>2, <4>3, <5>1, <5>5 DEF CompleteSoFar, more
      <4>4. CASE pc = "addrs"
        <5>1. seq = 2 /\ seq' = 2
          BY <4>1, <4>4 DEF Inv, PcIs
        <5>2. OnItsWay(rx, dump, seq, addrs, ToSet(ainfo), hist.startAddrs)
              /\ hist.startLinks \subseteq ToSet(linfo)
          BY <2>4, <4>4, <5>1 DEF CompleteSoFar
        <5> DEFINE more == ToSet(ainfo')
        <5>3. Mine(Head(rx)) /\ Head(rx).type = "entry" /\ Store(Head(rx).body) =>
                Head(rx).body \in more
          BY <3>4, <4>4, StoreKeeps
        <5>4. ToSet(ainfo) \subseteq more
          BY <4>2
        <5> HIDE DEF more
        <5>5. \/ pc' = pc /\ OnItsWay(rx', dump', seq', addrs, more, hist.startAddrs)
              \/ hist.startAddrs \subseteq ToSet(ainfo) /\ pc' = "build"
          BY <2>4, <3>4, <4>1, <4>4, <5>2, <5>3, <5>4, ReadsOnWay
        <5> QED BY <2>1, <4>1, <4>2, <4>4, <5>1, <5>2, <5>5 DEF CompleteSoFar, more
      <4> QED BY <4>1, <4>3, <4>4
    <3>5. CASE KernelSends
      <4>1. UNCHANGED <<pc, linfo, ainfo, links, addrs>>
        BY <3>5 DEF KernelSends, threadVars, kernelVars
      <4>2. hist.startLinks \subseteq ToSet(links) /\ hist.startAddrs \subseteq ToSet(addrs)
        BY <2>4 DEF TablesIs, SinceStart, Undisturbed
      <4>3. ASSUME pc = "links"
            PROVE  OnItsWay(rx', dump', 1, links, ToSet(linfo), hist.startLinks)
        BY <2>4, <3>1, <3>5, <4>2, <4>3, SendsOnWay DEF CompleteSoFar
      <4>4. ASSUME pc = "addrs"
            PROVE  OnItsWay(rx', dump', 2, addrs, ToSet(ainfo), hist.startAddrs)
        BY <2>4, <3>1, <3>5, <4>2, <4>4, SendsOnWay DEF CompleteSoFar
      <4> QED BY <2>1, <2>4, <4>1, <4>3, <4>4 DEF CompleteSoFar
    <3>6. CASE Changes
      <4>1. UNCHANGED <<pc, linfo, ainfo>> /\ ~ hist'.removed
        BY <2>4, <3>6 DEF Changes, AddressComes, AddressGoes, LinkComes, LinkGoes, threadVars,
           Undisturbed
      <4>2. ASSUME pc = "links"
            PROVE  OnItsWay(rx', dump', 1, links', ToSet(linfo), hist.startLinks)
        BY <2>4, <3>6, <4>1, <4>2, GrowsOnWay DEF CompleteSoFar
      <4>3. ASSUME pc = "addrs"
            PROVE  OnItsWay(rx', dump', 2, addrs', ToSet(ainfo), hist.startAddrs)
        BY <2>4, <3>6, <4>1, <4>3, GrowsOnWay DEF CompleteSoFar
      <4> QED BY <2>1, <2>4, <4>1, <4>2, <4>3 DEF CompleteSoFar
    <3>7. CASE UNCHANGED vars
      BY <2>4, <3>7 DEF vars, threadVars, kernelVars, CompleteSoFar
    <3> QED BY <1>3, <3>2, <3>3, <3>4, <3>5, <3>6, <3>7 DEF Next, Thread, UseLists
  <2> QED BY <2>1, <2>2, <2>3, <2>4 DEF Progress
<1> QED BY <1>1, <1>2, <1>3

-----------------------------------------------------------------------------
(* What was there at the start and was not disturbed is in ctx->ifaces,    *)
LEMMA BuildComplete ==
  ASSUME Inv, TablesIs, Progress, BuildList
  PROVE  IfacesComplete'
<1>1. /\ UNCHANGED hist /\ pc = "build" /\ call # "none"
      /\ ifaces' = [i \in DOMAIN linfo |->
                      [name |-> linfo[i].name, ipaddr |-> IPv4Of(linfo[i].index)]]
  BY DEF BuildList
<1> SUFFICES ASSUME Undisturbed,
                    NEW l \in hist.startLinks, NEW e \in hist.startAddrs,
                    e.index = l.index, e.addr \in IPv4
             PROVE  /\ \E i \in DOMAIN ifaces' : ifaces'[i].name = l.name
                    /\ \A i \in DOMAIN ifaces' : ifaces'[i].name = l.name =>
                          ifaces'[i].ipaddr # <<>> /\ ifaces'[i].ipaddr[1] # NoAddress
  BY <1>1 DEF IfacesComplete, Undisturbed
<1>2. hist.startLinks \subseteq ToSet(linfo) /\ hist.startAddrs \subseteq ToSet(ainfo)
  BY <1>1 DEF Progress, CompleteSoFar
<1>3. linfo \in Seq(Link) /\ ainfo \in Seq(Address) /\ links \in Seq(Link)
      /\ ToSet(linfo) \subseteq ToSet(links) /\ hist.startLinks \subseteq ToSet(links)
  BY <1>1 DEF Inv, TypeInv, DumpsNotMixed, TablesIs, SinceStart, Undisturbed
<1>4. \E i \in DOMAIN ifaces' : ifaces'[i].name = l.name
  <2>1. PICK i \in DOMAIN linfo : linfo[i] = l
    BY <1>2 DEF ToSet
  <2> QED BY <1>1, <2>1
<1>5. ASSUME NEW i \in DOMAIN ifaces', ifaces'[i].name = l.name
      PROVE  ifaces'[i].ipaddr # <<>> /\ ifaces'[i].ipaddr[1] # NoAddress
  <2>1. i \in DOMAIN linfo /\ linfo[i].name = l.name /\ ifaces'[i].ipaddr = IPv4Of(linfo[i].index)
    BY <1>1, <1>5
  <2>2. linfo[i] = l
    <3>1. PICK j \in DOMAIN links : links[j] = l
      BY <1>3 DEF ToSet
    <3>2. PICK k \in DOMAIN links : links[k] = linfo[i]
      BY <1>3, <2>1 DEF ToSet
    <3> QED BY <2>1, <3>1, <3>2 DEF TablesIs, NowNamed
  <2>3. PICK k \in DOMAIN ainfo : ainfo[k] = e
    BY <1>2 DEF ToSet
  <2> DEFINE index == l.index
  <2>4. k \in Owns(index)
    BY <2>3 DEF Owns, OfInterface
  <2>5. IPv4Of(index) # <<>> /\ \E n \in Owns(index) : IPv4Of(index)[1] = PeerOf[ainfo[n].addr]
    <3> HIDE DEF index
    <3> QED BY <1>3, <2>4, IPv4OfIs
  <2>6. PICK n \in Owns(index) : IPv4Of(index)[1] = PeerOf[ainfo[n].addr]
    BY <2>5
  <2>7. PeerOf[ainfo[n].addr] # NoAddress
    <3>1. ainfo[n].addr \in Addresses
      BY DEF Owns, Addresses
    <3> QED BY <3>1, PeerAssumption, ResultAssumption
  <2> QED BY <2>1, <2>2, <2>5, <2>6, <2>7
<1> QED BY <1>4, <1>5

(* The list that is built holds every interface the answers named.         *)
LEMMA IfacesNext ==
  Inv /\ TablesIs /\ Progress /\ IfacesComplete /\ [Next]_vars => IfacesComplete'
<1> SUFFICES ASSUME Inv, TablesIs, Progress, IfacesComplete, [Next]_vars PROVE IfacesComplete'
  OBVIOUS
<1>1. CASE Begin
  BY <1>1 DEF Begin, IfacesComplete
<1>2. CASE BuildList
  BY <1>2, BuildComplete
<1>3. CASE ~ Begin /\ ~ BuildList
  <2>1. /\ hist'.startLinks = hist.startLinks /\ hist'.startAddrs = hist.startAddrs
        /\ Undisturbed' => Undisturbed
    BY <1>3, HistoryGrows DEF Undisturbed
  <2>2. /\ UNCHANGED ifaces
        /\ pc' \in {"lan_ip", "wan_ip"} => pc \in {"lan_ip", "wan_ip"}
    BY <1>3 DEF Next, Thread, AskLinks, AskAddresses, Request, Receive, ReceiveError, DumpOver,
       LookUpLan, LookUpWan, LookupHit, LookupMiss, HeapAborts, Detect, KernelSends, Changes,
       AddressComes, AddressGoes, LinkComes, LinkGoes, vars, threadVars
  <2> QED BY <2>1, <2>2 DEF IfacesComplete
<1> QED BY <1>1, <1>2, <1>3

(* where iface_ip finds it,                                                *)
LEMMA LookUpComplete ==
  ASSUME Inv, IfacesComplete, NEW name,
         NEW from \in {"lan_ip", "wan_ip"}, NEW to,
         LookupHit(from, to, name) \/ LookupMiss(from, to, name)
  PROVE  FindsWhatIsThere'
<1>1. /\ UNCHANGED hist /\ pc \in {"lan_ip", "wan_ip"}
      /\ found'.of = call /\ found'.name = name
  BY DEF LookupHit, LookupMiss, Result
<1>2. found'.of = "if_list_get"
  BY <1>1 DEF Inv, PcIs
<1>3. ASSUME Undisturbed, NEW l \in hist.startLinks, NEW e \in hist.startAddrs,
             l.name = name, e.index = l.index, e.addr \in IPv4
      PROVE  found'.addr # NoAddress
  <2>1. /\ \E i \in DOMAIN ifaces : ifaces[i].name = name
        /\ \A i \in DOMAIN ifaces : ifaces[i].name = name =>
              ifaces[i].ipaddr # <<>> /\ ifaces[i].ipaddr[1] # NoAddress
    BY <1>1, <1>3 DEF IfacesComplete
  <2>2. ~ LookupMiss(from, to, name)
    BY <2>1 DEF LookupMiss, IsNamed
  <2>3. PICK i \in DOMAIN ifaces :
          /\ ifaces[i].name = name
          /\ found'.addr = IF ifaces[i].ipaddr # <<>> THEN ifaces[i].ipaddr[1] ELSE NoAddress
    BY <2>2 DEF LookupHit, Result, IsFirstNamed, IsNamed
  <2> QED BY <2>1, <2>3
<1> QED BY <1>1, <1>2, <1>3 DEF FindsWhatIsThere, Undisturbed, HadAtStart

(* and iface_ip6_get in its own lists.                                     *)
LEMMA SomethingDetected ==
  ASSUME Inv, NEW l \in DOMAIN linfo, NEW a \in DOMAIN ainfo,
         linfo[l].name = Wan, Takes6(ainfo[a], linfo[l].index)
  PROVE  \E k \in DOMAIN linfo, b \in DOMAIN ainfo : DetectsFrom(k, b)
<1> DEFINE Has(k) == {b \in DOMAIN ainfo : Takes6(ainfo[b], linfo[k].index)}
           Ls == {k \in DOMAIN linfo : linfo[k].name = Wan /\ Has(k) # {}}
<1>1. /\ DOMAIN linfo = 1 .. Len(linfo) /\ DOMAIN ainfo = 1 .. Len(ainfo)
      /\ Len(linfo) \in Nat /\ Len(ainfo) \in Nat
  BY DEF Inv, TypeInv
<1>2. l \in Ls
  OBVIOUS
<1>3. Ls \in SUBSET (0 .. Len(linfo))
  BY <1>1
<1>4. PICK k \in Ls : \A j \in Ls : j <= k
  <2> HIDE DEF Ls
  <2> QED BY <1>1, <1>2, <1>3, GreatestExists
<1>5. k \in DOMAIN linfo /\ linfo[k].name = Wan /\ Has(k) # {} /\ Has(k) \in SUBSET Nat
  BY <1>1
<1>6. PICK b \in Has(k) : \A c \in Has(k) : b <= c
  <2> HIDE DEF Has
  <2> QED BY <1>5, LeastExists
<1>7. \A c \in 1 .. b - 1 : ~ Takes6(ainfo[c], linfo[k].index)
  <2> SUFFICES ASSUME NEW c \in 1 .. b - 1, Takes6(ainfo[c], linfo[k].index) PROVE FALSE
    OBVIOUS
  <2>1. b \in 1 .. Len(ainfo)
    BY <1>1
  <2>2. c \in DOMAIN ainfo /\ ~ b <= c
    BY <1>1, <2>1
  <2> QED BY <1>6, <2>2
<1>8. ASSUME NEW j \in DOMAIN linfo, j > k, linfo[j].name = Wan, NEW c \in DOMAIN ainfo
      PROVE  ~ Takes6(ainfo[c], linfo[j].index)
  <2>1. ~ j <= k
    BY <1>1, <1>5, <1>8
  <2>2. j \notin Ls
    BY <1>4, <2>1
  <2> QED BY <1>8, <2>2
<1>9. b \in DOMAIN ainfo /\ Takes6(ainfo[b], linfo[k].index)
  OBVIOUS
<1> HIDE DEF Has, Ls
<1>10. DetectsFrom(k, b)
  BY <1>5, <1>7, <1>8, <1>9 DEF DetectsFrom
<1> QED BY <1>5, <1>9, <1>10

(* iface_ip6_get finds an address that was there when the call began.      *)
LEMMA DetectComplete ==
  ASSUME Own6, Inv, Progress, Detect
  PROVE  FindsWhatIsThere'
<1>1. /\ UNCHANGED hist /\ pc = "build" /\ call = "iface_ip6_get"
      /\ found'.of = call /\ found'.name = Wan
  BY DEF Detect, Result
<1>2. ASSUME Undisturbed, NEW l \in hist.startLinks, NEW e \in hist.startAddrs,
             l.name = Wan, e.index = l.index, e.addr \in Global6
      PROVE  found'.addr # "failed"
  <2>1. hist.startLinks \subseteq ToSet(linfo) /\ hist.startAddrs \subseteq ToSet(ainfo)
    BY <1>1, <1>2 DEF Progress, CompleteSoFar
  <2>2. PICK i \in DOMAIN linfo : linfo[i] = l
    BY <2>1 DEF ToSet
  <2>3. PICK k \in DOMAIN ainfo : ainfo[k] = e
    BY <2>1 DEF ToSet
  <2>4. Takes6(ainfo[k], linfo[i].index)
    <3> DEFINE b == e.addr
    <3>1. b \in Global6 /\ b \notin IPv4 /\ b \notin LinkLocal6 /\ PeerOf[b] = b
      BY <1>2, FamilyAssumption DEF Own6
    <3> HIDE DEF b
    <3>2. ~ IsLinkLocal(b)
      BY <3>1 DEF IsLinkLocal, AsChar, Bytes
    <3>3. ~ IsLinkLocal(PeerOf[e.addr])
      BY <3>1, <3>2 DEF b
    <3> QED BY <1>2, <2>2, <2>3, <3>1, <3>3 DEF Takes6, OfInterface, b
  <2>5. \E m \in DOMAIN linfo, a \in DOMAIN ainfo : DetectsFrom(m, a)
    BY <1>2, <2>2, <2>4, SomethingDetected
  <2>6. PICK a \in DOMAIN ainfo : Result(Wan, PeerOf[ainfo[a].addr])
    BY <2>5 DEF Detect
  <2>7. PeerOf[ainfo[a].addr] # "failed"
    <3>1. ainfo[a] \in Address
      BY DEF Inv, TypeInv
    <3>2. ainfo[a].addr \in Addresses
      BY <3>1 DEF Address
    <3> QED BY <3>2, PeerAssumption, ResultAssumption
  <2> QED BY <2>6, <2>7 DEF Result
<1> QED BY <1>1, <1>2 DEF FindsWhatIsThere, Undisturbed, HadAtStart

(* Every step keeps the promise of the calls that are over.                *)
LEMMA FindsNext ==
  /\ Own6 /\ Inv /\ Progress /\ IfacesComplete /\ FindsWhatIsThere
  /\ [Next]_vars
  => FindsWhatIsThere'
<1> SUFFICES ASSUME Own6, Inv, Progress, IfacesComplete, FindsWhatIsThere, [Next]_vars
             PROVE  FindsWhatIsThere'
  OBVIOUS
<1>1. CASE Begin
  BY <1>1 DEF Begin, NoResult, FindsWhatIsThere
<1>2. CASE Detect
  BY <1>2, DetectComplete
<1>3. CASE LookUpLan \/ LookUpWan
  BY <1>3, LookUpComplete DEF LookUpLan, LookUpWan
<1>4. CASE ~ Begin /\ ~ Detect /\ ~ LookUpLan /\ ~ LookUpWan
  <2>1. found' = found /\ hist'.startLinks = hist.startLinks /\ hist'.startAddrs = hist.startAddrs
        /\ (Undisturbed' => Undisturbed)
    BY <1>4, FoundStays, HistoryGrows DEF Undisturbed
  <2> QED BY <2>1 DEF FindsWhatIsThere, HadAtStart
<1> QED BY <1>1, <1>2, <1>3, <1>4

(* No call has begun when main begins.                                     *)
LEMMA CompleteInit == Init => CompleteInv
<1> SUFFICES ASSUME Init PROVE CompleteInv
  OBVIOUS
<1>1. NowNamed
  BY BeginAssumption DEF Init, NowNamed
<1>2. rx = <<>> /\ dump = NoDump /\ pc = "idle" /\ call = "none" /\ found = NoResult
  BY DEF Init
<1> QED BY <1>1, <1>2, EmptySet DEF CompleteInv, SinceStart, NotAhead, InReach, Progress,
           CompleteSoFar, IfacesComplete, FindsWhatIsThere, NoResult

(* Every step keeps each entry stored, waiting, or still ahead of the      *)
(* kernel.                                                                 *)
LEMMA CompleteNext == Own6 /\ Inv /\ CompleteInv /\ [Next]_vars => CompleteInv'
<1> SUFFICES ASSUME Own6, Inv, CompleteInv, [Next]_vars PROVE CompleteInv'
  OBVIOUS
<1>1. TablesIs /\ NotAhead /\ InReach /\ Progress /\ IfacesComplete /\ FindsWhatIsThere
  BY DEF CompleteInv, TablesIs
<1>2. TablesIs' /\ NotAhead' /\ InReach'
  BY <1>1, TablesNext, NotAheadNext, InReachNext
<1>3. Progress' /\ IfacesComplete' /\ FindsWhatIsThere'
  BY <1>1, ProgressNext, IfacesNext, FindsNext
<1> QED BY <1>2, <1>3 DEF CompleteInv, TablesIs

(* An IPv6 address that the WAN interface had when iface_ip6_get began is  *)
(* found, and an IPv4 address that the LAN or WAN interface had when       *)
(* if_list_get began has a default made of it, unless something was        *)
(* removed or a dump was cut short meanwhile; however much is added, and   *)
(* however the kernel spreads its answers.                                 *)
THEOREM FindsWhatIsAlwaysThere ==
  ASSUME Own6 PROVE Spec => []FindsWhatIsThere
<1>1. Inv /\ CompleteInv /\ [Next]_vars => CompleteInv'
  BY CompleteNext
<1>2. CompleteInv => FindsWhatIsThere
  BY DEF CompleteInv
<1> QED BY <1>1, <1>2, CompleteInit, InvAlways, PTL DEF Spec
=============================================================================
