--------------------------- MODULE TcpRelayProofs ---------------------------
(***************************************************************************)
(* Proofs about TcpRelay for any connections, numbers of descriptors,      *)
(* messages and windows.                                                   *)
(***************************************************************************)
EXTENDS TcpRelay, ListFacts, SequenceTheorems

Entries == [fd : Fds, peer : Fds]
Members(list) == {list[i] : i \in DOMAIN list}

(* No descriptor is listed twice.                                          *)
Distinct(list) == \A i, j \in DOMAIN list : list[i].fd = list[j].fd => i = j

(* Descriptors are natural numbers, and none of them stands for no         *)
(* descriptor.                                                             *)
LEMMA FdsAreNumbers == Fds \subseteq Nat /\ None \notin Fds
BY SizeAssumption DEF Fds, None

(* Where the first of several elements is.                                 *)
LEMMA FirstExists ==
  ASSUME NEW n \in Nat, NEW I \in SUBSET (1 .. n), I # {}
  PROVE  Min(I) \in I
<1>1. I \in SUBSET Nat
  OBVIOUS
<1>2. \E x \in I : \A y \in I : x <= y
  BY <1>1, LeastExists
<1> QED BY <1>2 DEF Min

(* wait_for_traffic returns a socket of the list that is ready.            *)
LEMMA FirstIsReady ==
  ASSUME sockets \in Seq(Entries), Ready
  PROVE  FirstReady \in Members(sockets) /\ Readable(FirstReady.fd)
<1> DEFINE I == {i \in 1 .. Len(sockets) : Readable(sockets[i].fd)}
<1>1. I # {} /\ I \in SUBSET (1 .. Len(sockets)) /\ Len(sockets) \in Nat
  BY DEF Ready
<1>2. Min(I) \in I
  BY <1>1, FirstExists
<1>3. FirstReady = sockets[Min(I)]
  BY <1>1 DEF FirstReady, SelectInSeq
<1>4. Min(I) \in DOMAIN sockets /\ Readable(sockets[Min(I)].fd)
  BY <1>2
<1> QED BY <1>3, <1>4 DEF Members

(* socket_del takes the socket with the descriptor and no other.           *)
LEMMA SocketDelFacts ==
  ASSUME NEW list \in Seq(Entries), Distinct(list), NEW fd
  PROVE  /\ SocketDel(list, fd) \in Seq(Entries)
         /\ Distinct(SocketDel(list, fd))
         /\ Members(SocketDel(list, fd)) = {x \in Members(list) : x.fd # fd}
<1>1. CASE fd \notin FdsOf(list)
  BY <1>1 DEF SocketDel, FdsOf, Members
<1>2. CASE fd \in FdsOf(list)
  <2> DEFINE I == {i \in 1 .. Len(list) : list[i].fd = fd}
             k == Min(I)
             rest == RemoveAt(list, k)
  <2>1. I # {} /\ I \in SUBSET (1 .. Len(list)) /\ Len(list) \in Nat
    BY <1>2 DEF FdsOf
  <2>2. k \in I
    BY <2>1, FirstExists
  <2>3. SocketDel(list, fd) = rest
    BY <1>2, <2>1 DEF SocketDel, SelectInSeq
  <2>4. k \in DOMAIN list /\ list[k].fd = fd
    BY <2>2
  <2> HIDE DEF I, k
  <2>5. /\ rest \in Seq(Entries) /\ Len(rest) = Len(list) - 1
        /\ \A i \in DOMAIN rest : rest[i] = IF i < k THEN list[i] ELSE list[i + 1]
    BY <2>4, RemoveAtFacts
  <2> HIDE DEF rest
  <2> DEFINE at(i) == IF i < k THEN i ELSE i + 1
  <2>6. ASSUME NEW i \in DOMAIN rest
        PROVE  at(i) \in DOMAIN list /\ at(i) # k /\ rest[i] = list[at(i)]
    BY <2>4, <2>5, <2>6
  <2>7. Distinct(rest)
    <3> SUFFICES ASSUME NEW i \in DOMAIN rest, NEW j \in DOMAIN rest,
                        rest[i].fd = rest[j].fd
                 PROVE  i = j
      BY DEF Distinct
    <3>1. at(i) = at(j)
      BY <2>6 DEF Distinct
    <3>2. i \in Int /\ j \in Int /\ k \in Int
      BY <2>4, <2>5
    <3> QED BY <3>1, <3>2
  <2>8. Members(rest) \subseteq {x \in Members(list) : x.fd # fd}
    <3> SUFFICES ASSUME NEW i \in DOMAIN rest
                 PROVE  rest[i] \in Members(list) /\ rest[i].fd # fd
      BY DEF Members
    <3>1. at(i) \in DOMAIN list /\ at(i) # k /\ rest[i] = list[at(i)]
      BY <2>6
    <3> QED BY <3>1, <2>4 DEF Members, Distinct
  <2>9. {x \in Members(list) : x.fd # fd} \subseteq Members(rest)
    <3> SUFFICES ASSUME NEW j \in DOMAIN list, list[j].fd # fd
                 PROVE  \E i \in DOMAIN rest : rest[i] = list[j]
      BY DEF Members
    <3>1. j \in 1 .. Len(list) /\ k \in 1 .. Len(list) /\ j # k /\ Len(list) \in Nat
      BY <2>4
    <3>2. CASE j < k
      <4>1. j \in DOMAIN rest /\ rest[j] = list[j]
        BY <3>1, <3>2, <2>5
      <4> QED BY <4>1
    <3>3. CASE j > k
      <4>1. j - 1 \in DOMAIN rest /\ ~ (j - 1 < k)
        BY <3>1, <3>3, <2>5
      <4>2. rest[j - 1] = list[(j - 1) + 1] /\ (j - 1) + 1 = j
        BY <4>1, <3>1, <2>5
      <4> QED BY <4>1, <4>2
    <3> QED BY <3>1, <3>2, <3>3
  <2> QED BY <2>3, <2>5, <2>7, <2>8, <2>9
<1> QED BY <1>1, <1>2

-----------------------------------------------------------------------------
(* The invariant.  Peers are paired, every socket of the list has an end,  *)
(* and the pair that is being connected is not in the list yet.            *)
Paired(list) ==
  \A x \in Members(list) : \E y \in Members(list) :
     y.fd = x.peer /\ y.peer = x.fd /\ end[y.fd] = Other(end[x.fd])

HasEnd(list) == \A x \in Members(list) : end[x.fd] \in Ends

JoiningIsNew ==
  IF pc = "connect"
    THEN /\ joining \in [lan : Fds, wan : Fds] /\ joining.lan # joining.wan
         /\ {joining.lan, joining.wan} \cap FdsOf(sockets) = {}
         /\ \E c \in Conns : end[joining.lan] = <<c, "lan">> /\ end[joining.wan] = <<c, "wan">>
    ELSE joining = NoJoining

PairInv == PeersPaired /\ HasEnd(sockets) /\ JoiningIsNew
Inv == TypeOK /\ PairInv

(* PeersPaired is about the members of the list only, not about their      *)
(* places.                                                                 *)
LEMMA PairedIs ==
  ASSUME sockets \in Seq(Entries)
  PROVE  PeersPaired <=>
           /\ Distinct(sockets) /\ Paired(sockets)
           /\ open = FdsOf(sockets) \cup ({joining.lan, joining.wan} \ {None})
<1>1. Paired(sockets) <=>
        \A i \in DOMAIN sockets : \E j \in DOMAIN sockets :
           /\ sockets[j].fd = sockets[i].peer /\ sockets[j].peer = sockets[i].fd
           /\ end[sockets[j].fd] = Other(end[sockets[i].fd])
  BY DEF Paired, Members
<1> QED BY <1>1 DEF PeersPaired, Distinct

(* The descriptors of a list are those of its members.                     *)
LEMMA FdsAre ==
  ASSUME NEW list
  PROVE  FdsOf(list) = {x.fd : x \in Members(list)}
BY DEF FdsOf, Members

(* Between accept() and connect() nothing is open when nothing is joining. *)
LEMMA NothingJoining ==
  ASSUME joining = NoJoining
  PROVE  {joining.lan, joining.wan} \ {None} = {}
BY DEF NoJoining

(* Outside connect() what is open is what is listed.                       *)
LEMMA OpenIsListed ==
  ASSUME Inv, pc # "connect"
  PROVE  open = FdsOf(sockets) /\ joining = NoJoining
<1>1. joining = NoJoining
  BY DEF Inv, PairInv, JoiningIsNew
<1> QED BY <1>1, NothingJoining DEF Inv, PairInv, PeersPaired

(* handle_tcp_close leaves pairs and closes what it takes from the list.   *)
LEMMA CloseKeeps ==
  ASSUME Inv, pc # "connect", NEW s \in Members(sockets), Unlink(TcpClose(s)),
         UNCHANGED <<end, joining>>, pc' # "connect"
  PROVE  /\ PairInv' /\ sockets' \in Seq(Entries) /\ open' \subseteq open
         /\ open \ open' \subseteq {s.fd, s.peer}
         /\ s.peer \in Fds /\ end[s.peer] = Other(end[s.fd])
<1> DEFINE rest == TcpClose(s)
           kept == {x \in Members(sockets) : x.fd # s.fd /\ x.fd # s.peer}
<1>1. sockets \in Seq(Entries) /\ Distinct(sockets) /\ Paired(sockets)
  BY PairedIs DEF Inv, PairInv, TypeOK, Entries
<1>2. rest \in Seq(Entries) /\ Distinct(rest) /\ Members(rest) = kept
  <2> DEFINE half == SocketDel(sockets, s.fd)
  <2>1. /\ half \in Seq(Entries) /\ Distinct(half)
        /\ Members(half) = {x \in Members(sockets) : x.fd # s.fd}
    BY <1>1, SocketDelFacts
  <2>2. rest = SocketDel(half, s.peer)
    BY DEF TcpClose
  <2> HIDE DEF half, rest
  <2>3. /\ rest \in Seq(Entries) /\ Distinct(rest)
        /\ Members(rest) = {x \in Members(half) : x.fd # s.peer}
    BY <2>1, <2>2, SocketDelFacts
  <2> QED BY <2>1, <2>3
<1>3. sockets' = rest /\ open' = open \ (FdsOf(sockets) \ FdsOf(rest))
  BY DEF Unlink
<1> HIDE DEF rest
<1>4. open = FdsOf(sockets) /\ joining = NoJoining
  BY OpenIsListed
<1>5. FdsOf(rest) \subseteq FdsOf(sockets)
  BY <1>2, FdsAre
<1>6. open' = FdsOf(sockets')
  BY <1>3, <1>4, <1>5
<1>7. ASSUME NEW x \in Members(sockets), NEW y \in Members(sockets), x.fd = y.fd
      PROVE  x = y
  BY <1>1, <1>7 DEF Members, Distinct
<1>8. PICK z \in Members(sockets) : z.fd = s.peer /\ z.peer = s.fd /\ end[z.fd] = Other(end[s.fd])
  BY <1>1 DEF Paired
<1>9. ASSUME NEW x \in kept
      PROVE  \E y \in kept : y.fd = x.peer /\ y.peer = x.fd /\ end[y.fd] = Other(end[x.fd])
  <2>1. PICK y \in Members(sockets) :
               y.fd = x.peer /\ y.peer = x.fd /\ end[y.fd] = Other(end[x.fd])
    BY <1>1, <1>9 DEF Paired
  <2>2. y.fd # s.fd
    BY <1>7, <1>9, <2>1
  <2>3. y.fd # s.peer
    BY <1>7, <1>8, <1>9, <2>1
  <2> QED BY <2>1, <2>2, <2>3
<1>10. Paired(sockets)' /\ Distinct(sockets)' /\ HasEnd(sockets)'
  BY <1>2, <1>3, <1>9 DEF Paired, Distinct, HasEnd, Members, Inv, PairInv
<1>11. PeersPaired'
  <2>1. open' = FdsOf(sockets') \cup ({joining'.lan, joining'.wan} \ {None})
    BY <1>4, <1>6, NothingJoining
  <2>2. \A i \in DOMAIN sockets' : \E j \in DOMAIN sockets' :
           /\ sockets'[j].fd = sockets'[i].peer /\ sockets'[j].peer = sockets'[i].fd
           /\ end'[sockets'[j].fd] = Other(end'[sockets'[i].fd])
    BY <1>10 DEF Paired, Members
  <2> QED BY <2>1, <2>2, <1>10 DEF PeersPaired, Distinct
<1>12. JoiningIsNew'
  BY <1>4 DEF JoiningIsNew
<1>13. open \ open' \subseteq {s.fd, s.peer}
  <2> SUFFICES ASSUME NEW x \in Members(sockets), x.fd \notin open', x.fd # s.fd, x.fd # s.peer
               PROVE  FALSE
    BY <1>4, FdsAre
  <2>1. x \in Members(rest)
    BY <1>2
  <2> QED BY <2>1, <1>3, <1>6, FdsAre
<1>14. s.peer \in Fds
  <2>1. s \in Entries
    BY <1>1 DEF Members
  <2> QED BY <2>1 DEF Entries
<1> QED BY <1>2, <1>3, <1>8, <1>10, <1>11, <1>12, <1>13, <1>14 DEF PairInv

(* A connection has two ends, and each is the other's other one.           *)
LEMMA OtherEnd ==
  /\ \A c \in Conns : /\ <<c, "lan">> \in Ends /\ <<c, "wan">> \in Ends
                      /\ Other(<<c, "lan">>) = <<c, "wan">>
                      /\ Other(<<c, "wan">>) = <<c, "lan">>
  /\ \A e \in Ends : Other(e) \in Ends /\ Other(Other(e)) = e
BY DEF Ends, Other

(* A step that leaves sockets, descriptors and connect() alone.            *)
LEMMA SamePairs ==
  ASSUME PairInv, UNCHANGED <<sockets, open, end, joining>>,
         pc' = "connect" <=> pc = "connect"
  PROVE  PairInv'
BY DEF PairInv, PeersPaired, HasEnd, Members, JoiningIsNew

(* The end of the process closes everything.                               *)
LEMMA EmptyPairs ==
  ASSUME sockets' = <<>>, open' = {}, joining' = NoJoining, pc' # "connect"
  PROVE  PairInv'
<1>1. DOMAIN sockets' = {} /\ FdsOf(sockets') = {} /\ Members(sockets') = {}
  BY DEF FdsOf, Members
<1>2. {joining'.lan, joining'.wan} \ {None} = {}
  BY NothingJoining DEF NoJoining
<1> QED BY <1>1, <1>2 DEF PairInv, PeersPaired, HasEnd, JoiningIsNew

(* Among free descriptors there is a lowest one, which the kernel gives    *)
(* out.                                                                    *)
LEMMA FreeIsThere ==
  ASSUME TypeOK, NEW S \in SUBSET Free, S # {}
  PROVE  LowestOf(S) \in S /\ LowestOf(S) \in Fds /\ LowestOf(S) \notin open
<1>1. S \in SUBSET Nat /\ S \subseteq 1 .. limit /\ limit \in Limits
  BY SizeAssumption DEF Free, TypeOK
<1>2. \E f \in S : \A g \in S : f <= g
  BY <1>1, LeastExists
<1>3. LowestOf(S) \in S
  BY <1>2 DEF LowestOf
<1> QED BY <1>1, <1>3 DEF Free, Fds

(* sock_tcp_accept, up to connect(): two descriptors that were free get    *)
(* the two ends of one connection.                                         *)
LEMMA AcceptPairs ==
  ASSUME Inv, Accept
  PROVE  PairInv' /\ open' \subseteq 1 .. limit /\ end' \in [Fds -> Ends \cup {NoEnd}]
         /\ (joining' = NoJoining \/ joining' \in [lan : Fds, wan : Fds])
<1> DEFINE lan == LowestOf(Free)
           others == Free \ {lan}
           wan == LowestOf(others)
           c == Head(backlog)
<1>1. /\ pc = "select" /\ backlog # <<>> /\ UNCHANGED sockets
      /\ open = FdsOf(sockets) /\ joining = NoJoining
  BY OpenIsListed DEF Accept
<1>2. CASE Free = {} \/ others = {}
  <2>1. pc' = "test" /\ UNCHANGED <<open, end, joining>>
    BY <1>2 DEF Accept
  <2> QED BY <1>1, <2>1, SamePairs DEF Inv, TypeOK
<1>3. CASE Free # {} /\ others # {}
  <2>1. /\ pc' = "connect" /\ joining' = [lan |-> lan, wan |-> wan]
        /\ open' = open \cup {lan, wan}
        /\ end' = [end EXCEPT ![lan] = <<c, "lan">>, ![wan] = <<c, "wan">>]
    BY <1>3 DEF Accept
  <2>2. lan \in Fds /\ lan \notin open /\ lan \in Free
    BY <1>3, FreeIsThere DEF Inv
  <2>3. wan \in Fds /\ wan \notin open /\ wan \in others /\ wan # lan
    <3>1. others \in SUBSET Free
      OBVIOUS
    <3>2. wan \in others
      BY <1>3, <3>1, FreeIsThere DEF Inv
    <3> QED BY <1>3, <3>1, <3>2, FreeIsThere DEF Inv
  <2>4. c \in Conns
    BY <1>1 DEF Inv, TypeOK
  <2>5. lan \in 1 .. limit /\ wan \in 1 .. limit
    BY <2>2, <2>3 DEF Free
  <2> HIDE DEF lan, others, wan, c
  <2>6. end \in [Fds -> Ends \cup {NoEnd}] /\ sockets \in Seq(Entries) /\ open \subseteq 1 .. limit
    BY DEF Inv, TypeOK, Entries
  <2>7. end' \in [Fds -> Ends \cup {NoEnd}]
    BY <2>1, <2>2, <2>3, <2>4, <2>6, OtherEnd
  <2>8. end'[lan] = <<c, "lan">> /\ end'[wan] = <<c, "wan">>
    BY <2>1, <2>2, <2>3, <2>6
  <2>9. ASSUME NEW x \in Members(sockets) PROVE end'[x.fd] = end[x.fd] /\ x.fd \in open
    <3>1. x.fd \in open
      BY <1>1, FdsAre
    <3>2. x.fd # lan /\ x.fd # wan
      BY <3>1, <2>2, <2>3
    <3>3. x.fd \in Fds
      <4>1. x \in Entries
        BY <2>6 DEF Members
      <4> QED BY <4>1 DEF Entries
    <3> QED BY <3>1, <3>2, <3>3, <2>1, <2>6
  <2>10. HasEnd(sockets)'
    BY <1>1, <2>9 DEF HasEnd, Members, Inv, PairInv
  <2>11. PeersPaired'
    <3>1. \A i \in DOMAIN sockets : end'[sockets[i].fd] = end[sockets[i].fd]
      BY <2>9 DEF Members
    <3>2. open' = FdsOf(sockets) \cup ({lan, wan} \ {None})
      BY <1>1, <2>1, <2>2, <2>3, FdsAreNumbers
    <3>3. joining'.lan = lan /\ joining'.wan = wan
      BY <2>1
    <3> QED BY <1>1, <3>1, <3>2, <3>3 DEF PeersPaired, Inv, PairInv
  <2>12. JoiningIsNew'
    <3>1. {lan, wan} \cap FdsOf(sockets') = {}
      BY <1>1, <2>2, <2>3
    <3> QED BY <2>1, <2>2, <2>3, <2>4, <2>8, <3>1 DEF JoiningIsNew
  <2>13. joining' \in [lan : Fds, wan : Fds]
    BY <2>1, <2>2, <2>3
  <2> QED BY <2>1, <2>5, <2>6, <2>7, <2>10, <2>11, <2>12, <2>13 DEF PairInv
<1> QED BY <1>2, <1>3

(* sock_tcp_accept after connect(): both sockets enter the list, as peers. *)
LEMMA ConnectedPairs ==
  ASSUME Inv, Connected
  PROVE  PairInv' /\ sockets' \in Seq(Entries)
<1> DEFINE l == joining.lan
           w == joining.wan
           a == [fd |-> w, peer |-> l]
           b == [fd |-> l, peer |-> w]
<1>1. /\ pc = "connect" /\ pc' = "test" /\ UNCHANGED <<open, end>>
      /\ sockets' = <<a, b>> \o sockets /\ joining' = NoJoining
  BY DEF Connected
<1>2. l \in Fds /\ w \in Fds /\ l # w /\ l \notin FdsOf(sockets) /\ w \notin FdsOf(sockets)
  BY <1>1 DEF Inv, PairInv, JoiningIsNew
<1>3. PICK c \in Conns : end[l] = <<c, "lan">> /\ end[w] = <<c, "wan">>
  BY <1>1 DEF Inv, PairInv, JoiningIsNew
<1>4. open = FdsOf(sockets) \cup {l, w}
  BY <1>2, FdsAreNumbers DEF Inv, PairInv, PeersPaired
<1>5. sockets \in Seq(Entries) /\ Distinct(sockets) /\ Paired(sockets) /\ HasEnd(sockets)
  BY PairedIs DEF Inv, PairInv, TypeOK, Entries
<1>6. a \in Entries /\ b \in Entries /\ a.fd = w /\ a.peer = l /\ b.fd = l /\ b.peer = w
  BY <1>2 DEF Entries
<1> HIDE DEF l, w, a, b
<1>7. /\ sockets' \in Seq(Entries) /\ Len(sockets') = Len(sockets) + 2
      /\ sockets'[1] = a /\ sockets'[2] = b
      /\ \A i \in 3 .. Len(sockets) + 2 : sockets'[i] = sockets[i - 2]
  <2> DEFINE two == <<a, b>>
  <2>1. two \in Seq(Entries) /\ Len(two) = 2 /\ two[1] = a /\ two[2] = b
    BY <1>6
  <2> HIDE DEF two
  <2>2. sockets' = two \o sockets
    BY <1>1 DEF two
  <2>3. /\ sockets' \in Seq(Entries) /\ Len(sockets') = 2 + Len(sockets)
        /\ \A i \in 1 .. 2 + Len(sockets) : sockets'[i] = IF i <= 2 THEN two[i] ELSE sockets[i - 2]
    <3>1. /\ two \o sockets \in Seq(Entries) /\ Len(two \o sockets) = Len(two) + Len(sockets)
          /\ \A i \in 1 .. Len(two) + Len(sockets) :
                (two \o sockets)[i] = IF i <= Len(two) THEN two[i] ELSE sockets[i - Len(two)]
      BY <1>5, <2>1, ConcatProperties
    <3> QED BY <2>1, <2>2, <3>1
  <2> QED BY <1>5, <2>1, <2>3
<1>8. Members(sockets') = Members(sockets) \cup {a, b}
  <2>1. DOMAIN sockets' = 1 .. Len(sockets) + 2 /\ Len(sockets) \in Nat
    BY <1>5, <1>7
  <2>2. Members(sockets') \subseteq Members(sockets) \cup {a, b}
    <3> SUFFICES ASSUME NEW i \in DOMAIN sockets', i # 1, i # 2
                 PROVE  sockets'[i] \in Members(sockets)
      BY <1>7 DEF Members
    <3>1. i \in 3 .. Len(sockets) + 2 /\ i - 2 \in DOMAIN sockets
      BY <1>5, <2>1
    <3> QED BY <3>1, <1>7 DEF Members
  <2>3. Members(sockets) \subseteq Members(sockets')
    <3> SUFFICES ASSUME NEW i \in DOMAIN sockets PROVE sockets[i] \in Members(sockets')
      BY DEF Members
    <3>1. i + 2 \in 3 .. Len(sockets) + 2 /\ i + 2 \in DOMAIN sockets' /\ (i + 2) - 2 = i
      BY <1>5, <2>1
    <3> QED BY <3>1, <1>7 DEF Members
  <2>4. a \in Members(sockets') /\ b \in Members(sockets')
    BY <1>7, <2>1 DEF Members
  <2> QED BY <2>2, <2>3, <2>4
<1>9. ASSUME NEW i \in DOMAIN sockets', NEW j \in DOMAIN sockets', sockets'[i].fd = sockets'[j].fd
      PROVE  i = j
  <2>1. i \in 1 .. Len(sockets) + 2 /\ j \in 1 .. Len(sockets) + 2 /\ Len(sockets) \in Nat
    BY <1>5, <1>7
  <2>2. ASSUME NEW k \in 1 .. Len(sockets) + 2, k # 1, k # 2
        PROVE  k - 2 \in DOMAIN sockets /\ sockets'[k] = sockets[k - 2]
               /\ sockets'[k].fd # l /\ sockets'[k].fd # w
    <3>1. k \in 3 .. Len(sockets) + 2 /\ k - 2 \in DOMAIN sockets
      BY <1>5, <2>1, <2>2
    <3> QED BY <3>1, <1>2, <1>7 DEF FdsOf
  <2>3. CASE i \in {1, 2} \/ j \in {1, 2}
    BY <2>1, <2>2, <2>3, <1>2, <1>6, <1>7, <1>9
  <2>4. CASE i \notin {1, 2} /\ j \notin {1, 2}
    <3>1. i - 2 = j - 2
      BY <2>1, <2>2, <2>4, <1>5, <1>9 DEF Distinct
    <3> QED BY <3>1, <2>1
  <2> QED BY <2>3, <2>4
<1>10. end[w] = Other(end[l]) /\ end[l] = Other(end[w]) /\ end[l] \in Ends /\ end[w] \in Ends
  BY <1>3, OtherEnd
<1>11. Paired(sockets)' /\ HasEnd(sockets)'
  <2>1. \A x \in Members(sockets') : \E y \in Members(sockets') :
           y.fd = x.peer /\ y.peer = x.fd /\ end[y.fd] = Other(end[x.fd])
    BY <1>5, <1>6, <1>8, <1>10 DEF Paired
  <2>2. \A x \in Members(sockets') : end[x.fd] \in Ends
    BY <1>5, <1>6, <1>8, <1>10 DEF HasEnd
  <2> QED BY <2>1, <2>2, <1>1 DEF Paired, HasEnd, Members
<1>12. PeersPaired'
  <2>1. open' = FdsOf(sockets') \cup ({joining'.lan, joining'.wan} \ {None})
    <3>1. FdsOf(sockets') = FdsOf(sockets) \cup {l, w}
      BY <1>6, <1>8, FdsAre
    <3>2. {joining'.lan, joining'.wan} \ {None} = {}
      BY <1>1 DEF NoJoining
    <3> QED BY <1>1, <1>4, <3>1, <3>2
  <2>2. \A i \in DOMAIN sockets' : \E j \in DOMAIN sockets' :
           /\ sockets'[j].fd = sockets'[i].peer /\ sockets'[j].peer = sockets'[i].fd
           /\ end'[sockets'[j].fd] = Other(end'[sockets'[i].fd])
    BY <1>11 DEF Paired, Members
  <2> QED BY <2>1, <2>2, <1>9 DEF PeersPaired
<1> QED BY <1>1, <1>7, <1>11, <1>12 DEF PairInv, JoiningIsNew

-----------------------------------------------------------------------------
(* What the steps that follow select() and those that send work on.        *)
LEMMA ReadyEnd ==
  ASSUME Inv, Ready
  PROVE  FirstReady \in Members(sockets) /\ end[FirstReady.fd] \in Ends
<1>1. sockets \in Seq(Entries)
  BY DEF Inv, TypeOK, Entries
<1> QED BY <1>1, FirstIsReady DEF HasEnd, Inv, PairInv

(* A listed socket has a descriptor.                                       *)
LEMMA ListedIs ==
  ASSUME Inv, NEW x \in Members(sockets)
  PROVE  x \in Entries /\ x.fd \in Fds
<1>1. sockets \in Seq(Entries)
  BY DEF Inv, TypeOK, Entries
<1>2. x \in Entries
  BY <1>1 DEF Members
<1> QED BY <1>2 DEF Entries

(* A packet whose socket has a peer goes to the other end of its           *)
(* connection.                                                             *)
LEMMA TargetIsEnd ==
  ASSUME Inv, HasPeer
  PROVE  Target \in Ends /\ pkt \in [sock : Fds, data : Message]
<1>1. PICK y \in Members(sockets) : y.fd = SocketFind(pkt.sock).peer
  BY FdsAre DEF HasPeer
<1>2. Target \in Ends
  BY <1>1 DEF Target, HasEnd, Inv, PairInv
<1>3. PICK x \in Members(sockets) : x.fd = pkt.sock
  BY FdsAre DEF HasPeer
<1>5. pkt.sock # None
  BY <1>3, ListedIs, FdsAreNumbers
<1>6. pkt \in [sock : Fds, data : Message]
  BY <1>5 DEF Inv, TypeOK, NoPacket
<1> QED BY <1>2, <1>6

(* The test of Shutdown touches no socket.                                 *)
LEMMA LoopTestKeeps == ASSUME Inv, LoopTest, UNCHANGED limit PROVE Inv'
<1>1. pc = "test" /\ UNCHANGED <<end, pkt, joining, Shutdown, netVars>>
  BY DEF LoopTest
<1>2. CASE Shutdown
  <2>1. pc' = "exited" /\ sockets' = <<>> /\ open' = {}
    BY <1>2 DEF LoopTest
  <2>2. PairInv'
    BY <1>1, <2>1, EmptyPairs, OpenIsListed
  <2> QED BY <1>1, <2>1, <2>2 DEF Inv, TypeOK, netVars
<1>3. CASE ~ Shutdown
  <2>1. pc' = "select" /\ UNCHANGED <<sockets, open>>
    BY <1>3 DEF LoopTest
  <2> QED BY <1>1, <2>1, SamePairs DEF Inv, TypeOK, netVars
<1> QED BY <1>2, <1>3

(* accept() opens one descriptor, for the LAN end, and lists nothing yet.  *)
LEMMA AcceptKeeps == ASSUME Inv, Accept, UNCHANGED limit PROVE Inv'
<1>1. /\ PairInv' /\ open' \subseteq 1 .. limit /\ end' \in [Fds -> Ends \cup {NoEnd}]
      /\ joining' = NoJoining \/ joining' \in [lan : Fds, wan : Fds]
  BY AcceptPairs
<1>2. /\ pc' \in {"test", "connect"} /\ backlog # <<>>
      /\ backlog' = backlog \/ backlog' = Tail(backlog)
      /\ UNCHANGED <<sockets, pkt, Shutdown, link, sent, inbox, to, read>>
  BY DEF Accept
<1>3. backlog' \in Seq(Conns)
  <2>1. backlog \in Seq(Conns)
    BY DEF Inv, TypeOK
  <2> QED BY <1>2, <2>1
<1> QED BY <1>1, <1>2, <1>3 DEF Inv, TypeOK

(* connect() completes the pair: both sockets are listed and name each     *)
(* other.                                                                  *)
LEMMA ConnectedKeeps == ASSUME Inv, Connected, UNCHANGED limit PROVE Inv'
<1>1. PairInv' /\ sockets' \in Seq(Entries)
  BY ConnectedPairs
<1>2. /\ pc' = "test" /\ joining' = NoJoining /\ link' \in [Ends -> Links]
      /\ UNCHANGED <<open, end, pkt, Shutdown, backlog, sent, inbox, to, read>>
  BY DEF Connected, Inv, TypeOK, Links
<1> QED BY <1>1, <1>2 DEF Inv, TypeOK, Entries

(* connect() failed: the pair was not listed, so the list stays as it was. *)
LEMMA NotConnectedKeeps == ASSUME Inv, NotConnected, UNCHANGED limit PROVE Inv'
<1>1. /\ pc = "connect" /\ pc' = "test" /\ joining' = NoJoining
      /\ open' = open \ {joining.lan, joining.wan}
      /\ UNCHANGED <<sockets, end, pkt, Shutdown, netVars>>
  BY DEF NotConnected
<1>2. /\ {joining.lan, joining.wan} \cap FdsOf(sockets) = {}
      /\ open = FdsOf(sockets) \cup ({joining.lan, joining.wan} \ {None})
  BY <1>1 DEF Inv, PairInv, JoiningIsNew, PeersPaired
<1>3. open' = FdsOf(sockets) /\ {joining'.lan, joining'.wan} \ {None} = {}
  BY <1>1, <1>2 DEF NoJoining
<1>4. PairInv'
  <2>1. open' = FdsOf(sockets') \cup ({joining'.lan, joining'.wan} \ {None})
    BY <1>1, <1>3
  <2>2. PeersPaired'
    BY <1>1, <2>1 DEF PeersPaired, Inv, PairInv
  <2> QED BY <1>1, <2>2 DEF Inv, PairInv, HasEnd, Members, JoiningIsNew
<1>5. open' \subseteq 1 .. limit
  BY <1>1 DEF Inv, TypeOK
<1> QED BY <1>1, <1>4, <1>5 DEF Inv, TypeOK, netVars

(* recv() takes data from a listed socket into the hand.                   *)
LEMMA ReceiveKeeps == ASSUME Inv, Receive, UNCHANGED limit PROVE Inv'
<1> DEFINE e == end[FirstReady.fd]
<1>1. /\ pc = "select" /\ pc' = "send" /\ Ready /\ inbox[e] # <<>>
      /\ pkt' = [sock |-> FirstReady.fd, data |-> Head(inbox[e])]
      /\ inbox' = [inbox EXCEPT ![e] = Tail(@)]
      /\ UNCHANGED <<sockets, open, end, joining, Shutdown, backlog, link, sent, to, read>>
  BY DEF Receive
<1>2. e \in Ends /\ FirstReady \in Members(sockets)
  BY <1>1, ReadyEnd
<1>3. FirstReady.fd \in Fds
  BY <1>2, ListedIs
<1> HIDE DEF e
<1>4. inbox[e] \in Seq(Message)
  BY <1>2 DEF Inv, TypeOK
<1>5. Head(inbox[e]) \in Message /\ Tail(inbox[e]) \in Seq(Message)
  BY <1>1, <1>4
<1>6. pkt' \in [sock : Fds, data : Message]
  BY <1>1, <1>3, <1>5
<1>7. inbox' \in [Ends -> Seq(Message)]
  BY <1>1, <1>5 DEF Inv, TypeOK
<1>8. PairInv'
  BY <1>1, SamePairs DEF Inv
<1> QED BY <1>1, <1>6, <1>7, <1>8 DEF Inv, TypeOK

(* A recv() of nothing closes the pair.                                    *)
LEMMA EndOfStreamKeeps == ASSUME Inv, EndOfStream, UNCHANGED limit PROVE Inv'
<1>1. /\ pc = "select" /\ pc' = "test" /\ Ready /\ Unlink(TcpClose(FirstReady))
      /\ UNCHANGED <<end, pkt, joining, Shutdown, netVars>>
  BY DEF EndOfStream
<1>2. PairInv' /\ sockets' \in Seq(Entries) /\ open' \subseteq open
  BY <1>1, ReadyEnd, CloseKeeps
<1> QED BY <1>1, <1>2 DEF Inv, TypeOK, Entries, netVars

(* send() moves what is in hand to the peer.                               *)
LEMMA SendKeeps == ASSUME Inv, Send, UNCHANGED limit PROVE Inv'
<1>1. /\ pc = "send" /\ pc' = "test" /\ pkt' = NoPacket
      /\ to' = IF HasPeer THEN [to EXCEPT ![Target] = Append(@, pkt.data)] ELSE to
      /\ UNCHANGED <<sockets, open, end, joining, Shutdown, backlog, link, sent, inbox, read>>
  BY DEF Send
<1>2. to' \in [Ends -> Seq(Message)]
  <2>1. CASE ~ HasPeer
    BY <1>1, <2>1 DEF Inv, TypeOK
  <2>2. CASE HasPeer
    <3>1. Target \in Ends /\ pkt.data \in Message
      BY <2>2, TargetIsEnd
    <3>2. Append(to[Target], pkt.data) \in Seq(Message)
      BY <3>1 DEF Inv, TypeOK
    <3> QED BY <1>1, <2>2, <3>1, <3>2 DEF Inv, TypeOK
  <2> QED BY <2>1, <2>2
<1>3. PairInv'
  BY <1>1, SamePairs DEF Inv
<1> QED BY <1>1, <1>2, <1>3 DEF Inv, TypeOK

(* recvmsg() and send() that fail, and a send() nobody answers.            *)
LEMMA LostKeeps ==
  ASSUME Inv, ReceiveFails \/ SendToGone \/ SendFails, UNCHANGED limit
  PROVE  Inv'
<1>1. /\ pc # "connect" /\ pc' = "test" /\ (pkt' = pkt \/ pkt' = NoPacket)
      /\ UNCHANGED <<sockets, open, end, joining, Shutdown, backlog, sent, inbox, to, read>>
  BY DEF ReceiveFails, SendToGone, SendFails
<1>2. link' \in [Ends -> Links]
  BY DEF ReceiveFails, SendToGone, SendFails, Inv, TypeOK, Links
<1>3. PairInv'
  BY <1>1, SamePairs DEF Inv
<1> QED BY <1>1, <1>2, <1>3 DEF Inv, TypeOK

(* SIGPIPE ends the process and with it every connection.                  *)
LEMMA SendKillsKeeps == ASSUME Inv, SendKills, UNCHANGED limit PROVE Inv'
<1>1. /\ pc = "send" /\ pc' = "killed" /\ open' = {} /\ sockets' = <<>> /\ pkt' = NoPacket
      /\ UNCHANGED <<end, joining, Shutdown, netVars>>
  BY DEF SendKills
<1>2. PairInv'
  BY <1>1, EmptyPairs, OpenIsListed
<1> QED BY <1>1, <1>2 DEF Inv, TypeOK, netVars

(* What the two ends and the kernel do leaves the list alone.              *)
LEMMA OutsideKeeps == ASSUME Inv, Environment PROVE Inv'
<1>1. UNCHANGED <<limit, sockets, open, end, pkt, joining>>
  BY DEF Environment, Signal, ClientConnects, EndSends, StartsOver, Reads, EndReads, EndChanges,
         procVars
<1>2. pc' = pc \/ (pc = "select" /\ pc' = "test")
  BY DEF Environment, Signal, ClientConnects, EndSends, StartsOver, Reads, EndReads, EndChanges,
         procVars
<1>3. PairInv'
  BY <1>1, <1>2, SamePairs DEF Inv
<1>4. Shutdown' \in BOOLEAN /\ to' \in [Ends -> Seq(Message)]
  <2>1. ASSUME NEW e \in Ends, StartsOver(e)
        PROVE  UNCHANGED Shutdown /\ to' \in [Ends -> Seq(Message)]
    <3>1. to' = [to EXCEPT ![Other(e)] = <<>>] /\ UNCHANGED Shutdown
      BY <2>1 DEF StartsOver
    <3>2. to \in [Ends -> Seq(Message)] /\ <<>> \in Seq(Message)
      BY DEF Inv, TypeOK
    <3> QED BY <3>1, <3>2
  <2>2. CASE \E e \in Ends : StartsOver(e)
    BY <2>1, <2>2 DEF Inv, TypeOK
  <2>3. CASE ~ \E e \in Ends : StartsOver(e)
    BY <2>3 DEF Environment, Signal, ClientConnects, EndSends, Reads, EndReads, EndChanges, netVars,
         Inv, TypeOK
  <2> QED BY <2>2, <2>3
<1>5. /\ backlog' \in Seq(Conns) /\ link' \in [Ends -> Links] /\ sent' \in [Ends -> 0 .. MaxSent]
      /\ inbox' \in [Ends -> Seq(Message)] /\ read' \in [Ends -> Nat]
  <2>1. CASE \E c \in Conns : ClientConnects(c)
    <3>1. backlog \in Seq(Conns) /\ link \in [Ends -> Links] /\ "up" \in Links
      BY DEF Inv, TypeOK, Links
    <3>2. PICK c \in Conns : ClientConnects(c)
      BY <2>1
    <3>3. Append(backlog, c) \in Seq(Conns)
      BY <3>1
    <3>4. [link EXCEPT ![<<c, "lan">>] = "up"] \in [Ends -> Links]
      BY <3>1
    <3>5. backlog' \in Seq(Conns) /\ link' \in [Ends -> Links]
      BY <3>2, <3>3, <3>4 DEF ClientConnects
    <3> QED BY <3>2, <3>5 DEF ClientConnects, Inv, TypeOK
  <2>2. ASSUME NEW e \in Ends, EndSends(e)
        PROVE  sent' \in [Ends -> 0 .. MaxSent] /\ inbox' \in [Ends -> Seq(Message)]
               /\ UNCHANGED <<backlog, link, read>>
    <3>1. sent[e] \in 0 .. MaxSent /\ sent[e] < MaxSent /\ MaxSent \in Nat
      BY <2>2, SizeAssumption DEF EndSends, Inv, TypeOK
    <3>2. sent[e] + 1 \in 0 .. MaxSent /\ [from |-> e, n |-> sent[e] + 1] \in Message
      BY <3>1 DEF Message
    <3>3. Append(inbox[e], [from |-> e, n |-> sent[e] + 1]) \in Seq(Message)
      BY <3>2 DEF Inv, TypeOK
    <3> QED BY <2>2, <3>2, <3>3 DEF EndSends, Inv, TypeOK
  <2>3. CASE \E e \in Ends : EndSends(e)
    BY <2>2, <2>3 DEF Inv, TypeOK
  <2>4. CASE \E e \in Ends : EndChanges(e)
    BY <2>4 DEF EndChanges, Inv, TypeOK, Links
  <2>5. CASE \E e \in Ends : Reads(e)
    BY <2>5 DEF Reads, EndReads, Inv, TypeOK
  <2>6. CASE Signal
    BY <2>6 DEF Signal, netVars, Inv, TypeOK
  <2>7. ASSUME NEW e \in Ends, StartsOver(e)
        PROVE  sent' \in [Ends -> 0 .. MaxSent] /\ read' \in [Ends -> Nat]
               /\ UNCHANGED <<backlog, link, inbox>>
    <3>1. sent' = [sent EXCEPT ![e] = 0] /\ read' = [read EXCEPT ![Other(e)] = 0]
      BY <2>7 DEF StartsOver
    <3>2. 0 \in 0 .. MaxSent /\ 0 \in Nat
      BY SizeAssumption
    <3>3. sent \in [Ends -> 0 .. MaxSent] /\ read \in [Ends -> Nat]
      BY DEF Inv, TypeOK
    <3> QED BY <2>7, <3>1, <3>2, <3>3 DEF StartsOver
  <2>8. CASE \E e \in Ends : StartsOver(e)
    BY <2>7, <2>8 DEF Inv, TypeOK
  <2> QED BY <2>1, <2>3, <2>4, <2>5, <2>6, <2>8 DEF Environment
<1> QED BY <1>1, <1>2, <1>3, <1>4, <1>5 DEF Inv, TypeOK

(* Every step keeps the sockets paired.                                    *)
LEMMA InvNext == Inv /\ [Next]_vars => Inv'
<1> SUFFICES ASSUME Inv, [Next]_vars PROVE Inv'
  OBVIOUS
<1>1. CASE Proxy
  <2>1. CASE SelectTimeout
    <3>1. PairInv'
      BY <2>1, SamePairs DEF SelectTimeout, Inv
    <3> QED BY <1>1, <2>1, <3>1 DEF Proxy, SelectTimeout, netVars, Inv, TypeOK
  <2> QED BY <1>1, <2>1, LoopTestKeeps, AcceptKeeps, ConnectedKeeps, NotConnectedKeeps,
             ReceiveKeeps, EndOfStreamKeeps, SendKeeps, LostKeeps, SendKillsKeeps DEF Proxy
<1>2. CASE Environment
  BY <1>2, OutsideKeeps
<1>3. CASE UNCHANGED vars
  <2>1. PairInv'
    BY <1>3, SamePairs DEF vars, procVars, Inv
  <2> QED BY <1>3, <2>1 DEF vars, procVars, netVars, Inv, TypeOK
<1> QED BY <1>1, <1>2, <1>3 DEF Next

(* No connection is there when the loop begins.                            *)
LEMMA InvInit == Init => Inv
<1> SUFFICES ASSUME Init PROVE Inv
  OBVIOUS
<1>1. DOMAIN sockets = {} /\ FdsOf(sockets) = {} /\ Members(sockets) = {}
  BY DEF Init, FdsOf, Members
<1>2. {joining.lan, joining.wan} \ {None} = {}
  BY NothingJoining DEF Init
<1>3. PairInv
  BY <1>1, <1>2 DEF Init, PairInv, PeersPaired, HasEnd, JoiningIsNew
<1>4. open \subseteq 1 .. limit /\ 0 \in 0 .. MaxSent /\ "idle" \in Links
  BY SizeAssumption DEF Init, Links
<1>5. /\ sockets \in Seq([fd : Fds, peer : Fds]) /\ backlog \in Seq(Conns)
      /\ inbox \in [Ends -> Seq(Message)] /\ to \in [Ends -> Seq(Message)]
  BY DEF Init
<1>6. /\ end \in [Fds -> Ends \cup {NoEnd}] /\ link \in [Ends -> Links]
      /\ sent \in [Ends -> 0 .. MaxSent] /\ read \in [Ends -> Nat]
  BY <1>4 DEF Init
<1>7. TypeOK
  BY <1>4, <1>5, <1>6 DEF Init, TypeOK
<1> QED BY <1>3, <1>7 DEF Inv

(* So the sockets are paired at any time.                                  *)
LEMMA InvAlways == Spec => []Inv
BY InvInit, InvNext, PTL DEF Spec

(* The list, the descriptors, the packet in hand and what the ends sent    *)
(* stay well typed through every run of the relay loop.                    *)
THEOREM TypeCorrect == Spec => []TypeOK
<1>1. Inv => TypeOK
  BY DEF Inv
<1> QED BY <1>1, InvAlways, PTL

(* sock_tcp_accept and handle_tcp_close keep the two sockets of every      *)
(* connection together, whatever descriptors the kernel hands out again.   *)
THEOREM PeersAlwaysPaired == Spec => []PeersPaired
<1>1. Inv => PeersPaired
  BY DEF Inv, PairInv
<1> QED BY <1>1, InvAlways, PTL

(* No connection is closed on account of another one.                      *)
THEOREM OthersAlwaysSurvive == Spec => OthersSurvive
<1>1. ASSUME Inv, [Next]_vars, NEW f \in open \ open'
      PROVE  \/ Shutdown \/ pc = "connect" \/ pc' = "killed"
             \/ \E e \in {end[f], Other(end[f])} :
                   link[e] \in {"fin", "gone", "broken"} /\ inbox[e] = <<>>
  <2>1. CASE LoopTest \/ NotConnected \/ SendKills
    BY <1>1, <2>1 DEF LoopTest, NotConnected, SendKills
  <2>2. CASE EndOfStream
    <3>1. /\ pc = "select" /\ pc' = "test" /\ Ready /\ Unlink(TcpClose(FirstReady))
          /\ UNCHANGED <<end, joining>>
      BY <2>2 DEF EndOfStream
    <3>2. /\ link[end[FirstReady.fd]] \in {"fin", "gone", "broken"}
          /\ inbox[end[FirstReady.fd]] = <<>>
      BY <2>2 DEF EndOfStream
    <3>3. f \in {FirstReady.fd, FirstReady.peer} /\ end[FirstReady.fd] \in Ends
          /\ end[FirstReady.peer] = Other(end[FirstReady.fd])
      BY <1>1, <3>1, ReadyEnd, CloseKeeps
    <3>4. end[FirstReady.fd] \in {end[f], Other(end[f])}
      BY <3>3, OtherEnd
    <3> QED BY <3>2, <3>4
  <2>3. CASE ~ (LoopTest \/ NotConnected \/ SendKills \/ EndOfStream)
    <3>1. open \subseteq open'
      BY <1>1, <2>3 DEF Next, Proxy, Environment, SelectTimeout, Accept, Connected, Receive,
         ReceiveFails, Send, SendToGone, SendFails, Signal, ClientConnects, EndSends,
         StartsOver, Reads, EndReads, EndChanges, procVars, vars
    <3> QED BY <1>1, <3>1
  <2> QED BY <2>1, <2>2, <2>3
<1>2. Inv /\ [Next]_vars =>
        [\A f \in open \ open' :
           \/ Shutdown \/ pc = "connect" \/ pc' = "killed"
           \/ \E e \in {end[f], Other(end[f])} :
                 link[e] \in {"fin", "gone", "broken"} /\ inbox[e] = <<>>]_vars
  BY <1>1
<1> QED BY <1>2, InvAlways, PTL DEF Spec, OthersSurvive

-----------------------------------------------------------------------------
(* What goes from end to end.  Of the messages an end sent, the last wait  *)
(* to be received, the one before may be in hand, and the others are with  *)
(* the other end; of an end that nothing can reach, only the order is      *)
(* known.  A connection in the backlog, or being connected, is new.        *)
Idle(c) == link[<<c, "wan">>] = "idle"
InHand(e) == IF pc = "send" /\ end[pkt.sock] = e THEN 1 ELSE 0
InBacklog(c) == \E i \in DOMAIN backlog : backlog[i] = c

InboxInOrder ==
  \A e \in Ends :
     /\ Len(inbox[e]) <= sent[e]
     /\ \A i \in DOMAIN inbox[e] :
           inbox[e][i] = [from |-> e, n |-> sent[e] - Len(inbox[e]) + i]

HandIsNext ==
  pc = "send" =>
     /\ pkt.sock \in FdsOf(sockets)
     /\ pkt.data = [from |-> end[pkt.sock],
                    n |-> sent[end[pkt.sock]] - Len(inbox[end[pkt.sock]])]

NoGap ==
  \A e \in Ends :
     ~ Idle(e[1]) /\ link[Other(e)] \in {"up", "fin"} =>
        Len(to[Other(e)]) + InHand(e) = sent[e] - Len(inbox[e])

NewIsEmpty ==
  \A e \in Ends : Idle(e[1]) => to[e] = <<>> /\ Len(inbox[e]) = sent[e]

ConnectsOnce ==
  /\ \A i, j \in DOMAIN backlog : backlog[i] = backlog[j] => i = j
  /\ \A c \in Conns : InBacklog(c) => Idle(c)
  /\ \A c \in Conns : link[<<c, "lan">>] = "idle" => Idle(c) /\ ~ InBacklog(c)
  /\ pc = "connect" =>
       \A c \in Conns : end[joining.wan] = <<c, "wan">> =>
          Idle(c) /\ ~ InBacklog(c) /\ link[<<c, "lan">>] # "idle"

ListedConnected == \A x \in Members(sockets) : ~ Idle(end[x.fd][1])

StreamInv ==
  /\ NoCrosstalk /\ InboxInOrder /\ HandIsNext /\ NoGap
  /\ NewIsEmpty /\ ConnectsOnce /\ ListedConnected

(* An end is the LAN or the WAN side of a connection, and its other end is *)
(* the other side.                                                         *)
LEMMA EndIs ==
  ASSUME NEW e \in Ends
  PROVE  /\ e[1] \in Conns /\ Other(e) \in Ends /\ Other(Other(e)) = e /\ Other(e) # e
         /\ Other(e)[1] = e[1]
         /\ e = <<e[1], "lan">> \/ e = <<e[1], "wan">>
         /\ <<e[1], "lan">> \in Ends /\ <<e[1], "wan">> \in Ends
BY DEF Ends, Other

(* Nothing is sent, received or forwarded; links only get worse.           *)
LEMMA StillStream ==
  ASSUME Inv, StreamInv, UNCHANGED <<end, backlog, sent, inbox, to>>,
         \A e \in Ends : /\ link'[e] = "idle" <=> link[e] = "idle"
                         /\ link'[e] \in {"up", "fin"} => link[e] \in {"up", "fin"},
         Members(sockets') \subseteq Members(sockets),
         pc' = "connect" => pc = "connect" /\ UNCHANGED joining,
         \/ pc # "send" /\ pc' # "send"
         \/ UNCHANGED <<pc, pkt, sockets>>
         \/ pc' # "send" /\ link'[Other(end[pkt.sock])] \notin {"up", "fin"}
  PROVE  StreamInv'
<1>1. \A c \in Conns : Idle(c)' <=> Idle(c)
  <2> SUFFICES ASSUME NEW c \in Conns PROVE Idle(c)' <=> Idle(c)
    OBVIOUS
  <2> QED BY OtherEnd DEF Idle
<1>2. NoCrosstalk' /\ InboxInOrder'
  BY DEF StreamInv, NoCrosstalk, InboxInOrder
<1>3. HandIsNext'
  BY DEF StreamInv, HandIsNext
<1>4. NoGap'
  <2> SUFFICES ASSUME NEW e \in Ends, ~ Idle(e[1])', link'[Other(e)] \in {"up", "fin"}
               PROVE  Len(to[Other(e)]) + InHand(e)' = sent[e] - Len(inbox[e])
    BY DEF NoGap
  <2>1. Len(to[Other(e)]) + InHand(e) = sent[e] - Len(inbox[e])
    BY <1>1, EndIs DEF StreamInv, NoGap
  <2>2. InHand(e)' = InHand(e)
    BY DEF InHand
  <2> QED BY <2>1, <2>2
<1>5. NewIsEmpty'
  BY <1>1, EndIs DEF StreamInv, NewIsEmpty
<1>6. ConnectsOnce'
  BY <1>1, OtherEnd DEF StreamInv, ConnectsOnce, InBacklog
<1>7. ListedConnected'
  <2> SUFFICES ASSUME NEW x \in Members(sockets) PROVE ~ Idle(end[x.fd][1])'
    BY DEF ListedConnected
  <2>1. end[x.fd][1] \in Conns
    BY EndIs DEF Inv, PairInv, HasEnd
  <2> QED BY <1>1, <2>1 DEF StreamInv, ListedConnected
<1> QED BY <1>2, <1>3, <1>4, <1>5, <1>6, <1>7 DEF StreamInv

(* The steps of the thread and of the ends of which that is all.           *)
LEMMA QuietSteps ==
  ASSUME Inv, StreamInv,
         \/ LoopTest \/ SelectTimeout \/ NotConnected \/ ReceiveFails
         \/ EndOfStream \/ Signal \/ (\E e \in Ends : Reads(e) \/ EndChanges(e))
         \/ UNCHANGED vars
  PROVE  StreamInv'
<1>1. UNCHANGED <<end, backlog, sent, inbox, to>>
  BY DEF LoopTest, SelectTimeout, NotConnected, ReceiveFails, EndOfStream, Signal, Reads,
         EndReads, EndChanges, procVars, netVars, vars
<1>2. \A e \in Ends : /\ link'[e] = "idle" <=> link[e] = "idle"
                      /\ link'[e] \in {"up", "fin"} => link[e] \in {"up", "fin"}
  <2>1. CASE UNCHANGED link
    BY <2>1
  <2>2. CASE ReceiveFails
    BY <2>2 DEF ReceiveFails, Inv, TypeOK
  <2>3. CASE \E e \in Ends : EndChanges(e)
    BY <2>3 DEF EndChanges, Inv, TypeOK
  <2> QED BY <2>1, <2>2, <2>3 DEF LoopTest, SelectTimeout, NotConnected, EndOfStream, Signal,
             Reads, EndReads, netVars, vars
<1>3. Members(sockets') \subseteq Members(sockets)
  <2>1. CASE EndOfStream
    <3>1. sockets' = TcpClose(FirstReady)
      BY <2>1 DEF EndOfStream, Unlink
    <3>2. sockets \in Seq(Entries) /\ Distinct(sockets)
      BY PairedIs DEF Inv, PairInv, TypeOK, Entries
    <3> DEFINE half == SocketDel(sockets, FirstReady.fd)
    <3>3. half \in Seq(Entries) /\ Distinct(half) /\ Members(half) \subseteq Members(sockets)
      BY <3>2, SocketDelFacts
    <3>4. sockets' = SocketDel(half, FirstReady.peer)
      BY <3>1 DEF TcpClose
    <3> HIDE DEF half
    <3>5. Members(sockets') \subseteq Members(half)
      BY <3>3, <3>4, SocketDelFacts
    <3> QED BY <3>3, <3>5
  <2>2. CASE UNCHANGED sockets
    BY <2>2
  <2>3. CASE LoopTest
    <3>1. sockets' = <<>> \/ UNCHANGED sockets
      BY <2>3 DEF LoopTest
    <3> QED BY <3>1 DEF Members
  <2> QED BY <2>1, <2>2, <2>3 DEF SelectTimeout, NotConnected, ReceiveFails, Signal,
             Reads, EndReads, EndChanges, procVars, vars
<1>4. pc' = "connect" => pc = "connect" /\ UNCHANGED joining
  BY DEF LoopTest, SelectTimeout, NotConnected, ReceiveFails, EndOfStream, Signal, Reads,
         EndReads, EndChanges, procVars, vars
<1>5. (pc # "send" /\ pc' # "send") \/ UNCHANGED <<pc, pkt, sockets>>
  BY DEF LoopTest, SelectTimeout, NotConnected, ReceiveFails, EndOfStream, Signal, Reads,
         EndReads, EndChanges, procVars, vars
<1> QED BY <1>1, <1>2, <1>3, <1>4, <1>5, StillStream

(* What is in hand comes from a listed socket, its target is the other end.*)
LEMMA HandGoesToPeer ==
  ASSUME Inv, StreamInv, pc = "send"
  PROVE  /\ HasPeer /\ end[pkt.sock] \in Ends /\ Target = Other(end[pkt.sock])
         /\ ~ Idle(end[pkt.sock][1])
<1>1. sockets \in Seq(Entries) /\ Distinct(sockets) /\ Paired(sockets)
  BY PairedIs DEF Inv, PairInv, TypeOK, Entries
<1>2. PICK x \in Members(sockets) : x.fd = pkt.sock
  BY FdsAre DEF StreamInv, HandIsNext
<1>3. SocketFind(pkt.sock) = x
  <2> DEFINE I == {i \in 1 .. Len(sockets) : sockets[i].fd = pkt.sock}
  <2>1. I # {} /\ I \in SUBSET (1 .. Len(sockets)) /\ Len(sockets) \in Nat
    BY <1>1, <1>2 DEF Members
  <2>2. Min(I) \in I
    BY <2>1, FirstExists
  <2>3. SocketFind(pkt.sock) = sockets[Min(I)]
    BY <2>1 DEF SocketFind, SelectInSeq
  <2>4. Min(I) \in DOMAIN sockets /\ sockets[Min(I)].fd = pkt.sock
    BY <2>2
  <2> HIDE DEF I
  <2> QED BY <1>1, <1>2, <2>3, <2>4 DEF Members, Distinct
<1>4. PICK y \in Members(sockets) : y.fd = x.peer /\ end[y.fd] = Other(end[x.fd])
  BY <1>1 DEF Paired
<1>5. HasPeer /\ Target = Other(end[pkt.sock])
  BY <1>2, <1>3, <1>4, FdsAre DEF HasPeer, Target
<1> QED BY <1>2, <1>5 DEF Inv, PairInv, HasEnd, StreamInv, ListedConnected

(* A message that is lost was for an end that nothing reaches any more.    *)
LEMMA LostSteps ==
  ASSUME Inv, StreamInv, SendToGone \/ SendFails \/ SendKills
  PROVE  StreamInv'
<1>1. /\ pc = "send" /\ pc' \in {"test", "killed"}
      /\ UNCHANGED <<end, joining, backlog, sent, inbox, to>>
      /\ sockets' = sockets \/ sockets' = <<>>
  BY DEF SendToGone, SendFails, SendKills, netVars
<1>2. Target \in Ends /\ Target = Other(end[pkt.sock]) /\ link \in [Ends -> Links]
  BY <1>1, HandGoesToPeer, EndIs DEF Inv, TypeOK
<1>3. /\ \A e \in Ends : /\ link'[e] = "idle" <=> link[e] = "idle"
                         /\ link'[e] \in {"up", "fin"} => link[e] \in {"up", "fin"}
      /\ link'[Target] \notin {"up", "fin"}
  BY <1>2 DEF SendToGone, SendFails, SendKills, netVars
<1>4. Members(sockets') \subseteq Members(sockets)
  BY <1>1 DEF Members
<1> QED BY <1>1, <1>2, <1>3, <1>4, StillStream

(* accept() takes a new connection, in which nothing has been sent.        *)
LEMMA AcceptStream ==
  ASSUME Inv, StreamInv, Accept
  PROVE  StreamInv'
<1>1. /\ pc = "select" /\ pc' \in {"test", "connect"} /\ backlog # <<>>
      /\ UNCHANGED <<sockets, pkt, link, sent, inbox, to>>
      /\ open = FdsOf(sockets)
  BY OpenIsListed DEF Accept
<1>2. \/ pc' = "test" /\ UNCHANGED end /\ backlog' \in {backlog, Tail(backlog)}
      \/ /\ pc' = "connect" /\ backlog' = Tail(backlog)
         /\ Free # {} /\ Free \ {LowestOf(Free)} # {}
         /\ joining' = [lan |-> LowestOf(Free), wan |-> LowestOf(Free \ {LowestOf(Free)})]
         /\ end' = [end EXCEPT ![LowestOf(Free)] = <<Head(backlog), "lan">>,
                               ![LowestOf(Free \ {LowestOf(Free)})] = <<Head(backlog), "wan">>]
  BY DEF Accept
<1>3. \A x \in Members(sockets) : end'[x.fd] = end[x.fd]
  <2>1. CASE UNCHANGED end
    BY <2>1
  <2>2. CASE Free # {} /\ Free \ {LowestOf(Free)} # {}
    <3>1. LowestOf(Free) \notin open
      BY <2>2, FreeIsThere DEF Inv
    <3> DEFINE others == Free \ {LowestOf(Free)}
    <3>2. others \in SUBSET Free /\ others # {}
      BY <2>2
    <3>3. LowestOf(others) \notin open
      BY <3>2, FreeIsThere DEF Inv
    <3>4. \A x \in Members(sockets) : x.fd \in open /\ x.fd \in Fds
      BY <1>1, FdsAre, ListedIs
    <3> QED BY <1>2, <3>1, <3>3, <3>4 DEF Inv, TypeOK
  <2> QED BY <1>2, <2>1, <2>2
<1>4. NoCrosstalk' /\ InboxInOrder' /\ HandIsNext' /\ NewIsEmpty'
  BY <1>1 DEF StreamInv, NoCrosstalk, InboxInOrder, HandIsNext, NewIsEmpty, Idle
<1>5. NoGap'
  BY <1>1 DEF StreamInv, NoGap, Idle, InHand
<1>6. ListedConnected'
  BY <1>1, <1>3 DEF StreamInv, ListedConnected, Idle
<1>7. /\ backlog \in Seq(Conns) /\ Head(backlog) \in Conns /\ Head(backlog) = backlog[1]
      /\ 1 \in DOMAIN backlog
      /\ \A i \in DOMAIN Tail(backlog) : /\ i + 1 \in DOMAIN backlog
                                         /\ Tail(backlog)[i] = backlog[i + 1]
  <2>1. backlog \in Seq(Conns)
    BY DEF Inv, TypeOK
  <2> QED BY <1>1, <2>1
<1>8. /\ \A i, j \in DOMAIN backlog' : backlog'[i] = backlog'[j] => i = j
      /\ \A c \in Conns : InBacklog(c)' => InBacklog(c)
      /\ pc' = "connect" => \A i \in DOMAIN backlog' : backlog'[i] # Head(backlog)
  <2>1. CASE backlog' = backlog
    BY <1>2, <1>7, <2>1 DEF StreamInv, ConnectsOnce, InBacklog
  <2>2. CASE backlog' = Tail(backlog)
    <3>1. \A i, j \in DOMAIN Tail(backlog) : Tail(backlog)[i] = Tail(backlog)[j] => i = j
      <4> SUFFICES ASSUME NEW i \in DOMAIN Tail(backlog), NEW j \in DOMAIN Tail(backlog),
                          Tail(backlog)[i] = Tail(backlog)[j]
                   PROVE  i = j
        OBVIOUS
      <4>1. i + 1 = j + 1
        BY <1>7 DEF StreamInv, ConnectsOnce
      <4>2. i \in Int /\ j \in Int
        BY <1>1, <1>7
      <4> QED BY <4>1, <4>2
    <3>2. \A i \in DOMAIN Tail(backlog) : Tail(backlog)[i] # Head(backlog)
      <4> SUFFICES ASSUME NEW i \in DOMAIN Tail(backlog), Tail(backlog)[i] = Head(backlog)
                   PROVE  FALSE
        OBVIOUS
      <4>1. i + 1 = 1
        BY <1>7 DEF StreamInv, ConnectsOnce
      <4>2. i \in 1 .. Len(Tail(backlog))
        BY <1>1, <1>7
      <4> QED BY <4>1, <4>2
    <3>3. \A i, j \in DOMAIN backlog' : backlog'[i] = backlog'[j] => i = j
      BY <2>2, <3>1
    <3>4. ASSUME NEW c \in Conns, InBacklog(c)' PROVE InBacklog(c)
      <4>1. PICK i \in DOMAIN Tail(backlog) : Tail(backlog)[i] = c
        BY <2>2, <3>4 DEF InBacklog
      <4> QED BY <1>7, <4>1 DEF InBacklog
    <3>5. \A i \in DOMAIN backlog' : backlog'[i] # Head(backlog)
      BY <2>2, <3>2
    <3> QED BY <3>3, <3>4, <3>5
  <2> QED BY <1>2, <2>1, <2>2
<1>9. ConnectsOnce'
  <2>1. ASSUME pc' = "connect", NEW c \in Conns, end'[joining'.wan] = <<c, "wan">>
        PROVE  Idle(c)' /\ ~ InBacklog(c)' /\ link'[<<c, "lan">>] # "idle"
    <3> DEFINE wan == LowestOf(Free \ {LowestOf(Free)})
    <3>1. wan \in Fds
      <4> DEFINE others == Free \ {LowestOf(Free)}
      <4>1. others \in SUBSET Free /\ others # {}
        BY <1>2, <2>1
      <4>2. LowestOf(others) \in Fds
        BY <4>1, FreeIsThere DEF Inv
      <4> QED BY <4>2
    <3>2. joining'.wan = wan /\ end'[wan] = <<Head(backlog), "wan">>
      <4> HIDE DEF wan
      <4>1. end' = [end EXCEPT ![LowestOf(Free)] = <<Head(backlog), "lan">>,
                               ![wan] = <<Head(backlog), "wan">>]
        BY <1>2, <2>1 DEF wan
      <4> QED BY <1>2, <2>1, <3>1, <4>1 DEF Inv, TypeOK, wan
    <3>3. c = Head(backlog)
      BY <2>1, <3>2
    <3>4. InBacklog(c)
      BY <1>7, <3>3 DEF InBacklog
    <3>5. Idle(c) /\ link[<<c, "lan">>] # "idle"
      BY <3>4 DEF StreamInv, ConnectsOnce
    <3>6. ~ InBacklog(c)'
      <4>1. \A i \in DOMAIN backlog' : backlog'[i] # c
        BY <1>8, <2>1, <3>3
      <4> QED BY <4>1 DEF InBacklog
    <3>7. Idle(c)'
      BY <1>1, <3>5 DEF Idle
    <3>8. link'[<<c, "lan">>] # "idle"
      BY <1>1, <3>5
    <3> QED BY <3>6, <3>7, <3>8
  <2>2. \A c \in Conns : Idle(c)' <=> Idle(c)
    BY <1>1 DEF Idle
  <2>3. \A c \in Conns : /\ InBacklog(c)' => Idle(c)'
                         /\ link'[<<c, "lan">>] = "idle" => Idle(c)' /\ ~ InBacklog(c)'
    BY <1>1, <1>8, <2>2 DEF StreamInv, ConnectsOnce
  <2>4. ConnectsOnce' <=>
          /\ \A i, j \in DOMAIN backlog' : backlog'[i] = backlog'[j] => i = j
          /\ \A c \in Conns : InBacklog(c)' => Idle(c)'
          /\ \A c \in Conns : link'[<<c, "lan">>] = "idle" => Idle(c)' /\ ~ InBacklog(c)'
          /\ pc' = "connect" =>
               \A c \in Conns : end'[joining'.wan] = <<c, "wan">> =>
                  Idle(c)' /\ ~ InBacklog(c)' /\ link'[<<c, "lan">>] # "idle"
    BY DEF ConnectsOnce
  <2>5. pc' = "connect" =>
          \A c \in Conns : end'[joining'.wan] = <<c, "wan">> =>
             Idle(c)' /\ ~ InBacklog(c)' /\ link'[<<c, "lan">>] # "idle"
    BY <1>1, <2>1
  <2> QED BY <1>8, <2>3, <2>4, <2>5
<1> QED BY <1>4, <1>5, <1>6, <1>9 DEF StreamInv

(* A list with two sockets more has these two and those it had.            *)
LEMMA TwoInFront ==
  ASSUME NEW list \in Seq(Entries), NEW a \in Entries, NEW b \in Entries
  PROVE  Members(<<a, b>> \o list) \subseteq Members(list) \cup {a, b}
<1> DEFINE two == <<a, b>>
<1>1. two \in Seq(Entries) /\ Len(two) = 2 /\ two[1] = a /\ two[2] = b
  OBVIOUS
<1> HIDE DEF two
<1>2. /\ two \o list \in Seq(Entries) /\ Len(two \o list) = 2 + Len(list) /\ Len(list) \in Nat
      /\ \A i \in 1 .. 2 + Len(list) :
            (two \o list)[i] = IF i <= 2 THEN two[i] ELSE list[i - 2]
  <2>1. /\ two \o list \in Seq(Entries) /\ Len(two \o list) = Len(two) + Len(list)
        /\ \A i \in 1 .. Len(two) + Len(list) :
              (two \o list)[i] = IF i <= Len(two) THEN two[i] ELSE list[i - Len(two)]
    BY <1>1, ConcatProperties
  <2> QED BY <1>1, <2>1
<1>3. ASSUME NEW i \in DOMAIN (two \o list)
      PROVE  (two \o list)[i] \in Members(list) \cup {a, b}
  <2>1. i \in 1 .. 2 + Len(list)
    BY <1>2
  <2>2. CASE i <= 2
    <3>1. i = 1 \/ i = 2
      BY <2>1, <2>2
    <3> QED BY <1>1, <1>2, <2>1, <2>2, <3>1
  <2>3. CASE ~ (i <= 2)
    <3>1. i - 2 \in DOMAIN list
      BY <1>2, <2>1, <2>3
    <3>2. (two \o list)[i] = list[i - 2]
      BY <1>2, <2>1, <2>3
    <3> QED BY <3>1, <3>2 DEF Members
  <2> QED BY <2>1, <2>2, <2>3
<1> QED BY <1>3 DEF Members, two

(* connect() succeeded: nothing was sent on this connection yet.           *)
LEMMA ConnectedStream ==
  ASSUME Inv, StreamInv, Connected
  PROVE  StreamInv'
<1>1. /\ pc = "connect" /\ pc' = "test" /\ UNCHANGED <<end, backlog, sent, inbox, to>>
      /\ link' = [link EXCEPT ![end[joining.wan]] = "up"]
      /\ sockets' = <<[fd |-> joining.wan, peer |-> joining.lan],
                      [fd |-> joining.lan, peer |-> joining.wan]>> \o sockets
  BY DEF Connected
<1>2. PICK c \in Conns : end[joining.lan] = <<c, "lan">> /\ end[joining.wan] = <<c, "wan">>
  BY <1>1 DEF Inv, PairInv, JoiningIsNew
<1>3. Idle(c) /\ ~ InBacklog(c) /\ link[<<c, "lan">>] # "idle"
  BY <1>1, <1>2 DEF StreamInv, ConnectsOnce
<1>4. /\ <<c, "wan">> \in Ends /\ link'[<<c, "wan">>] = "up"
      /\ \A e \in Ends : e # <<c, "wan">> => link'[e] = link[e]
  BY <1>1, <1>2, OtherEnd DEF Inv, TypeOK
<1>5. /\ ~ Idle(c)'
      /\ \A d \in Conns : d # c => (Idle(d)' <=> Idle(d))
      /\ \A d \in Conns : link'[<<d, "lan">>] = link[<<d, "lan">>]
  <2>1. ASSUME NEW d \in Conns PROVE <<d, "lan">> # <<c, "wan">> /\ <<d, "lan">> \in Ends
                                     /\ <<d, "wan">> \in Ends
    BY OtherEnd
  <2> QED BY <1>4, <2>1 DEF Idle
<1>6. NoCrosstalk' /\ InboxInOrder' /\ HandIsNext'
  BY <1>1 DEF StreamInv, NoCrosstalk, InboxInOrder, HandIsNext
<1>7. NoGap'
  <2> SUFFICES ASSUME NEW e \in Ends, ~ Idle(e[1])', link'[Other(e)] \in {"up", "fin"}
               PROVE  Len(to[Other(e)]) + InHand(e)' = sent[e] - Len(inbox[e])
    BY <1>1 DEF NoGap
  <2>1. InHand(e) = 0 /\ InHand(e)' = 0
    BY <1>1 DEF InHand
  <2>2. CASE e[1] = c
    <3>1. to[Other(e)] = <<>> /\ Len(inbox[e]) = sent[e]
      BY <1>3, <2>2, EndIs DEF StreamInv, NewIsEmpty
    <3>2. sent[e] \in Nat
      BY DEF Inv, TypeOK
    <3> QED BY <2>1, <3>1, <3>2
  <2>3. CASE e[1] # c
    <3>1. ~ Idle(e[1]) /\ e[1] \in Conns
      BY <1>5, <2>3, EndIs
    <3>2. Other(e) # <<c, "wan">> /\ Other(e) \in Ends
      BY <2>3, EndIs
    <3>3. link[Other(e)] \in {"up", "fin"}
      BY <1>4, <3>2
    <3> QED BY <2>1, <3>1, <3>3 DEF StreamInv, NoGap
  <2> QED BY <2>2, <2>3
<1>8. NewIsEmpty'
  <2> SUFFICES ASSUME NEW e \in Ends, Idle(e[1])' PROVE to[e] = <<>> /\ Len(inbox[e]) = sent[e]
    BY <1>1 DEF NewIsEmpty
  <2>1. Idle(e[1])
    BY <1>5, EndIs
  <2> QED BY <2>1 DEF StreamInv, NewIsEmpty
<1>9. ConnectsOnce'
  <2>1. \A d \in Conns : InBacklog(d)' <=> InBacklog(d)
    BY <1>1 DEF InBacklog
  <2>2. \A d \in Conns : /\ InBacklog(d)' => Idle(d)'
                         /\ link'[<<d, "lan">>] = "idle" => Idle(d)' /\ ~ InBacklog(d)'
    BY <1>3, <1>5, <2>1 DEF StreamInv, ConnectsOnce
  <2>3. \A i, j \in DOMAIN backlog' : backlog'[i] = backlog'[j] => i = j
    BY <1>1 DEF StreamInv, ConnectsOnce
  <2> QED BY <1>1, <2>2, <2>3 DEF ConnectsOnce
<1>10. ListedConnected'
  <2> DEFINE a == [fd |-> joining.wan, peer |-> joining.lan]
             b == [fd |-> joining.lan, peer |-> joining.wan]
  <2>1. a \in Entries /\ b \in Entries /\ sockets \in Seq(Entries)
    BY <1>1 DEF Inv, PairInv, JoiningIsNew, TypeOK, Entries
  <2>2. end[a.fd][1] = c /\ end[b.fd][1] = c
    BY <1>2
  <2>3. sockets' = <<a, b>> \o sockets
    BY <1>1
  <2> HIDE DEF a, b
  <2>4. Members(sockets') \subseteq Members(sockets) \cup {a, b}
    BY <2>1, <2>3, TwoInFront
  <2>5. ASSUME NEW x \in Members(sockets')
        PROVE  \E d \in Conns : d = end[x.fd][1] /\ ~ Idle(d)'
    <3>1. CASE x \in {a, b}
      BY <1>5, <2>2, <3>1
    <3>2. CASE x \in Members(sockets)
      <4>1. end[x.fd][1] \in Conns /\ ~ Idle(end[x.fd][1])
        BY <3>2, EndIs DEF Inv, PairInv, HasEnd, StreamInv, ListedConnected
      <4> QED BY <1>5, <4>1
    <3> QED BY <2>4, <2>5, <3>1, <3>2
  <2>6. \A x \in Members(sockets') : link'[<<end[x.fd][1], "wan">>] # "idle"
    BY <2>5 DEF Idle
  <2> QED BY <1>1, <2>6 DEF ListedConnected, Idle
<1> QED BY <1>6, <1>7, <1>8, <1>9, <1>10 DEF StreamInv

(* recvmsg() takes the first message that waits, into the hand.            *)
LEMMA ReceiveStream ==
  ASSUME Inv, StreamInv, Receive
  PROVE  StreamInv'
<1> DEFINE e == end[FirstReady.fd]
<1>1. /\ pc = "select" /\ pc' = "send" /\ Ready /\ inbox[e] # <<>>
      /\ pkt' = [sock |-> FirstReady.fd, data |-> Head(inbox[e])]
      /\ inbox' = [inbox EXCEPT ![e] = Tail(@)]
      /\ UNCHANGED <<sockets, end, joining, backlog, link, sent, to>>
  BY DEF Receive
<1>2. e \in Ends /\ FirstReady \in Members(sockets)
  BY <1>1, ReadyEnd
<1>3. ~ Idle(e[1]) /\ FirstReady.fd \in FdsOf(sockets)
  BY <1>2, FdsAre DEF StreamInv, ListedConnected
<1>4. pkt'.sock = FirstReady.fd /\ pkt'.data = Head(inbox[e]) /\ end'[pkt'.sock] = e
  BY <1>1
<1> HIDE DEF e
<1>5. /\ Len(inbox[e]) \in Nat /\ Len(inbox'[e]) = Len(inbox[e]) - 1
      /\ \A i \in DOMAIN inbox'[e] : /\ i \in Int /\ i + 1 \in DOMAIN inbox[e]
                                     /\ inbox'[e][i] = inbox[e][i + 1]
      /\ 1 \in DOMAIN inbox[e] /\ Head(inbox[e]) = inbox[e][1]
  <2>1. inbox[e] \in Seq(Message) /\ inbox'[e] = Tail(inbox[e])
    BY <1>1, <1>2 DEF Inv, TypeOK
  <2> QED BY <1>1, <2>1, TailFacts
<1>6. \A d \in Ends : d # e => inbox'[d] = inbox[d]
  BY <1>1 DEF Inv, TypeOK
<1>7. \A d \in Ends : sent[d] \in Nat /\ Len(inbox[d]) \in Nat
  BY DEF Inv, TypeOK
<1>8. InboxInOrder'
  <2> SUFFICES ASSUME NEW d \in Ends
               PROVE  /\ Len(inbox'[d]) <= sent[d]
                      /\ \A i \in DOMAIN inbox'[d] :
                            inbox'[d][i] = [from |-> d, n |-> sent[d] - Len(inbox'[d]) + i]
    BY <1>1 DEF InboxInOrder
  <2>1. /\ Len(inbox[d]) <= sent[d]
        /\ \A i \in DOMAIN inbox[d] : inbox[d][i] = [from |-> d, n |-> sent[d] - Len(inbox[d]) + i]
    BY DEF StreamInv, InboxInOrder
  <2>2. CASE d = e
    <3>1. Len(inbox'[d]) <= sent[d]
      BY <1>5, <1>7, <2>1, <2>2
    <3>2. ASSUME NEW i \in DOMAIN inbox'[d]
          PROVE  inbox'[d][i] = [from |-> d, n |-> sent[d] - Len(inbox'[d]) + i]
      <4>1. inbox'[d][i] = [from |-> d, n |-> sent[d] - Len(inbox[d]) + (i + 1)]
        BY <1>5, <2>1, <2>2, <3>2
      <4>2. i \in Int
        BY <1>5, <2>2, <3>2
      <4>3. sent[d] - Len(inbox[d]) + (i + 1) = sent[d] - Len(inbox'[d]) + i
        <5>1. Len(inbox'[d]) = Len(inbox[d]) - 1 /\ Len(inbox[d]) \in Nat /\ sent[d] \in Nat
          BY <1>5, <1>7, <2>2
        <5> DEFINE was == Len(inbox[d])
                   is == Len(inbox'[d])
                   all == sent[d]
        <5>2. is = was - 1 /\ was \in Int /\ all \in Int
          BY <5>1
        <5> HIDE DEF was, is, all
        <5>3. all - was + (i + 1) = all - is + i
          BY <4>2, <5>2
        <5> QED BY <5>3 DEF was, is, all
      <4> QED BY <4>1, <4>3
    <3> QED BY <3>1, <3>2
  <2>3. CASE d # e
    BY <1>6, <2>1, <2>3
  <2> QED BY <2>2, <2>3
<1>9. HandIsNext'
  <2>1. Head(inbox[e]) = [from |-> e, n |-> sent[e] - Len(inbox[e]) + 1]
    BY <1>2, <1>5 DEF StreamInv, InboxInOrder
  <2>2. sent[e] - Len(inbox[e]) + 1 = sent'[e] - Len(inbox'[e])
    BY <1>1, <1>2, <1>5, <1>7
  <2>3. pkt'.data = [from |-> end'[pkt'.sock], n |-> sent'[e] - Len(inbox'[e])]
    BY <1>4, <2>1, <2>2
  <2>4. pkt'.sock \in FdsOf(sockets')
    BY <1>1, <1>3, <1>4
  <2> QED BY <1>4, <2>3, <2>4 DEF HandIsNext
<1>10. NoGap'
  <2> SUFFICES ASSUME NEW d \in Ends, ~ Idle(d[1]), link[Other(d)] \in {"up", "fin"}
               PROVE  Len(to[Other(d)]) + InHand(d)' = sent[d] - Len(inbox'[d])
    BY <1>1 DEF NoGap, Idle
  <2>1. Len(to[Other(d)]) + InHand(d) = sent[d] - Len(inbox[d]) /\ InHand(d) = 0
    BY <1>1 DEF StreamInv, NoGap, InHand
  <2>2. to[Other(d)] \in Seq(Message)
    BY EndIs DEF Inv, TypeOK
  <2>3. Len(to[Other(d)]) \in Nat
    BY <2>2
  <2>4. InHand(d)' = IF d = e THEN 1 ELSE 0
    BY <1>1, <1>4 DEF InHand
  <2>5. CASE d = e
    BY <1>5, <1>7, <2>1, <2>3, <2>4, <2>5
  <2>6. CASE d # e
    BY <1>6, <2>1, <2>4, <2>6
  <2> QED BY <2>5, <2>6
<1>11. NewIsEmpty'
  <2>1. ASSUME NEW d \in Ends, Idle(d[1]) PROVE to[d] = <<>> /\ Len(inbox'[d]) = sent[d]
    BY <1>3, <1>6, <2>1 DEF StreamInv, NewIsEmpty
  <2> QED BY <1>1, <2>1 DEF NewIsEmpty, Idle
<1>12. NoCrosstalk' /\ ConnectsOnce' /\ ListedConnected'
  BY <1>1 DEF StreamInv, NoCrosstalk, ConnectsOnce, ListedConnected, InBacklog, Idle
<1> QED BY <1>8, <1>9, <1>10, <1>11, <1>12 DEF StreamInv

(* send() hands the other end the message that follows what it was sent.   *)
LEMMA SendStream ==
  ASSUME Inv, StreamInv, Send
  PROVE  StreamInv'
<1> DEFINE e == end[pkt.sock]
           t == Other(e)
<1>1. /\ pc = "send" /\ pc' = "test"
      /\ HasPeer => link[Target] \in {"up", "fin"}
      /\ to' = IF HasPeer THEN [to EXCEPT ![Target] = Append(@, pkt.data)] ELSE to
      /\ UNCHANGED <<sockets, end, joining, backlog, link, sent, inbox>>
  BY DEF Send
<1>2. HasPeer /\ e \in Ends /\ Target = t /\ ~ Idle(e[1])
  BY <1>1, HandGoesToPeer
<1>3. t \in Ends /\ Other(t) = e /\ t[1] = e[1] /\ t # e
  BY <1>2, EndIs
<1>4. pkt.data = [from |-> e, n |-> sent[e] - Len(inbox[e])] /\ InHand(e) = 1
  BY <1>1 DEF StreamInv, HandIsNext, InHand
<1>5. \A d \in Ends : d # e => InHand(d) = 0
  BY DEF InHand
<1>6. \A d \in Ends : InHand(d)' = 0
  BY <1>1 DEF InHand
<1> HIDE DEF e, t
<1>7. to' = [to EXCEPT ![t] = Append(@, pkt.data)] /\ link[t] \in {"up", "fin"}
  BY <1>1, <1>2
<1>8. to[t] \in Seq(Message) /\ pkt.data \in Message
  BY <1>2, <1>3, TargetIsEnd DEF Inv, TypeOK
<1>9. /\ Len(to'[t]) = Len(to[t]) + 1 /\ Len(to[t]) \in Nat
      /\ \A i \in DOMAIN to'[t] :
            \/ i \in DOMAIN to[t] /\ to'[t][i] = to[t][i]
            \/ i = Len(to[t]) + 1 /\ to'[t][i] = pkt.data
  <2>1. to'[t] = Append(to[t], pkt.data)
    BY <1>3, <1>7 DEF Inv, TypeOK
  <2> QED BY <1>8, <2>1, AppendFacts
<1>10. \A d \in Ends : d # t => to'[d] = to[d]
  BY <1>7 DEF Inv, TypeOK
<1>11. Len(to[t]) + 1 = sent[e] - Len(inbox[e])
  BY <1>2, <1>4, <1>7 DEF StreamInv, NoGap, t
<1>12. NoCrosstalk'
  <2> SUFFICES ASSUME NEW d \in Ends, NEW i \in DOMAIN to'[d]
               PROVE  to'[d][i] = [from |-> Other(d), n |-> i]
    BY DEF NoCrosstalk
  <2>1. CASE d # t \/ (d = t /\ i \in DOMAIN to[t] /\ to'[t][i] = to[t][i])
    <3>1. to'[d][i] = to[d][i] /\ i \in DOMAIN to[d]
      BY <1>10, <2>1
    <3> QED BY <3>1 DEF StreamInv, NoCrosstalk
  <2>2. CASE d = t /\ i = Len(to[t]) + 1 /\ to'[t][i] = pkt.data
    BY <1>3, <1>4, <1>11, <2>2
  <2> QED BY <1>9, <2>1, <2>2
<1>13. NoGap'
  <2> SUFFICES ASSUME NEW d \in Ends, ~ Idle(d[1]), link[Other(d)] \in {"up", "fin"}
               PROVE  Len(to'[Other(d)]) + 0 = sent[d] - Len(inbox[d])
    BY <1>1, <1>6 DEF NoGap, Idle
  <2>1. CASE d = e
    <3>1. Other(d) = t
      BY <2>1 DEF t
    <3> QED BY <1>9, <1>11, <2>1, <3>1
  <2>2. CASE d # e
    <3>1. Other(d) # t /\ Other(d) \in Ends
      BY <1>3, <2>2, EndIs
    <3>2. Len(to[Other(d)]) + 0 = sent[d] - Len(inbox[d])
      BY <1>5, <2>2 DEF StreamInv, NoGap
    <3> QED BY <1>10, <3>1, <3>2
  <2> QED BY <2>1, <2>2
<1>14. NewIsEmpty'
  <2>1. ASSUME NEW d \in Ends, Idle(d[1]) PROVE to'[d] = <<>> /\ Len(inbox[d]) = sent[d]
    BY <1>2, <1>3, <1>10, <2>1 DEF StreamInv, NewIsEmpty
  <2> QED BY <1>1, <2>1 DEF NewIsEmpty, Idle
<1>15. InboxInOrder' /\ HandIsNext' /\ ConnectsOnce' /\ ListedConnected'
  BY <1>1 DEF StreamInv, InboxInOrder, HandIsNext, ConnectsOnce, ListedConnected, InBacklog, Idle
<1> QED BY <1>12, <1>13, <1>14, <1>15 DEF StreamInv

(* A client connects: to the listening socket, once.                       *)
LEMMA ClientStream ==
  ASSUME Inv, StreamInv, NEW c \in Conns, ClientConnects(c)
  PROVE  StreamInv'
<1>1. /\ link[<<c, "lan">>] = "idle" /\ link' = [link EXCEPT ![<<c, "lan">>] = "up"]
      /\ backlog' = Append(backlog, c)
      /\ UNCHANGED <<pc, sockets, end, pkt, joining, sent, inbox, to>>
  BY DEF ClientConnects, procVars
<1>2. Idle(c) /\ ~ InBacklog(c)
  BY <1>1 DEF StreamInv, ConnectsOnce
<1>3. <<c, "lan">> \in Ends /\ \A e \in Ends : e # <<c, "lan">> => link'[e] = link[e]
  BY <1>1, OtherEnd DEF Inv, TypeOK
<1>4. \A d \in Conns : Idle(d)' <=> Idle(d)
  <2>1. \A d \in Conns : <<d, "wan">> # <<c, "lan">> /\ <<d, "wan">> \in Ends
    BY OtherEnd
  <2> QED BY <1>3, <2>1 DEF Idle
<1>5. NoCrosstalk' /\ InboxInOrder' /\ HandIsNext'
  BY <1>1 DEF StreamInv, NoCrosstalk, InboxInOrder, HandIsNext
<1>6. NoGap'
  <2> SUFFICES ASSUME NEW e \in Ends, ~ Idle(e[1])', link'[Other(e)] \in {"up", "fin"}
               PROVE  Len(to[Other(e)]) + InHand(e) = sent[e] - Len(inbox[e])
    BY <1>1 DEF NoGap, InHand
  <2>1. ~ Idle(e[1]) /\ Other(e) \in Ends /\ Other(e)[1] = e[1]
    BY <1>4, EndIs
  <2>2. Other(e) # <<c, "lan">>
    BY <1>2, <2>1
  <2> QED BY <1>3, <2>1, <2>2 DEF StreamInv, NoGap
<1>7. NewIsEmpty'
  BY <1>1, <1>4, EndIs DEF StreamInv, NewIsEmpty
<1>8. \A i \in DOMAIN backlog' : \/ i \in DOMAIN backlog /\ backlog'[i] = backlog[i]
                                 \/ i = Len(backlog) + 1 /\ backlog'[i] = c
  <2>1. backlog \in Seq(Conns)
    BY DEF Inv, TypeOK
  <2> QED BY <1>1, <2>1, AppendFacts
<1>9. ConnectsOnce'
  <2>1. \A i, j \in DOMAIN backlog' : backlog'[i] = backlog'[j] => i = j
    BY <1>2, <1>8 DEF StreamInv, ConnectsOnce, InBacklog
  <2>2. \A d \in Conns : InBacklog(d)' => InBacklog(d) \/ d = c
    BY <1>8 DEF InBacklog
  <2>3. \A d \in Conns : link'[<<d, "lan">>] = "idle" => link[<<d, "lan">>] = "idle" /\ d # c
    <3> SUFFICES ASSUME NEW d \in Conns, link'[<<d, "lan">>] = "idle"
                 PROVE  link[<<d, "lan">>] = "idle" /\ d # c
      OBVIOUS
    <3>1. link'[<<c, "lan">>] = "up" /\ <<d, "lan">> \in Ends
      BY <1>1, <1>3, OtherEnd DEF Inv, TypeOK
    <3>2. d # c
      BY <3>1
    <3>3. <<d, "lan">> # <<c, "lan">>
      BY <3>2
    <3> QED BY <1>3, <3>1, <3>2, <3>3
  <2>4. ASSUME pc' = "connect", NEW d \in Conns, end'[joining'.wan] = <<d, "wan">>
        PROVE  Idle(d)' /\ ~ InBacklog(d)' /\ link'[<<d, "lan">>] # "idle"
    <3>1. Idle(d) /\ ~ InBacklog(d) /\ link[<<d, "lan">>] # "idle"
      BY <1>1, <2>4 DEF StreamInv, ConnectsOnce
    <3>2. d # c
      BY <1>1, <3>1
    <3> QED BY <1>4, <2>2, <2>3, <3>1, <3>2
  <2>5. \A d \in Conns : /\ InBacklog(d)' => Idle(d)'
                         /\ link'[<<d, "lan">>] = "idle" => Idle(d)' /\ ~ InBacklog(d)'
    BY <1>2, <1>4, <2>2, <2>3 DEF StreamInv, ConnectsOnce
  <2> QED BY <2>1, <2>4, <2>5 DEF ConnectsOnce
<1>10. ListedConnected'
  <2>1. \A x \in Members(sockets) : end[x.fd][1] \in Conns /\ ~ Idle(end[x.fd][1])
    BY EndIs DEF Inv, PairInv, HasEnd, StreamInv, ListedConnected
  <2>2. \A x \in Members(sockets) : link'[<<end[x.fd][1], "wan">>] # "idle"
    BY <1>4, <2>1 DEF Idle
  <2> QED BY <1>1, <2>2 DEF ListedConnected, Idle
<1> QED BY <1>5, <1>6, <1>7, <1>9, <1>10 DEF StreamInv

(* An end sends: its message waits behind the others.                      *)
LEMMA EndSendsStream ==
  ASSUME Inv, StreamInv, NEW e \in Ends, EndSends(e)
  PROVE  StreamInv'
<1>1. /\ sent' = [sent EXCEPT ![e] = @ + 1]
      /\ inbox' = [inbox EXCEPT ![e] = Append(@, [from |-> e, n |-> sent[e] + 1])]
      /\ UNCHANGED <<pc, sockets, end, pkt, joining, backlog, link, to>>
  BY DEF EndSends, procVars
<1>2. \A d \in Ends : sent[d] \in Nat /\ inbox[d] \in Seq(Message) /\ Len(inbox[d]) \in Nat
  BY DEF Inv, TypeOK
<1>3. \A d \in Ends : d # e => sent'[d] = sent[d] /\ inbox'[d] = inbox[d]
  BY <1>1 DEF Inv, TypeOK
<1>4. sent'[e] = sent[e] + 1 /\ inbox'[e] = Append(inbox[e], [from |-> e, n |-> sent[e] + 1])
  BY <1>1 DEF Inv, TypeOK
<1>5. /\ Len(inbox'[e]) = Len(inbox[e]) + 1
      /\ \A i \in DOMAIN inbox'[e] :
            \/ i \in DOMAIN inbox[e] /\ inbox'[e][i] = inbox[e][i]
            \/ i = Len(inbox[e]) + 1 /\ inbox'[e][i] = [from |-> e, n |-> sent[e] + 1]
  <2>1. sent[e] + 1 \in 1 .. MaxSent
    BY SizeAssumption DEF EndSends, Inv, TypeOK
  <2>2. [from |-> e, n |-> sent[e] + 1] \in Message
    BY <2>1 DEF Message
  <2> QED BY <1>2, <1>4, <2>2, AppendFacts
<1>6. ASSUME NEW d \in Ends PROVE sent'[d] - Len(inbox'[d]) = sent[d] - Len(inbox[d])
  <2>1. CASE d = e
    <3>1. Len(inbox'[d]) = Len(inbox[d]) + 1 /\ sent'[d] = sent[d] + 1
      BY <1>4, <1>5, <2>1
    <3> QED BY <1>2, <3>1
  <2>2. CASE d # e
    BY <1>3, <2>2
  <2> QED BY <2>1, <2>2
<1>7. InboxInOrder'
  <2> SUFFICES ASSUME NEW d \in Ends
               PROVE  /\ Len(inbox'[d]) <= sent'[d]
                      /\ \A i \in DOMAIN inbox'[d] :
                            inbox'[d][i] = [from |-> d, n |-> sent'[d] - Len(inbox'[d]) + i]
    BY DEF InboxInOrder
  <2>1. /\ Len(inbox[d]) <= sent[d]
        /\ \A i \in DOMAIN inbox[d] : inbox[d][i] = [from |-> d, n |-> sent[d] - Len(inbox[d]) + i]
    BY DEF StreamInv, InboxInOrder
  <2>2. CASE d = e
    <3>1. Len(inbox'[d]) <= sent'[d]
      BY <1>2, <1>4, <1>5, <2>1, <2>2
    <3>2. sent[e] - Len(inbox[e]) + (Len(inbox[e]) + 1) = sent[e] + 1
      BY <1>2
    <3> QED BY <1>5, <1>6, <2>1, <2>2, <3>1, <3>2
  <2>3. CASE d # e
    BY <1>3, <2>1, <2>3
  <2> QED BY <2>2, <2>3
<1>8. HandIsNext'
  <2>1. ASSUME pc = "send" PROVE end[pkt.sock] \in Ends
    BY <2>1, HandGoesToPeer
  <2> QED BY <1>1, <1>6, <2>1 DEF StreamInv, HandIsNext
<1>9. NoGap'
  <2>1. ASSUME NEW d \in Ends, ~ Idle(d[1]), link[Other(d)] \in {"up", "fin"}
        PROVE  Len(to[Other(d)]) + InHand(d) = sent'[d] - Len(inbox'[d])
    BY <1>6, <2>1 DEF StreamInv, NoGap
  <2> QED BY <1>1, <2>1 DEF NoGap, Idle, InHand
<1>10. NewIsEmpty'
  <2>1. ASSUME NEW d \in Ends, Idle(d[1]) PROVE to[d] = <<>> /\ Len(inbox'[d]) = sent'[d]
    <3>1. to[d] = <<>> /\ Len(inbox[d]) = sent[d]
      BY <2>1 DEF StreamInv, NewIsEmpty
    <3> QED BY <1>2, <1>3, <1>4, <1>5, <3>1
  <2> QED BY <1>1, <2>1 DEF NewIsEmpty, Idle
<1>11. NoCrosstalk' /\ ConnectsOnce' /\ ListedConnected'
  BY <1>1 DEF StreamInv, NoCrosstalk, ConnectsOnce, ListedConnected, InBacklog, Idle
<1> QED BY <1>7, <1>8, <1>9, <1>10, <1>11 DEF StreamInv

(* Messages numbered anew: all before them have been forwarded, and none of*)
(* them is on its way.                                                     *)
LEMMA StartsOverStream ==
  ASSUME Inv, StreamInv, NEW e \in Ends, StartsOver(e)
  PROVE  StreamInv'
<1> DEFINE t == Other(e)
<1>1. /\ link[e] = "up" /\ inbox[e] = <<>> /\ pkt.data.from # e
      /\ sent' = [sent EXCEPT ![e] = 0] /\ to' = [to EXCEPT ![t] = <<>>]
      /\ UNCHANGED <<pc, sockets, end, pkt, joining, backlog, link, inbox>>
  BY DEF StartsOver, procVars
<1>2. t \in Ends /\ Other(t) = e /\ t[1] = e[1] /\ t # e
  BY EndIs
<1> HIDE DEF t
<1>3. sent'[e] = 0 /\ \A d \in Ends : d # e => sent'[d] = sent[d]
  BY <1>1 DEF Inv, TypeOK
<1>4. to'[t] = <<>> /\ \A d \in Ends : d # t => to'[d] = to[d]
  BY <1>1, <1>2 DEF Inv, TypeOK
<1>5. Len(inbox[e]) = 0 /\ DOMAIN inbox[e] = {} /\ InHand(e) = 0
  BY <1>1 DEF StreamInv, HandIsNext, InHand
<1>6. NoCrosstalk'
  <2> SUFFICES ASSUME NEW d \in Ends, NEW i \in DOMAIN to'[d]
               PROVE  to'[d][i] = [from |-> Other(d), n |-> i]
    BY DEF NoCrosstalk
  <2>1. d # t
    BY <1>4
  <2> QED BY <1>4, <2>1 DEF StreamInv, NoCrosstalk
<1>7. InboxInOrder'
  <2> SUFFICES ASSUME NEW d \in Ends
               PROVE  /\ Len(inbox[d]) <= sent'[d]
                      /\ \A i \in DOMAIN inbox[d] :
                            inbox[d][i] = [from |-> d, n |-> sent'[d] - Len(inbox[d]) + i]
    BY <1>1 DEF InboxInOrder
  <2>1. CASE d = e
    BY <1>3, <1>5, <2>1
  <2>2. CASE d # e
    BY <1>3, <2>2 DEF StreamInv, InboxInOrder
  <2> QED BY <2>1, <2>2
<1>8. HandIsNext'
  <2>1. ASSUME pc = "send" PROVE end[pkt.sock] \in Ends /\ end[pkt.sock] # e
    <3>1. end[pkt.sock] \in Ends
      BY <2>1, HandGoesToPeer
    <3> QED BY <1>1, <2>1, <3>1 DEF StreamInv, HandIsNext
  <2> QED BY <1>1, <1>3, <2>1 DEF StreamInv, HandIsNext
<1>9. NoGap'
  <2> SUFFICES ASSUME NEW d \in Ends, ~ Idle(d[1]), link[Other(d)] \in {"up", "fin"}
               PROVE  Len(to'[Other(d)]) + InHand(d) = sent'[d] - Len(inbox[d])
    BY <1>1 DEF NoGap, Idle, InHand
  <2>1. CASE d = e
    BY <1>3, <1>4, <1>5, <2>1 DEF t
  <2>2. CASE d # e
    <3>1. Other(d) # t /\ Other(d) \in Ends
      BY <1>2, <2>2, EndIs
    <3> QED BY <1>3, <1>4, <2>2, <3>1 DEF StreamInv, NoGap
  <2> QED BY <2>1, <2>2
<1>10. NewIsEmpty'
  <2>1. ASSUME NEW d \in Ends, Idle(d[1]) PROVE to'[d] = <<>> /\ Len(inbox[d]) = sent'[d]
    <3>1. to[d] = <<>> /\ Len(inbox[d]) = sent[d]
      BY <2>1 DEF StreamInv, NewIsEmpty
    <3> QED BY <1>3, <1>4, <1>5, <3>1
  <2> QED BY <1>1, <2>1 DEF NewIsEmpty, Idle
<1>11. ConnectsOnce' /\ ListedConnected'
  BY <1>1 DEF StreamInv, ConnectsOnce, ListedConnected, InBacklog, Idle
<1> QED BY <1>6, <1>7, <1>8, <1>9, <1>10, <1>11 DEF StreamInv

(* Every step keeps the data of each connection in order and without a     *)
(* gap.                                                                    *)
LEMMA StreamNext == Inv /\ StreamInv /\ [Next]_vars => StreamInv'
<1> SUFFICES ASSUME Inv, StreamInv, [Next]_vars PROVE StreamInv'
  OBVIOUS
<1>1. CASE Proxy
  BY <1>1, QuietSteps, AcceptStream, ConnectedStream, ReceiveStream, SendStream, LostSteps
     DEF Proxy
<1>2. CASE Environment
  <2>1. \/ Signal \/ (\E c \in Conns : ClientConnects(c))
        \/ (\E e \in Ends : EndSends(e) \/ StartsOver(e))
        \/ (\E e \in Ends : Reads(e) \/ EndChanges(e))
    BY <1>2 DEF Environment
  <2> QED BY <2>1, QuietSteps, ClientStream, EndSendsStream, StartsOverStream
<1> QED BY <1>1, <1>2, QuietSteps DEF Next

(* Nothing has been sent when the loop begins.                             *)
LEMMA StreamInit == Init => StreamInv
<1> SUFFICES ASSUME Init PROVE StreamInv
  OBVIOUS
<1>1. /\ pc = "test" /\ sockets = <<>> /\ backlog = <<>>
      /\ \A e \in Ends : link[e] = "idle" /\ sent[e] = 0 /\ inbox[e] = <<>> /\ to[e] = <<>>
  BY DEF Init
<1>2. \A c \in Conns : Idle(c) /\ ~ InBacklog(c)
  <2>1. \A c \in Conns : Idle(c)
    BY <1>1, OtherEnd DEF Idle
  <2>2. DOMAIN backlog = {}
    BY <1>1
  <2> QED BY <2>1, <2>2 DEF InBacklog
<1>3. ListedConnected
  BY <1>1 DEF ListedConnected, Members
<1>4. ConnectsOnce
  BY <1>1, <1>2 DEF ConnectsOnce
<1>5. NewIsEmpty
  BY <1>1 DEF NewIsEmpty
<1>6. NoGap
  BY <1>2, EndIs DEF NoGap
<1> QED BY <1>1, <1>3, <1>4, <1>5, <1>6 DEF StreamInv, NoCrosstalk, InboxInOrder, HandIsNext

(* Whatever connections come and go and whichever descriptors they get: an *)
(* end is sent its own connection's messages only, each one once, in order *)
(* and without a gap (sock_tcp_receive, handle_tcp_packet).                *)
THEOREM NoCrosstalkEver == Spec => []NoCrosstalk
<1>1. StreamInv => NoCrosstalk
  BY DEF StreamInv
<1> QED BY <1>1, StreamInit, StreamNext, InvAlways, PTL DEF Spec
=============================================================================
