------------------------- MODULE SocketSetupProofs --------------------------
(***************************************************************************)
(* Proofs about SocketSetup for every set of command lines, every number of*)
(* descriptors and addresses that come and go at any time.                 *)
(***************************************************************************)
EXTENDS SocketSetup, ListFacts, SequenceTheorems, FiniteSetTheorems

Steps == [act : {"add", "join", "detect", "add6"}, name : Names]

(* A list of steps that opens a socket before it does anything else.       *)
AddsFirst(s) == s \in Seq(Steps) /\ (s # <<>> => s[1].act = "add")

(* Two plans in which each join follows its socket make one.               *)
LEMMA JoinedAddsFirst ==
  ASSUME NEW s, NEW t, AddsFirst(s), AddsFirst(t)
  PROVE  AddsFirst(s \o t)
<1>1. s \in Seq(Steps) /\ t \in Seq(Steps)
  BY DEF AddsFirst
<1>2. /\ s \o t \in Seq(Steps) /\ Len(s \o t) = Len(s) + Len(t)
      /\ \A i \in 1 .. Len(s) + Len(t) : (s \o t)[i] = IF i <= Len(s) THEN s[i] ELSE t[i - Len(s)]
  BY <1>1, ConcatProperties
<1>3. CASE s # <<>>
  <2>1. Len(s) > 0
    BY <1>1, <1>3, EmptySeq
  <2>2. (s \o t)[1] = s[1]
    BY <1>1, <1>2, <2>1
  <2> QED BY <1>2, <1>3, <2>2 DEF AddsFirst
<1>4. CASE s = <<>>
  <2>1. s \o t = t
    BY <1>1, <1>4, ConcatEmptySeq
  <2> QED BY <2>1 DEF AddsFirst
<1> QED BY <1>3, <1>4

(* A part that is left out when its feature is off makes no difference.    *)
LEMMA WhenAddsFirst ==
  ASSUME NEW b, NEW s, AddsFirst(s)
  PROVE  AddsFirst(When(b, s))
<1>1. AddsFirst(<<>>)
  BY DEF AddsFirst
<1> QED BY <1>1 DEF When

(* Whatever sockets_bind does for a command line, it opens a socket first. *)
LEMMA PlanAddsFirst ==
  ASSUME NEW c
  PROVE  AddsFirst(Plan(c))
<1>1. AddsFirst(<<Do("add", "lan_ssdp"), Do("join", "lan_ssdp"),
                  Do("add", "wan_ssdp"), Do("join", "wan_ssdp")>>)
  BY DEF AddsFirst, Do, Steps, Names
<1>2. AddsFirst(<<Do("add", "natpmp_lan")>>)
  BY DEF AddsFirst, Do, Steps, Names
<1>3. /\ AddsFirst(<<Do("add", "natpmp")>>)
      /\ AddsFirst(<<Do("add", "tcp1"), Do("add", "tcp2")>>)
      /\ AddsFirst(<<Do("add", "shared")>>)
  BY DEF AddsFirst, Do, Steps, Names
<1>4. AddsFirst(<<Do("add", "natpmp_lan")>>
                  \o When(~ c.wanIPv6_given, <<Do("detect", "ext6")>>)
                  \o <<Do("add6", "ext6")>>)
  <2> DEFINE first == <<Do("add", "natpmp_lan")>>
             maybe == When(~ c.wanIPv6_given, <<Do("detect", "ext6")>>)
             last == <<Do("add6", "ext6")>>
  <2>1. first \in Seq(Steps) /\ Len(first) = 1 /\ first[1].act = "add"
    BY DEF Do, Steps, Names
  <2>2. maybe \in Seq(Steps) /\ last \in Seq(Steps)
    <3>1. <<Do("detect", "ext6")>> \in Seq(Steps) /\ <<>> \in Seq(Steps)
      BY DEF Do, Steps, Names
    <3>2. <<Do("add6", "ext6")>> \in Seq(Steps)
      BY DEF Do, Steps, Names
    <3> QED BY <3>1, <3>2 DEF When
  <2> HIDE DEF first, maybe, last
  <2>3. first \o maybe \in Seq(Steps) /\ Len(first \o maybe) >= 1 /\ (first \o maybe)[1].act = "add"
    BY <2>1, <2>2, ConcatProperties
  <2>4. first \o maybe \o last \in Seq(Steps) /\ (first \o maybe \o last)[1].act = "add"
    BY <2>2, <2>3, ConcatProperties
  <2> QED BY <2>4 DEF AddsFirst, first, maybe, last
<1> QED BY <1>1, <1>3, <1>4, WhenAddsFirst, JoinedAddsFirst DEF Plan

(* The step sockets_bind is at; a join or a detection is never the first.  *)
LEMMA StepFacts ==
  ASSUME NEW act, InBind(act), step \in Nat \ {0}
  PROVE  /\ Name \in Names /\ step + 1 \in 1 .. Len(Plan(cfg)) + 1
         /\ act # "add" => step > 1
<1>1. Plan(cfg) \in Seq(Steps) /\ (Plan(cfg) # <<>> => Plan(cfg)[1].act = "add")
  BY PlanAddsFirst DEF AddsFirst
<1>2. step \in 1 .. Len(Plan(cfg)) /\ Plan(cfg)[step] \in Steps /\ Plan(cfg)[step].act = act
  BY <1>1 DEF InBind
<1>3. Plan(cfg)[step].name \in Names
  BY <1>2 DEF Steps
<1>4. Plan(cfg) # <<>>
  BY <1>1, <1>2
<1> QED BY <1>1, <1>2, <1>3, <1>4 DEF Name

(* A descriptor that the kernel gives was free.                            *)
LEMMA NewFdIsFree ==
  ASSUME Free # {}
  PROVE  NewFd \in Fds /\ NewFd \notin open
<1>1. Free \in SUBSET Nat
  BY BoundsAssumption DEF Free, Fds
<1>2. \E f \in Free : \A g \in Free : f <= g
  BY <1>1, LeastExists
<1>3. NewFd \in Free
  BY <1>2 DEF NewFd
<1> QED BY <1>3 DEF Free

-----------------------------------------------------------------------------
(* The list of sockets, as far as descriptors go.                          *)
Entries == [name : Names, fd : Fds]

(* Once a step of sockets_bind is done, a socket is in the list: Join takes*)
(* the descriptor of its head.                                             *)
JoinHasSocket ==
  /\ pc = "sanity" => step = 1
  /\ pc = "bind" /\ step > 1 => sockets # <<>>

Inv == TypeOK /\ ListIsOpen /\ JoinHasSocket

(* A new socket at the head of the list, with a descriptor that was free.  *)
LEMMA RegisterKeeps ==
  ASSUME Inv, NEW name \in Names, Free # {}, Register(name, NewFd), open' = open \cup {NewFd}
  PROVE  /\ sockets' \in Seq(Entries) /\ sockets' # <<>> /\ open' \subseteq Fds
         /\ ListIsOpen'
<1> DEFINE f == NewFd
           new == [name |-> name, fd |-> f]
<1>1. f \in Fds /\ f \notin open
  BY NewFdIsFree
<1>2. sockets \in Seq(Entries) /\ <<new>> \in Seq(Entries) /\ open \subseteq Fds
  BY <1>1 DEF Inv, TypeOK, Entries
<1>3. sockets' = <<new>> \o sockets /\ open' = open \cup {f}
  BY DEF Register
<1> HIDE DEF f
<1>4. /\ sockets' \in Seq(Entries) /\ Len(sockets') = Len(sockets) + 1
      /\ sockets'[1] = new
      /\ \A i \in 2 .. Len(sockets) + 1 : sockets'[i] = sockets[i - 1]
  BY <1>2, <1>3, ConcatProperties
<1>5. \A i \in DOMAIN sockets : sockets[i].fd \in open
  BY DEF Inv, ListIsOpen
<1>6. ASSUME NEW i \in DOMAIN sockets'
      PROVE  sockets'[i].fd = IF i = 1 THEN f ELSE sockets[i - 1].fd
  BY <1>2, <1>4, <1>6
<1>7. ASSUME NEW i \in DOMAIN sockets', i # 1
      PROVE  i - 1 \in DOMAIN sockets
  BY <1>2, <1>4, <1>7
<1>8. \A i \in DOMAIN sockets' : sockets'[i].fd \in open'
  BY <1>3, <1>5, <1>6, <1>7
<1>9. ASSUME NEW i \in DOMAIN sockets', NEW j \in DOMAIN sockets',
             sockets'[i].fd = sockets'[j].fd
      PROVE  i = j
  <2>1. i \in Int /\ j \in Int
    BY <1>4
  <2>2. CASE i = 1 \/ j = 1
    BY <2>2, <1>1, <1>5, <1>6, <1>7, <1>9
  <2>3. CASE i # 1 /\ j # 1
    <3>1. i - 1 = j - 1
      BY <2>3, <1>6, <1>7, <1>9 DEF Inv, ListIsOpen
    <3> QED BY <3>1, <2>1
  <2> QED BY <2>2, <2>3
<1>10. ListIsOpen'
  BY <1>8, <1>9 DEF ListIsOpen
<1> QED BY <1>1, <1>2, <1>3, <1>4, <1>10, EmptySeq

(* sockets_close never takes a descriptor of another socket.               *)
LEMMA SocketDelKeeps ==
  ASSUME Inv, sockets # <<>>, SocketDel
  PROVE  sockets' \in Seq(Entries) /\ open' \subseteq Fds /\ ListIsOpen'
<1>1. sockets \in Seq(Entries) /\ sockets # <<>> /\ open \subseteq Fds
  BY DEF Inv, TypeOK, Entries
<1>2. sockets' = Tail(sockets) /\ open' = open \ {sockets[1].fd}
  BY <1>1 DEF SocketDel
<1>3. /\ sockets' \in Seq(Entries) /\ Len(sockets') = Len(sockets) - 1
      /\ \A i \in DOMAIN sockets' : i + 1 \in DOMAIN sockets /\ sockets'[i] = sockets[i + 1]
      /\ 1 \in DOMAIN sockets /\ \A i \in DOMAIN sockets' : i \in Nat /\ i + 1 # 1
  BY <1>1, <1>2
<1>4. \A i \in DOMAIN sockets' : sockets'[i].fd \in open'
  BY <1>2, <1>3 DEF Inv, ListIsOpen
<1>5. ASSUME NEW i \in DOMAIN sockets', NEW j \in DOMAIN sockets',
             sockets'[i].fd = sockets'[j].fd
      PROVE  i = j
  <2>1. i + 1 = j + 1
    BY <1>3, <1>5 DEF Inv, ListIsOpen
  <2> QED BY <2>1, <1>3
<1> QED BY <1>1, <1>2, <1>3, <1>4, <1>5 DEF ListIsOpen

(* The list is empty and nothing is open but what the process began with.  *)
LEMMA InvInit == Init => Inv
<1> SUFFICES ASSUME Init PROVE Inv
  OBVIOUS
<1>1. step \in 1 .. Len(Plan(cfg)) + 1
  <2>1. Len(Plan(cfg)) \in Nat
    BY PlanAddsFirst DEF AddsFirst
  <2> QED BY <2>1 DEF Init
<1>2. TypeOK
  <2>1. failures \in 0 .. MaxCounted /\ flaps \in 0 .. MaxFlaps
    BY BoundsAssumption DEF Init, MaxCounted
  <2>2. handle \in [Names -> {None} \cup Fds]
    BY DEF Init
  <2>3. sockets \in Seq([name : Names, fd : Fds])
    BY DEF Init
  <2>4. /\ pc = "sanity" /\ cfg \in Configs /\ open = {} /\ up \subseteq Addrs
        /\ Shutdown \in BOOLEAN
    BY DEF Init
  <2> QED BY <1>1, <2>1, <2>2, <2>3, <2>4 DEF TypeOK
<1>3. ListIsOpen /\ JoinHasSocket
  BY DEF Init, ListIsOpen, JoinHasSocket
<1> QED BY <1>2, <1>3 DEF Inv

(* sockets_bind: what a step leaves in the context has its type.           *)
LEMMA KeepTyped ==
  ASSUME TypeOK, NEW name \in Names, NEW fd \in Fds \cup {None},
         Keep(name, fd) \/ UNCHANGED handle
  PROVE  handle' \in [Names -> {None} \cup Fds]
BY DEF TypeOK, Keep

(* sock_add lists an open descriptor that was not listed before.           *)
LEMMA AddKeeps ==
  ASSUME Inv, Add \/ Add6
  PROVE  Inv'
<1> DEFINE act == IF InBind("add") THEN "add" ELSE "add6"
<1>1. InBind(act) /\ Free # {} /\ step \in Nat \ {0} /\ open' = open \cup {NewFd}
  BY DEF Add, Add6, Inv, TypeOK
<1>2. Name \in Names /\ step + 1 \in 1 .. Len(Plan(cfg)) + 1
  BY <1>1, StepFacts
<1>3. NewFd \in Fds
  BY <1>1, NewFdIsFree
<1>4. handle' \in [Names -> {None} \cup Fds]
  <2>1. CASE Bindable(Name)
    BY <2>1, <1>2, <1>3, KeepTyped DEF Add, Add6, Inv
  <2>2. CASE ~ Bindable(Name)
    <3>1. Keep(Name, None) \/ UNCHANGED handle
      BY <2>2 DEF Add, Add6, KeepFailure
    <3> QED BY <3>1, <1>2, KeepTyped DEF Inv
  <2> QED BY <2>1, <2>2
<1>5. /\ step' \in {step, step + 1} /\ pc' \in {"bind", "failed"}
      /\ UNCHANGED <<cfg, failures, up, Shutdown, flaps>>
  BY DEF Add, Add6, InBind
<1>6. CASE Register(Name, NewFd)
  <2>1. /\ sockets' \in Seq(Entries) /\ sockets' # <<>> /\ open' \subseteq Fds
        /\ ListIsOpen'
    BY <1>1, <1>2, <1>6, RegisterKeeps
  <2>2. TypeOK'
    BY <2>1, <1>2, <1>4, <1>5 DEF Inv, TypeOK, Entries
  <2>3. JoinHasSocket'
    BY <2>1, <1>5 DEF JoinHasSocket
  <2> QED BY <2>1, <2>2, <2>3 DEF Inv
<1>7. CASE UNCHANGED <<step, sockets>> /\ pc' = "failed"
  <2>1. TypeOK'
    BY <1>1, <1>2, <1>3, <1>4, <1>5, <1>7 DEF Inv, TypeOK
  <2>2. ListIsOpen' /\ JoinHasSocket'
    BY <1>1, <1>7 DEF Inv, ListIsOpen, JoinHasSocket
  <2> QED BY <2>1, <2>2 DEF Inv
<1> QED BY <1>6, <1>7 DEF Add, Add6

(* A socket() that fails changes neither the list nor what is open.        *)
LEMMA NoDescriptorKeeps == ASSUME Inv, NoDescriptor PROVE Inv'
<1> DEFINE act == IF InBind("add") THEN "add" ELSE "add6"
<1>1. InBind(act) /\ step \in Nat \ {0}
  BY DEF NoDescriptor, Inv, TypeOK
<1>2. Name \in Names
  BY <1>1, StepFacts
<1>3. handle' \in [Names -> {None} \cup Fds]
  <2>1. Keep(Name, None) \/ UNCHANGED handle
    BY DEF NoDescriptor, KeepFailure
  <2> QED BY <2>1, <1>2, KeepTyped DEF Inv
<1> QED BY <1>3 DEF Inv, TypeOK, ListIsOpen, JoinHasSocket, NoDescriptor

(* A group is joined on the listed socket; when that fails it stays listed *)
(* and open.                                                               *)
LEMMA JoinKeeps == ASSUME Inv, Join PROVE Inv'
<1>1. InBind("join") /\ step \in Nat \ {0} /\ pc = "bind"
  BY DEF Join, InBind, Inv, TypeOK
<1>2. Name \in Names /\ step + 1 \in 1 .. Len(Plan(cfg)) + 1 /\ step > 1
  BY <1>1, StepFacts
<1>3. Head(sockets).fd \in Fds /\ sockets # <<>>
  <2>1. sockets # <<>> /\ sockets \in Seq(Entries)
    BY <1>1, <1>2 DEF Inv, TypeOK, JoinHasSocket, Entries
  <2>2. Head(sockets) \in Entries
    BY <2>1
  <2> QED BY <2>1, <2>2 DEF Entries
<1>4. handle' \in [Names -> {None} \cup Fds]
  BY <1>2, <1>3 DEF Join, Inv, TypeOK
<1>5. TypeOK'
  BY <1>2, <1>4 DEF Join, Inv, TypeOK
<1>6. ListIsOpen'
  BY DEF Join, Inv, ListIsOpen
<1>7. JoinHasSocket'
  BY <1>1, <1>3 DEF Join, JoinHasSocket
<1> QED BY <1>5, <1>6, <1>7 DEF Inv

(* iface_ip6_get takes a descriptor and lists nothing.                     *)
LEMMA DetectKeeps == ASSUME Inv, Detect \/ DetectWaits PROVE Inv'
<1>1. InBind("detect") /\ step \in Nat \ {0} /\ Free # {} /\ pc = "bind"
  BY DEF Detect, DetectWaits, InBind, Inv, TypeOK
<1>2. step + 1 \in 1 .. Len(Plan(cfg)) + 1 /\ step > 1
  BY <1>1, StepFacts
<1>3. NewFd \in Fds
  BY <1>1, NewFdIsFree
<1>4. TypeOK'
  BY <1>2, <1>3 DEF Detect, DetectWaits, Inv, TypeOK
<1>5. ListIsOpen'
  BY DEF Detect, DetectWaits, Inv, ListIsOpen
<1>6. JoinHasSocket'
  BY <1>1, <1>2 DEF Detect, DetectWaits, Inv, JoinHasSocket
<1> QED BY <1>4, <1>5, <1>6 DEF Inv

(* sockets_close takes a socket off the list and closes its descriptor.    *)
LEMMA CloseOneKeeps == ASSUME Inv, CloseOne PROVE Inv'
<1>1. sockets' \in Seq(Entries) /\ open' \subseteq Fds /\ ListIsOpen'
  BY SocketDelKeeps DEF CloseOne
<1>2. TypeOK'
  BY <1>1 DEF CloseOne, Inv, TypeOK, Entries
<1>3. JoinHasSocket'
  BY DEF CloseOne, JoinHasSocket
<1> QED BY <1>1, <1>2, <1>3 DEF Inv

(* The steps that neither open nor close a descriptor.                     *)
LEMMA OtherStepsKeep ==
  ASSUME Inv, \/ Check \/ DetectSpins \/ Bound \/ Failed \/ CloseDone
              \/ Retry \/ RunReturns \/ RunBlocks
  PROVE  Inv'
<1>1. UNCHANGED <<cfg, sockets, open, handle, up, Shutdown, flaps>>
  BY DEF Check, DetectSpins, Bound, Failed, CloseDone, Retry, RunReturns, RunBlocks
<1>2. pc' \in {"bind", "close", "sleep", "run", "shut", "exited", "stuck", "blocked"}
  BY DEF Check, DetectSpins, Bound, Failed, CloseDone, Retry, RunReturns, RunBlocks
<1>3. failures' \in 0 .. MaxCounted
  BY DEF Check, DetectSpins, Bound, Failed, CloseDone, Retry, RunReturns, RunBlocks, Inv, TypeOK,
         MaxCounted
<1>4. step' = step \/ step' = 1
  BY DEF Check, DetectSpins, Bound, Failed, CloseDone, Retry, RunReturns, RunBlocks
<1>5. Plan(cfg) \in Seq(Steps)
  BY PlanAddsFirst DEF AddsFirst
<1>6. TypeOK'
  BY <1>1, <1>2, <1>3, <1>4, <1>5 DEF Inv, TypeOK
<1>7. ListIsOpen'
  BY <1>1 DEF Inv, ListIsOpen
<1>8. JoinHasSocket'
  BY <1>1, <1>4 DEF Check, DetectSpins, Bound, Failed, CloseDone, Retry, RunReturns, RunBlocks,
         Inv, JoinHasSocket
<1> QED BY <1>6, <1>7, <1>8 DEF Inv

(* Every step keeps the list open.                                         *)
LEMMA InvNext == Inv /\ [Next]_vars => Inv'
<1> SUFFICES ASSUME Inv, [Next]_vars PROVE Inv'
  OBVIOUS
<1>1. CASE Main
  BY <1>1, AddKeeps, NoDescriptorKeeps, JoinKeeps, DetectKeeps, CloseOneKeeps,
     OtherStepsKeep DEF Main
<1>2. ASSUME NEW a \in Addrs, AddressComes(a) \/ AddressGoes(a) PROVE Inv'
  BY <1>2, BoundsAssumption DEF AddressComes, AddressGoes, mainVars, Inv, TypeOK, ListIsOpen,
         JoinHasSocket
<1>3. CASE Signal
  BY <1>3 DEF Signal, mainVars, Inv, TypeOK, ListIsOpen, JoinHasSocket
<1>4. CASE Stopped \/ UNCHANGED vars
  BY <1>4 DEF Stopped, vars, mainVars, Inv, TypeOK, ListIsOpen, JoinHasSocket
<1> QED BY <1>1, <1>2, <1>3, <1>4 DEF Next

(* So the list names open descriptors only, each once, at any time.        *)
LEMMA InvAlways == Spec => []Inv
BY InvInit, InvNext, PTL DEF Spec

(* The step of sockets_bind, the list, the descriptors kept in the context *)
(* and the counters keep their types over all attempts: no join of a       *)
(* multicast group finds the list empty.                                   *)
THEOREM TypeCorrect == Spec => []TypeOK
<1>1. Inv => TypeOK
  BY DEF Inv
<1> QED BY <1>1, InvAlways, PTL

(* Over any number of failed attempts, retries and reuses of descriptor    *)
(* numbers, ctx->sockets names open descriptors, each once: sockets_close  *)
(* closes none that belongs to something else.                             *)
THEOREM ListAlwaysOpen == Spec => []ListIsOpen
<1>1. Inv => ListIsOpen
  BY DEF Inv
<1> QED BY <1>1, InvAlways, PTL

-----------------------------------------------------------------------------
(* What failed attempts cost.  An attempt detects the IPv6 address once at *)
(* most, so that the descriptors lost are counted by the step it is at.    *)

Plain(s) == s \in Seq(Steps) /\ \A i \in DOMAIN s : s[i].act # "detect"
Once(s) ==
  /\ s \in Seq(Steps)
  /\ \A i, j \in DOMAIN s : s[i].act = "detect" /\ s[j].act = "detect" => i = j

(* A plan that detects once is still one with a plan in front or behind    *)
(* that does not.                                                          *)
LEMMA JoinedOnce ==
  ASSUME NEW s, NEW t, \/ Plain(s) /\ Once(t)
                       \/ Once(s) /\ Plain(t)
  PROVE  Once(s \o t)
<1>1. s \in Seq(Steps) /\ t \in Seq(Steps)
  BY DEF Plain, Once
<1>2. /\ s \o t \in Seq(Steps) /\ Len(s \o t) = Len(s) + Len(t)
      /\ \A i \in 1 .. Len(s) + Len(t) : (s \o t)[i] = IF i <= Len(s) THEN s[i] ELSE t[i - Len(s)]
  BY <1>1, ConcatProperties
<1>3. ASSUME NEW i \in DOMAIN (s \o t), (s \o t)[i].act = "detect"
      PROVE  IF i <= Len(s) THEN i \in DOMAIN s /\ s[i].act = "detect"
                            ELSE i - Len(s) \in DOMAIN t /\ t[i - Len(s)].act = "detect"
  BY <1>1, <1>2, <1>3
<1>4. ASSUME NEW i \in DOMAIN (s \o t), NEW j \in DOMAIN (s \o t),
             (s \o t)[i].act = "detect", (s \o t)[j].act = "detect"
      PROVE  i = j
  <2>1. i \in Int /\ j \in Int /\ Len(s) \in Int
    BY <1>1, <1>2
  <2>2. CASE Plain(s) /\ Once(t)
    <3>1. ~ (i <= Len(s)) /\ ~ (j <= Len(s))
      BY <1>3, <1>4, <2>2 DEF Plain
    <3>2. i - Len(s) = j - Len(s)
      BY <1>3, <1>4, <2>2, <3>1 DEF Once
    <3> QED BY <2>1, <3>2
  <2>3. CASE Once(s) /\ Plain(t)
    <3>1. i <= Len(s) /\ j <= Len(s)
      BY <1>3, <1>4, <2>3 DEF Plain
    <3> QED BY <1>3, <1>4, <2>3, <3>1 DEF Once
  <2> QED BY <2>2, <2>3
<1> QED BY <1>2, <1>4 DEF Once

(* Whatever the features, an attempt detects the address once at most.     *)
LEMMA PlanDetectsOnce ==
  ASSUME NEW c
  PROVE  Once(Plan(c))
<1>1. /\ Plain(<<>>) /\ Once(<<>>)
      /\ Plain(<<Do("add", "natpmp_lan")>>) /\ Plain(<<Do("add6", "ext6")>>)
      /\ Plain(<<Do("add", "natpmp")>>) /\ Plain(<<Do("add", "tcp1"), Do("add", "tcp2")>>)
      /\ Plain(<<Do("add", "shared")>>)
  BY DEF Plain, Once, Do, Steps, Names
<1>2. Plain(<<Do("add", "lan_ssdp"), Do("join", "lan_ssdp"),
              Do("add", "wan_ssdp"), Do("join", "wan_ssdp")>>)
  BY DEF Plain, Do, Steps, Names
<1>3. Once(<<Do("detect", "ext6")>>)
  BY DEF Once, Do, Steps, Names
<1> DEFINE ext == <<Do("add", "natpmp_lan")>>
                    \o When(~ c.wanIPv6_given, <<Do("detect", "ext6")>>)
                    \o <<Do("add6", "ext6")>>
           ssdp == When(c.upnp_udp, <<Do("add", "lan_ssdp"), Do("join", "lan_ssdp"),
                                      Do("add", "wan_ssdp"), Do("join", "wan_ssdp")>>)
           classic == When(c.nat_pmp, <<Do("add", "natpmp")>>)
           tcp == When(c.upnp_tcp, <<Do("add", "tcp1"), Do("add", "tcp2")>>)
           shared == When(c.shared_udp_sock /\ (c.upnp_udp \/ c.nat_pmp), <<Do("add", "shared")>>)
<1>4. Once(When(~ c.wanIPv6_given, <<Do("detect", "ext6")>>))
  BY <1>1, <1>3 DEF When
<1>5. Once(ext)
  BY <1>1, <1>4, JoinedOnce
<1>6. Plain(ssdp) /\ Plain(classic) /\ Plain(tcp) /\ Plain(shared)
  BY <1>1, <1>2 DEF When
<1>7. Once(When(c.nat_pmp_ext, ext))
  BY <1>1, <1>5 DEF When
<1>8. Plan(c) = ssdp \o When(c.nat_pmp_ext, ext) \o classic \o tcp \o shared
  BY DEF Plan
<1> HIDE DEF ext, ssdp, classic, tcp, shared
<1>9. Once(ssdp \o When(c.nat_pmp_ext, ext))
  BY <1>6, <1>7, JoinedOnce
<1>10. Once(ssdp \o When(c.nat_pmp_ext, ext) \o classic)
  BY <1>6, <1>9, JoinedOnce
<1>11. Once(ssdp \o When(c.nat_pmp_ext, ext) \o classic \o tcp)
  BY <1>6, <1>10, JoinedOnce
<1>12. Once(ssdp \o When(c.nat_pmp_ext, ext) \o classic \o tcp \o shared)
  BY <1>6, <1>11, JoinedOnce
<1> QED BY <1>8, <1>12

(* Descriptors that no socket of the list accounts for.                    *)
Lost == Cardinality(open) - Len(sockets)
Detected == \E k \in DOMAIN Plan(cfg) : k < step /\ Plan(cfg)[k].act = "detect"

LeaksCounted ==
  failures < MaxCounted =>
     /\ pc = "bind" => Lost <= 2 * failures + (IF Detected THEN 1 ELSE 0)
     /\ pc \in {"sanity", "close", "sleep"} => Lost <= 2 * failures
     /\ Lost <= 2 * failures + 2

(* What the counting of descriptors is about is finite.                    *)
LEMMA CountsAreNumbers ==
  ASSUME Inv
  PROVE  /\ IsFiniteSet(open) /\ Cardinality(open) \in Nat /\ Len(sockets) \in Nat
         /\ Lost \in Int /\ failures \in Nat /\ step \in Nat \ {0}
<1>1. IsFiniteSet(Fds)
  BY BoundsAssumption, FS_Interval DEF Fds
<1>2. IsFiniteSet(open)
  BY <1>1, FS_Subset DEF Inv, TypeOK
<1> QED BY <1>2, FS_CardinalityType DEF Inv, TypeOK, Lost

(* A descriptor is taken; with a socket in the list it is not lost.        *)
LEMMA TakenCounts ==
  ASSUME Inv, Free # {}, open' = open \cup {NewFd}
  PROVE  /\ UNCHANGED sockets => Lost' = Lost + 1
         /\ \A name \in Names : Register(name, NewFd) => Lost' = Lost
<1>1. NewFd \notin open /\ NewFd \in Fds
  BY NewFdIsFree
<1>2. Cardinality(open') = Cardinality(open) + 1
  BY <1>1, CountsAreNumbers, FS_AddElement
<1>3. UNCHANGED sockets => Lost' = Lost + 1
  BY <1>2, CountsAreNumbers DEF Lost
<1>4. ASSUME NEW name \in Names, Register(name, NewFd) PROVE Lost' = Lost
  <2>1. sockets \in Seq(Entries) /\ <<[name |-> name, fd |-> NewFd]>> \in Seq(Entries)
    BY <1>1 DEF Inv, TypeOK, Entries
  <2>2. Len(sockets') = Len(sockets) + 1
    BY <2>1, <1>4, ConcatProperties DEF Register
  <2> QED BY <2>2, <1>2, CountsAreNumbers DEF Lost
<1> QED BY <1>3, <1>4

(* Closing a listed socket loses no descriptor.                            *)
LEMMA SocketDelCounts ==
  ASSUME Inv, sockets # <<>>, SocketDel
  PROVE  Lost' = Lost
<1>1. sockets \in Seq(Entries) /\ sockets # <<>>
  BY DEF Inv, TypeOK, Entries
<1>2. Head(sockets).fd \in open
  <2>1. 1 \in DOMAIN sockets /\ Head(sockets) = sockets[1]
    BY <1>1
  <2> QED BY <2>1 DEF Inv, ListIsOpen
<1>3. Cardinality(open') = Cardinality(open) - 1
  BY <1>2, CountsAreNumbers, FS_RemoveElement DEF SocketDel
<1>4. Len(sockets') = Len(sockets) - 1
  BY <1>1 DEF SocketDel
<1> QED BY <1>3, <1>4, CountsAreNumbers DEF Lost

(* A sock_add that fails behind socket() loses one descriptor, and one     *)
(* that succeeds none.                                                     *)
LEMMA AddCounts == ASSUME Inv, LeaksCounted, Add \/ Add6 PROVE LeaksCounted'
<1> DEFINE act == IF InBind("add") THEN "add" ELSE "add6"
<1>1. InBind(act) /\ Free # {} /\ step \in Nat \ {0} /\ open' = open \cup {NewFd} /\ pc = "bind"
  BY DEF Add, Add6, InBind, Inv, TypeOK
<1>2. Name \in Names
  BY <1>1, StepFacts
<1>3. Lost' = Lost \/ (Lost' = Lost + 1 /\ pc' = "failed")
  BY <1>1, <1>2, TakenCounts DEF Add, Add6
<1>4. failures' = failures /\ cfg' = cfg
  BY DEF Add, Add6
<1>5. (pc' = "bind" /\ step' = step + 1) \/ (pc' = "failed" /\ step' = step)
  BY <1>1 DEF Add, Add6
<1>6. Detected /\ pc' = "bind" => Detected'
  <2> SUFFICES ASSUME NEW k \in DOMAIN Plan(cfg), k < step, Plan(cfg)[k].act = "detect",
                      step' = step + 1
               PROVE  Detected'
    BY <1>5 DEF Detected
  <2>1. k \in Int
    BY PlanAddsFirst DEF AddsFirst
  <2> QED BY <2>1, <1>1, <1>4 DEF Detected
<1> QED BY <1>1, <1>3, <1>4, <1>5, <1>6, CountsAreNumbers DEF LeaksCounted

(* iface_ip6_get loses the descriptor of its netlink socket.               *)
LEMMA DetectCounts == ASSUME Inv, LeaksCounted, Detect \/ DetectWaits PROVE LeaksCounted'
<1>1. InBind("detect") /\ Free # {} /\ step \in Nat \ {0} /\ pc = "bind"
  BY DEF Detect, DetectWaits, InBind, Inv, TypeOK
<1>2. Lost' = Lost + 1 /\ failures' = failures /\ cfg' = cfg
  BY <1>1, TakenCounts DEF Detect, DetectWaits
<1>3. step \in DOMAIN Plan(cfg) /\ Plan(cfg)[step].act = "detect"
  BY <1>1, PlanAddsFirst DEF InBind, AddsFirst
<1>4. ~ Detected
  <2> SUFFICES ASSUME NEW k \in DOMAIN Plan(cfg), k < step, Plan(cfg)[k].act = "detect"
               PROVE  FALSE
    BY DEF Detected
  <2>1. k = step
    BY <1>3, PlanDetectsOnce DEF Once
  <2> QED BY <2>1, <1>1
<1>5. (pc' = "bind" /\ step' = step + 1) \/ pc' \in {"failed", "stuck"}
  BY <1>1 DEF Detect, DetectWaits
<1>6. pc' = "bind" => Detected'
  BY <1>1, <1>2, <1>3, <1>5 DEF Detected
<1> QED BY <1>1, <1>2, <1>4, <1>5, <1>6, CountsAreNumbers DEF LeaksCounted

(* The steps that take no descriptor.                                      *)
LEMMA OthersCount ==
  ASSUME Inv, LeaksCounted,
         \/ Check \/ NoDescriptor \/ Join \/ DetectSpins \/ Bound \/ Failed
         \/ CloseOne \/ CloseDone \/ Retry \/ RunReturns \/ RunBlocks
  PROVE  LeaksCounted'
<1>1. CASE CloseOne
  <2>1. Lost' = Lost
    BY <1>1, SocketDelCounts DEF CloseOne
  <2> QED BY <1>1, <2>1 DEF CloseOne, LeaksCounted
<1>2. CASE ~ CloseOne
  <2>1. UNCHANGED <<cfg, sockets, open>>
    BY <1>2 DEF Check, NoDescriptor, Join, DetectSpins, Bound, Failed, CloseDone, Retry,
           RunReturns, RunBlocks
  <2>2. Lost' = Lost
    BY <2>1 DEF Lost
  <2>3. CASE Failed
    BY <2>2, <2>3, CountsAreNumbers DEF Failed, LeaksCounted, MaxCounted
  <2>4. CASE Join
    <3>1. failures' = failures /\ pc = "bind" /\ pc' \in {"bind", "failed"}
      BY <2>4 DEF Join, InBind
    <3>2. Detected /\ pc' = "bind" => Detected'
      <4> SUFFICES ASSUME NEW k \in DOMAIN Plan(cfg), k < step,
                          Plan(cfg)[k].act = "detect", pc' = "bind"
                   PROVE  Detected'
        BY DEF Detected
      <4>1. k \in Int
        BY PlanAddsFirst DEF AddsFirst
      <4>2. step' = step + 1
        BY <2>4 DEF Join
      <4> QED BY <4>1, <4>2, <2>1, CountsAreNumbers DEF Detected
    <3> QED BY <2>2, <3>1, <3>2, CountsAreNumbers DEF LeaksCounted
  <2>5. CASE Check \/ Retry
    <3>1. /\ failures' = failures /\ pc \in {"sanity", "sleep"}
          /\ pc' \in {"bind", "exited", "run"}
      BY <2>5 DEF Check, Retry
    <3> QED BY <2>2, <3>1, CountsAreNumbers DEF LeaksCounted
  <2>6. CASE NoDescriptor \/ DetectSpins \/ Bound \/ CloseDone \/ RunReturns \/ RunBlocks
    <3>1. /\ failures' = failures
          /\ \/ pc' \in {"failed", "stuck", "blocked", "run", "exited", "shut"}
             \/ pc = "close" /\ pc' = "sleep"
      BY <2>6 DEF NoDescriptor, DetectSpins, Bound, CloseDone, RunReturns, RunBlocks
    <3> QED BY <2>2, <3>1, CountsAreNumbers DEF LeaksCounted
  <2> QED BY <1>2, <2>3, <2>4, <2>5, <2>6
<1> QED BY <1>1, <1>2

(* Every step keeps the count: two for each failure, and one in the middle *)
(* of an attempt.                                                          *)
LEMMA CountsNext == Inv /\ LeaksCounted /\ [Next]_vars => LeaksCounted'
<1> SUFFICES ASSUME Inv, LeaksCounted, [Next]_vars PROVE LeaksCounted'
  OBVIOUS
<1>1. CASE Main
  BY <1>1, AddCounts, DetectCounts, OthersCount DEF Main
<1>2. CASE ~ Main
  <2>1. UNCHANGED mainVars
    BY <1>2 DEF Next, Signal, Stopped, AddressComes, AddressGoes, vars
  <2> QED BY <2>1 DEF mainVars, LeaksCounted, Lost, Detected
<1> QED BY <1>1, <1>2

(* A failed attempt costs two descriptors at most, whatever fails and      *)
(* however often; while an attempt is made another two may be gone.        *)
THEOREM LeaksAreBounded == Spec => []LeakBound
<1>1. Init => LeaksCounted
  <2> SUFFICES ASSUME Init PROVE LeaksCounted
    OBVIOUS
  <2>1. Lost = 0
    BY FS_EmptySet DEF Init, Lost
  <2> QED BY <2>1 DEF Init, LeaksCounted
<1>2. LeaksCounted => LeakBound
  BY DEF LeaksCounted, LeakBound, Lost
<1> QED BY <1>1, <1>2, InvAlways, CountsNext, PTL DEF Spec

-----------------------------------------------------------------------------
(* What an attempt has come to.  A part of the plan of sockets_bind opens  *)
(* each of its sockets once, joins a multicast group only with the socket  *)
(* it has just opened, and does so for both SSDP sockets.                  *)

Opens(d) == d.act \in {"add", "add6"}
Grouped == {"lan_ssdp", "wan_ssdp"}

OpensIn(s, names) == \A k \in DOMAIN s : Opens(s[k]) => s[k].name \in names
OpensOnce(s) ==
  \A k, l \in DOMAIN s : Opens(s[k]) /\ Opens(s[l]) /\ s[k].name = s[l].name => k = l
JoinsNewest(s) ==
  \A k \in DOMAIN s : s[k].act = "join" =>
     k - 1 \in DOMAIN s /\ Opens(s[k - 1]) /\ s[k - 1].name = s[k].name
JoinsGroups(s) ==
  \A k \in DOMAIN s : Opens(s[k]) /\ s[k].name \in Grouped =>
     k + 1 \in DOMAIN s /\ s[k + 1].act = "join" /\ s[k + 1].name = s[k].name

Part(s, names) ==
  /\ s \in Seq(Steps)
  /\ OpensIn(s, names) /\ OpensOnce(s) /\ JoinsNewest(s) /\ JoinsGroups(s)

(* Two parts that open different sockets make one.                    *)
LEMMA JoinedParts ==
  ASSUME NEW s, NEW names, Part(s, names),
         NEW t, NEW others, Part(t, others), names \cap others = {}
  PROVE  Part(s \o t, names \cup others)
<1> DEFINE n == Len(s)
           u == s \o t
<1>1. s \in Seq(Steps) /\ t \in Seq(Steps) /\ n \in Nat /\ Len(t) \in Nat
  BY DEF Part
<1>2. /\ u \in Seq(Steps) /\ Len(u) = n + Len(t)
      /\ \A k \in 1 .. n + Len(t) : u[k] = IF k <= n THEN s[k] ELSE t[k - n]
  BY <1>1, ConcatProperties
<1>3. /\ DOMAIN s = 1 .. n /\ DOMAIN t = 1 .. Len(t) /\ DOMAIN u = 1 .. n + Len(t)
  BY <1>1, <1>2
<1> HIDE DEF n, u
<1>4. \A k \in DOMAIN u : /\ k \in Int
                          /\ k <= n => k \in DOMAIN s /\ u[k] = s[k]
                          /\ k > n => k - n \in DOMAIN t /\ u[k] = t[k - n]
  BY <1>1, <1>2, <1>3
<1>5. OpensIn(u, names \cup others)
  BY <1>1, <1>4 DEF Part, OpensIn
<1>6. OpensOnce(u)
  <2> SUFFICES ASSUME NEW k \in DOMAIN u, NEW l \in DOMAIN u,
                      Opens(u[k]), Opens(u[l]), u[k].name = u[l].name
               PROVE  k = l
    BY DEF OpensOnce
  <2>1. CASE k <= n /\ l <= n
    BY <2>1, <1>4 DEF Part, OpensOnce
  <2>2. CASE k > n /\ l > n
    <3>1. k - n = l - n
      BY <2>2, <1>4 DEF Part, OpensOnce
    <3> QED BY <3>1, <1>1, <1>4
  <2>3. CASE (k <= n /\ l > n) \/ (k > n /\ l <= n)
    BY <2>3, <1>4 DEF Part, OpensIn
  <2> QED BY <2>1, <2>2, <2>3, <1>1, <1>4
<1>7. JoinsNewest(u)
  <2> SUFFICES ASSUME NEW k \in DOMAIN u, u[k].act = "join"
               PROVE  k - 1 \in DOMAIN u /\ Opens(u[k - 1]) /\ u[k - 1].name = u[k].name
    BY DEF JoinsNewest
  <2>1. CASE k <= n
    <3>1. k - 1 \in DOMAIN s /\ Opens(s[k - 1]) /\ s[k - 1].name = u[k].name
      BY <2>1, <1>4 DEF Part, JoinsNewest
    <3>2. k - 1 \in DOMAIN u /\ k - 1 <= n
      BY <3>1, <1>1, <1>3
    <3> QED BY <3>1, <3>2, <1>4
  <2>2. CASE k > n
    <3>1. (k - n) - 1 \in DOMAIN t /\ Opens(t[(k - n) - 1]) /\ t[(k - n) - 1].name = u[k].name
      BY <2>2, <1>4 DEF Part, JoinsNewest
    <3>2. k - 1 \in DOMAIN u /\ k - 1 > n /\ (k - n) - 1 = (k - 1) - n
      BY <3>1, <2>2, <1>1, <1>3, <1>4
    <3> QED BY <3>1, <3>2, <1>4
  <2> QED BY <2>1, <2>2, <1>1, <1>4
<1>8. JoinsGroups(u)
  <2> SUFFICES ASSUME NEW k \in DOMAIN u, Opens(u[k]), u[k].name \in Grouped
               PROVE  k + 1 \in DOMAIN u /\ u[k + 1].act = "join" /\ u[k + 1].name = u[k].name
    BY DEF JoinsGroups
  <2>1. CASE k <= n
    <3>1. k + 1 \in DOMAIN s /\ s[k + 1].act = "join" /\ s[k + 1].name = u[k].name
      BY <2>1, <1>4 DEF Part, JoinsGroups
    <3>2. k + 1 \in DOMAIN u /\ k + 1 <= n
      BY <3>1, <1>1, <1>3
    <3> QED BY <3>1, <3>2, <1>4
  <2>2. CASE k > n
    <3>1. (k - n) + 1 \in DOMAIN t /\ t[(k - n) + 1].act = "join" /\ t[(k - n) + 1].name = u[k].name
      BY <2>2, <1>4 DEF Part, JoinsGroups
    <3>2. k + 1 \in DOMAIN u /\ k + 1 > n /\ (k - n) + 1 = (k + 1) - n
      BY <3>1, <2>2, <1>1, <1>3, <1>4
    <3> QED BY <3>1, <3>2, <1>4
  <2> QED BY <2>1, <2>2, <1>1, <1>4
<1> QED BY <1>2, <1>5, <1>6, <1>7, <1>8 DEF Part, u

(* A part that is left out opens and joins nothing.                        *)
LEMMA WhenPart ==
  ASSUME NEW b, NEW s, NEW names, Part(s, names)
  PROVE  Part(When(b, s), names)
<1>1. Part(<<>>, names)
  BY DEF Part, OpensIn, OpensOnce, JoinsNewest, JoinsGroups
<1> QED BY <1>1 DEF When

(* A socket that is opened, alone or with the group it joins.              *)
LEMMA OpenedAlone ==
  ASSUME NEW act \in {"add", "add6"}, NEW name \in Names, name \notin Grouped
  PROVE  Part(<<Do(act, name)>>, {name})
<1> DEFINE s == <<Do(act, name)>>
<1>1. s \in Seq(Steps) /\ DOMAIN s = {1} /\ s[1].act = act /\ s[1].name = name
  BY DEF Do, Steps
<1> HIDE DEF s
<1> QED BY <1>1 DEF Part, OpensIn, OpensOnce, JoinsNewest, JoinsGroups, Opens, s

(* An SSDP socket is opened by one step and joins its group in the next.   *)
LEMMA OpenedAndJoined ==
  ASSUME NEW name \in Names
  PROVE  Part(<<Do("add", name), Do("join", name)>>, {name})
<1> DEFINE s == <<Do("add", name), Do("join", name)>>
<1>1. /\ s \in Seq(Steps) /\ DOMAIN s = {1, 2}
      /\ s[1].act = "add" /\ s[1].name = name /\ s[2].act = "join" /\ s[2].name = name
  BY DEF Do, Steps
<1> HIDE DEF s
<1>2. OpensIn(s, {name}) /\ OpensOnce(s)
  BY <1>1 DEF OpensIn, OpensOnce, Opens
<1>3. JoinsNewest(s) /\ JoinsGroups(s)
  BY <1>1 DEF JoinsNewest, JoinsGroups, Opens
<1> QED BY <1>1, <1>2, <1>3 DEF Part, s

(* The step that detects the address opens no socket of the list.          *)
LEMMA OpensNothing == Part(<<Do("detect", "ext6")>>, {})
<1> DEFINE s == <<Do("detect", "ext6")>>
<1>1. s \in Seq(Steps) /\ DOMAIN s = {1} /\ s[1].act = "detect"
  BY DEF Do, Steps, Names
<1> HIDE DEF s
<1> QED BY <1>1 DEF Part, OpensIn, OpensOnce, JoinsNewest, JoinsGroups, Opens, s

(* Whatever the command line, the plan is such a part.                     *)
LEMMA PlanIsPart ==
  ASSUME NEW c
  PROVE  Part(Plan(c), Names)
<1> DEFINE lan == <<Do("add", "lan_ssdp"), Do("join", "lan_ssdp")>>
           wan == <<Do("add", "wan_ssdp"), Do("join", "wan_ssdp")>>
           both == <<Do("add", "lan_ssdp"), Do("join", "lan_ssdp"),
                     Do("add", "wan_ssdp"), Do("join", "wan_ssdp")>>
           detect == When(~ c.wanIPv6_given, <<Do("detect", "ext6")>>)
           ext == <<Do("add", "natpmp_lan")>> \o detect \o <<Do("add6", "ext6")>>
           two == <<Do("add", "tcp1"), Do("add", "tcp2")>>
           ssdp == When(c.upnp_udp, both)
           extended == When(c.nat_pmp_ext, ext)
           classic == When(c.nat_pmp, <<Do("add", "natpmp")>>)
           tcp == When(c.upnp_tcp, two)
           shared == When(c.shared_udp_sock /\ (c.upnp_udp \/ c.nat_pmp), <<Do("add", "shared")>>)
<1>1. Part(lan, {"lan_ssdp"}) /\ Part(wan, {"wan_ssdp"})
  BY OpenedAndJoined DEF Names
<1>2. both = lan \o wan
  OBVIOUS
<1>3. /\ Part(<<Do("add", "natpmp_lan")>>, {"natpmp_lan"})
      /\ Part(<<Do("add6", "ext6")>>, {"ext6"})
      /\ Part(<<Do("add", "natpmp")>>, {"natpmp"})
  BY OpenedAlone DEF Names, Grouped
<1>4. /\ Part(<<Do("add", "tcp1")>>, {"tcp1"})
      /\ Part(<<Do("add", "tcp2")>>, {"tcp2"})
      /\ Part(<<Do("add", "shared")>>, {"shared"})
  BY OpenedAlone DEF Names, Grouped
<1>5. Part(detect, {})
  BY OpensNothing, WhenPart
<1>6. two = <<Do("add", "tcp1")>> \o <<Do("add", "tcp2")>>
  OBVIOUS
<1>7. Plan(c) = ssdp \o extended \o classic \o tcp \o shared
  BY DEF Plan
<1> HIDE DEF lan, wan, both, detect, two
<1>8. Part(both, {"lan_ssdp"} \cup {"wan_ssdp"})
  BY <1>1, <1>2, JoinedParts
<1>9. Part(two, {"tcp1"} \cup {"tcp2"})
  BY <1>4, <1>6, JoinedParts
<1>10. Part(<<Do("add", "natpmp_lan")>> \o detect, {"natpmp_lan"} \cup {})
  BY <1>3, <1>5, JoinedParts
<1>11. Part(ext, {"natpmp_lan"} \cup {} \cup {"ext6"})
  BY <1>3, <1>10, JoinedParts
<1> HIDE DEF ext
<1>12. Part(ssdp, {"lan_ssdp"} \cup {"wan_ssdp"}) /\ Part(tcp, {"tcp1"} \cup {"tcp2"})
  BY <1>8, <1>9, WhenPart
<1>13. Part(extended, {"natpmp_lan"} \cup {} \cup {"ext6"})
  BY <1>11, WhenPart
<1>14. Part(classic, {"natpmp"}) /\ Part(shared, {"shared"})
  BY <1>3, <1>4, WhenPart
<1> HIDE DEF ssdp, extended, classic, tcp, shared
<1> DEFINE n2 == ({"lan_ssdp"} \cup {"wan_ssdp"}) \cup ({"natpmp_lan"} \cup {} \cup {"ext6"})
           n3 == n2 \cup {"natpmp"}
           n4 == n3 \cup ({"tcp1"} \cup {"tcp2"})
<1>15. Part(ssdp \o extended, n2)
  BY <1>12, <1>13, JoinedParts
<1>16. Part(ssdp \o extended \o classic, n3)
  BY <1>14, <1>15, JoinedParts
<1>17. Part(ssdp \o extended \o classic \o tcp, n4)
  BY <1>12, <1>16, JoinedParts
<1>18. Part(ssdp \o extended \o classic \o tcp \o shared, n4 \cup {"shared"})
  BY <1>14, <1>17, JoinedParts
<1>19. n4 \cup {"shared"} = Names
  BY DEF Names
<1> QED BY <1>7, <1>18, <1>19

-----------------------------------------------------------------------------
(* An attempt that has come to a step has opened the sockets of the steps  *)
(* before it, and the list holds them, newest first.  The context knows    *)
(* their descriptors, that of an SSDP socket when it has joined its group. *)

Opened == {Plan(cfg)[k].name : k \in {l \in Opening(cfg) : l < step}}

NewestFirst ==
  \A i, j \in DOMAIN sockets, k, l \in Opening(cfg) :
     /\ i < j
     /\ sockets[i].name = Plan(cfg)[k].name /\ sockets[j].name = Plan(cfg)[l].name
     => k > l

Known(i) == sockets[i].name \in Kept => handle[sockets[i].name] = sockets[i].fd

Building ==
  /\ Listed = Opened /\ NewestFirst
  /\ \A i \in DOMAIN sockets : Known(i) \/ (InBind("join") /\ sockets[i].name = Name)
  /\ InBind("join") => sockets # <<>> /\ sockets[1].name = Name

BuildInv ==
  /\ pc \in {"sanity", "sleep"} => sockets = <<>>
  /\ pc = "bind" => Building
  /\ RunsComplete

(* The step that an attempt is at, and the next one.                       *)
LEMMA AtStep ==
  ASSUME Inv, NEW act, InBind(act)
  PROVE  /\ pc = "bind" /\ step \in Nat \ {0} /\ step \in DOMAIN Plan(cfg)
         /\ Plan(cfg)[step].act = act /\ Plan(cfg)[step].name = Name /\ Name \in Names
         /\ step \in Opening(cfg) <=> act \in {"add", "add6"}
         /\ Opening(cfg) \subseteq Nat
         /\ Plan(cfg) \in Seq(Steps)
         /\ OpensOnce(Plan(cfg)) /\ JoinsNewest(Plan(cfg)) /\ JoinsGroups(Plan(cfg))
<1>1. /\ Plan(cfg) \in Seq(Steps)
      /\ OpensOnce(Plan(cfg)) /\ JoinsNewest(Plan(cfg)) /\ JoinsGroups(Plan(cfg))
  BY PlanIsPart DEF Part
<1>2. pc = "bind" /\ step \in DOMAIN Plan(cfg) /\ step \in Nat \ {0}
  BY <1>1 DEF InBind, Inv, TypeOK
<1>3. Name \in Names
  BY <1>2, StepFacts
<1>4. Plan(cfg)[step].act = act /\ Plan(cfg)[step].name = Name
  BY DEF InBind, Name
<1>5. Opening(cfg) \subseteq Nat
  BY <1>1 DEF Opening
<1> QED BY <1>1, <1>2, <1>3, <1>4, <1>5 DEF Opening

(* Each socket of the plan is opened by one step.                          *)
LEMMA OpenedOnce ==
  ASSUME OpensOnce(Plan(cfg)), NEW k \in Opening(cfg), NEW l \in Opening(cfg),
         Plan(cfg)[k].name = Plan(cfg)[l].name
  PROVE  k = l
BY DEF OpensOnce, Opening, Opens

(* A step done that opens no socket.                                       *)
LEMMA StepDone ==
  ASSUME Inv, NEW act \in {"join", "detect"}, InBind(act), Listed = Opened, NewestFirst,
         step' = step + 1, UNCHANGED <<cfg, sockets>>
  PROVE  /\ Listed' = Opened' /\ NewestFirst'
         /\ ~ InBind("join")'
<1>1. /\ step \in Nat \ {0} /\ step \notin Opening(cfg) /\ Opening(cfg) \subseteq Nat
      /\ JoinsNewest(Plan(cfg)) /\ step \in DOMAIN Plan(cfg) /\ Plan(cfg)[step].act = act
  BY AtStep
<1>2. {l \in Opening(cfg) : l < step + 1} = {l \in Opening(cfg) : l < step}
  BY <1>1
<1>3. Listed' = Opened' /\ NewestFirst'
  <2>1. Opened' = {Plan(cfg)[k].name : k \in {l \in Opening(cfg) : l < step + 1}}
    BY DEF Opened
  <2>2. Opened' = Opened
    BY <1>2, <2>1 DEF Opened
  <2>3. Listed' = Listed
    BY DEF Listed
  <2>4. NewestFirst'
    BY DEF NewestFirst
  <2> QED BY <2>2, <2>3, <2>4
<1>4. ASSUME InBind("join")' PROVE FALSE
  <2>1. Plan(cfg)[step + 1].act = "join" /\ step + 1 \in DOMAIN Plan(cfg)
    BY <1>1, <1>4, AtStep DEF InBind
  <2>2. Opens(Plan(cfg)[(step + 1) - 1]) /\ (step + 1) - 1 = step
    BY <1>1, <2>1 DEF JoinsNewest
  <2> QED BY <1>1, <2>2 DEF Opens
<1> QED BY <1>3, <1>4

(* A socket that is opened and registered; the context knows it, unless it *)
(* is to join its group in the next step.                                  *)
LEMMA AddBuilds == ASSUME Inv, BuildInv, Add \/ Add6 PROVE BuildInv'
<1> DEFINE act == IF InBind("add") THEN "add" ELSE "add6"
           f == NewFd
           new == [name |-> Name, fd |-> f]
<1>1. InBind(act) /\ Free # {} /\ act \in {"add", "add6"} /\ cfg' = cfg
  BY DEF Add, Add6
<1>2. CASE pc' = "failed"
  BY <1>2 DEF BuildInv, RunsComplete
<1>3. CASE pc' # "failed"
  <2>1. /\ pc' = "bind" /\ step' = step + 1 /\ sockets' = <<new>> \o sockets
        /\ Keep(Name, f)
    BY <1>1, <1>3, AtStep DEF Add, Add6, Register
  <2>2. Building
    BY <1>1, AtStep DEF BuildInv
  <2>3. f \in Fds
    BY <1>1, NewFdIsFree
  <2> HIDE DEF act, f
  <2>4. /\ step \in Nat \ {0} /\ step \in Opening(cfg) /\ Opening(cfg) \subseteq Nat
        /\ Plan(cfg)[step].name = Name /\ Plan(cfg)[step].act = act /\ Name \in Names
        /\ step \in DOMAIN Plan(cfg)
        /\ OpensOnce(Plan(cfg)) /\ JoinsNewest(Plan(cfg)) /\ JoinsGroups(Plan(cfg))
    BY <1>1, AtStep
  <2>5. sockets \in Seq(Entries) /\ <<new>> \in Seq(Entries)
    BY <2>3, <2>4 DEF Inv, TypeOK, Entries
  <2>6. /\ sockets' \in Seq(Entries) /\ Len(sockets') = Len(sockets) + 1
        /\ sockets'[1] = new
        /\ \A i \in 2 .. Len(sockets) + 1 : sockets'[i] = sockets[i - 1]
    BY <2>1, <2>5, ConcatProperties
  <2>7. /\ 1 \in DOMAIN sockets' /\ sockets'[1].name = Name /\ sockets'[1].fd = f
        /\ \A i \in DOMAIN sockets' : /\ i \in Nat /\ i >= 1
                                      /\ i # 1 => /\ i - 1 \in DOMAIN sockets
                                                  /\ sockets'[i] = sockets[i - 1]
        /\ \A i \in DOMAIN sockets : i + 1 \in DOMAIN sockets' /\ sockets'[i + 1] = sockets[i]
    BY <2>5, <2>6
  <2>8. Listed' = Listed \cup {Name}
    <3>1. \A n \in Listed' : n \in Listed \cup {Name}
      BY <2>7 DEF Listed
    <3>2. \A n \in Listed : n \in Listed'
      BY <2>7 DEF Listed
    <3>3. Name \in Listed'
      BY <2>7 DEF Listed
    <3> QED BY <3>1, <3>2, <3>3
  <2>9. Opened' = Opened \cup {Name}
    <3>1. {l \in Opening(cfg) : l < step + 1} = {l \in Opening(cfg) : l < step} \cup {step}
      BY <2>4
    <3>2. Opened' = {Plan(cfg)[k].name : k \in {l \in Opening(cfg) : l < step + 1}}
      BY <1>1, <2>1 DEF Opened
    <3> QED BY <2>4, <3>1, <3>2 DEF Opened
  <2>10. ASSUME NEW i \in DOMAIN sockets
         PROVE  /\ \A l \in Opening(cfg) : Plan(cfg)[l].name = sockets[i].name => l < step
                /\ sockets[i].name # Name
    <3>1. sockets[i].name \in Opened
      BY <2>2 DEF Building, Listed
    <3>2. PICK k \in Opening(cfg) : k < step /\ Plan(cfg)[k].name = sockets[i].name
      BY <3>1 DEF Opened
    <3>3. \A l \in Opening(cfg) : Plan(cfg)[l].name = sockets[i].name => l = k
      BY <2>4, <3>2, OpenedOnce
    <3> QED BY <2>4, <3>2, <3>3
  <2>11. NewestFirst'
    <3> SUFFICES ASSUME NEW i \in DOMAIN sockets', NEW j \in DOMAIN sockets',
                        NEW k \in Opening(cfg), NEW l \in Opening(cfg), i < j,
                        sockets'[i].name = Plan(cfg)[k].name, sockets'[j].name = Plan(cfg)[l].name
                 PROVE  k > l
      BY <1>1 DEF NewestFirst
    <3>1. j # 1 /\ j - 1 \in DOMAIN sockets /\ sockets'[j] = sockets[j - 1] /\ k \in Nat /\ l \in Nat
      BY <2>4, <2>7
    <3>2. CASE i = 1
      <4>1. k = step
        BY <3>2, <2>4, <2>7, OpenedOnce
      <4>2. l < step
        BY <3>1, <2>10
      <4> QED BY <4>1, <4>2, <3>1, <2>4
    <3>3. CASE i # 1
      <4>1. i - 1 \in DOMAIN sockets /\ sockets'[i] = sockets[i - 1] /\ i - 1 < j - 1
        BY <2>7, <3>3
      <4> QED BY <2>2, <3>1, <4>1 DEF Building, NewestFirst
    <3> QED BY <3>2, <3>3
  <2>12. ASSUME NEW i \in DOMAIN sockets'
         PROVE  Known(i)' \/ (InBind("join")' /\ sockets'[i].name = Name')
    <3>1. handle \in [Names -> {None} \cup Fds]
      BY DEF Inv, TypeOK
    <3>2. CASE i = 1 /\ Name \notin Grouped
      <4>1. Name \in Kept => handle' = [handle EXCEPT ![Name] = f]
        BY <2>1, <3>2 DEF Keep, Kept, Grouped
      <4>2. Name \in Kept => handle'[Name] = f
        BY <2>4, <3>1, <4>1
      <4> QED BY <3>2, <4>2, <2>7 DEF Known
    <3>3. CASE i = 1 /\ Name \in Grouped
      <4>1. /\ step + 1 \in DOMAIN Plan(cfg) /\ Plan(cfg)[step + 1].act = "join"
            /\ Plan(cfg)[step + 1].name = Name
        BY <1>1, <2>4, <3>3 DEF JoinsGroups, Opens
      <4>2. Plan(cfg) \in Seq(Steps)
        BY PlanIsPart DEF Part
      <4>3. InBind("join")'
        BY <1>1, <2>1, <4>1, <4>2 DEF InBind
      <4>4. Name' = Name
        BY <1>1, <2>1, <4>1 DEF Name
      <4> QED BY <3>3, <4>3, <4>4, <2>7
    <3>4. CASE i # 1
      <4>1. i - 1 \in DOMAIN sockets /\ sockets'[i] = sockets[i - 1]
        BY <2>7, <3>4
      <4>2. Known(i - 1)
        <5>1. ~ InBind("join")
          BY <1>1, <2>4 DEF InBind
        <5> QED BY <4>1, <5>1, <2>2 DEF Building
      <4>3. sockets[i - 1].name \in Names /\ sockets[i - 1].name # Name
        <5>1. sockets[i - 1] \in Entries
          BY <4>1, <2>5
        <5> QED BY <5>1, <4>1, <2>10 DEF Entries
      <4>4. handle'[sockets[i - 1].name] = handle[sockets[i - 1].name]
        BY <2>1, <3>1, <4>3 DEF Keep
      <4> QED BY <4>1, <4>2, <4>4 DEF Known
    <3> QED BY <3>2, <3>3, <3>4
  <2>13. InBind("join")' => sockets' # <<>> /\ sockets'[1].name = Name'
    <3> SUFFICES ASSUME InBind("join")' PROVE sockets' # <<>> /\ sockets'[1].name = Name'
      OBVIOUS
    <3>1. Plan(cfg) \in Seq(Steps)
      BY PlanIsPart DEF Part
    <3>2. step + 1 \in DOMAIN Plan(cfg) /\ Plan(cfg)[step + 1].act = "join"
      BY <1>1, <2>1, <2>4, <3>1 DEF InBind
    <3>3. Plan(cfg)[(step + 1) - 1].name = Plan(cfg)[step + 1].name /\ (step + 1) - 1 = step
      BY <2>4, <3>2 DEF JoinsNewest
    <3>4. Name' = Plan(cfg)[step + 1].name
      BY <1>1, <2>1 DEF Name
    <3> QED BY <2>4, <2>6, <2>7, <3>3, <3>4, EmptySeq
  <2>14. Building'
    BY <2>2, <2>8, <2>9, <2>11, <2>12, <2>13 DEF Building
  <2> QED BY <2>1, <2>14 DEF BuildInv, RunsComplete
<1> QED BY <1>2, <1>3

(* The join gives the context the socket at the head of the list, which is *)
(* the one it means.                                                       *)
LEMMA JoinBuilds == ASSUME Inv, BuildInv, Join PROVE BuildInv'
<1>1. InBind("join") /\ UNCHANGED <<cfg, sockets>> /\ pc = "bind"
  BY AtStep DEF Join
<1>2. Building /\ sockets # <<>> /\ sockets[1].name = Name
  BY <1>1 DEF BuildInv, Building
<1>3. CASE pc' = "failed"
  BY <1>3 DEF BuildInv, RunsComplete
<1>4. CASE pc' # "failed"
  <2>1. /\ step' = step + 1 /\ pc' = "bind"
        /\ handle' = [handle EXCEPT ![Name] = Head(sockets).fd]
    BY <1>1, <1>4 DEF Join
  <2>2. Listed' = Opened' /\ NewestFirst' /\ ~ InBind("join")'
    BY <1>1, <1>2, <2>1, StepDone DEF Building
  <2>3. sockets \in Seq(Entries) /\ handle \in [Names -> {None} \cup Fds]
    BY DEF Inv, TypeOK, Entries
  <2>4. 1 \in DOMAIN sockets /\ Head(sockets) = sockets[1] /\ \A i \in DOMAIN sockets : i \in Nat /\ 1 <= i
    BY <1>2, <2>3
  <2>5. ASSUME NEW i \in DOMAIN sockets
        PROVE  Known(i)'
    <3>1. sockets[i].name \in Names
      <4>1. sockets[i] \in Entries
        BY <2>3
      <4> QED BY <4>1 DEF Entries
    <3>2. CASE i = 1
      BY <1>1, <1>2, <2>1, <2>3, <2>4, <3>1, <3>2 DEF Known
    <3>3. CASE i # 1
      <4>1. sockets[i].name \in Listed /\ sockets[1].name \in Listed
        BY <2>4 DEF Listed
      <4>2. PICK k \in Opening(cfg) : Plan(cfg)[k].name = sockets[i].name
        BY <1>2, <4>1 DEF Building, Opened
      <4>3. PICK l \in Opening(cfg) : Plan(cfg)[l].name = sockets[1].name
        BY <1>2, <4>1 DEF Building, Opened
      <4>4. sockets[i].name # Name
        <5> SUFFICES ASSUME sockets[i].name = Name PROVE FALSE
          OBVIOUS
        <5>1. 1 < i
          BY <2>4, <3>3
        <5>2. k > k
          BY <1>2, <2>4, <4>2, <5>1 DEF Building, NewestFirst
        <5>3. k \in Nat
          BY <1>1, <4>2, AtStep
        <5> QED BY <5>2, <5>3
      <4>5. Known(i)
        BY <1>2, <4>4 DEF Building
      <4> QED BY <1>1, <2>1, <2>3, <3>1, <4>4, <4>5 DEF Known
    <3> QED BY <3>2, <3>3
  <2>6. Building'
    BY <1>1, <2>2, <2>5 DEF Building
  <2> QED BY <2>1, <2>6 DEF BuildInv, RunsComplete
<1> QED BY <1>3, <1>4

(* Detection leaves the list and the sockets of the context as they are.   *)
LEMMA DetectBuilds == ASSUME Inv, BuildInv, Detect PROVE BuildInv'
<1>1. InBind("detect") /\ UNCHANGED <<cfg, sockets, handle>> /\ pc = "bind"
  BY AtStep DEF Detect
<1>2. Building /\ ~ InBind("join")
  BY <1>1 DEF BuildInv, Building, InBind
<1>3. CASE pc' = "failed"
  BY <1>3 DEF BuildInv, RunsComplete
<1>4. CASE pc' # "failed"
  <2>1. step' = step + 1 /\ pc' = "bind"
    BY <1>1, <1>4 DEF Detect
  <2>2. Listed' = Opened' /\ NewestFirst' /\ ~ InBind("join")'
    BY <1>1, <1>2, <2>1, StepDone DEF Building
  <2>3. \A i \in DOMAIN sockets : Known(i)'
    BY <1>1, <1>2 DEF Building, Known
  <2>4. Building'
    BY <1>1, <2>2, <2>3 DEF Building
  <2> QED BY <2>1, <2>4 DEF BuildInv, RunsComplete
<1> QED BY <1>3, <1>4

(* The first attempt and each retry begin with an empty list.              *)
LEMMA AttemptBegins == Inv /\ sockets = <<>> /\ step = 1 => Building
<1> SUFFICES ASSUME Inv, sockets = <<>>, step = 1 PROVE Building
  OBVIOUS
<1>1. ~ InBind("join")
  <2> SUFFICES ASSUME InBind("join") PROVE FALSE
    OBVIOUS
  <2>1. step > 1
    BY StepFacts
  <2> QED BY <2>1
<1>2. Opening(cfg) \subseteq Nat \ {0}
  <2>1. Plan(cfg) \in Seq(Steps)
    BY PlanIsPart DEF Part
  <2> QED BY <2>1 DEF Opening
<1>3. {l \in Opening(cfg) : l < step} = {}
  BY <1>2
<1>4. Opened = {}
  BY <1>3 DEF Opened
<1>5. DOMAIN sockets = {}
  OBVIOUS
<1> QED BY <1>1, <1>4, <1>5 DEF Building, Listed, NewestFirst

(* When the plan is done, run() begins.                                    *)
LEMMA BoundBuilds == ASSUME Inv, BuildInv, Bound PROVE BuildInv'
<1>1. /\ pc = "bind" /\ pc' = "run" /\ step > Len(Plan(cfg)) /\ Building
      /\ UNCHANGED <<cfg, sockets, handle>>
  BY DEF Bound, BuildInv
<1>2. step \in Nat /\ Plan(cfg) \in Seq(Steps)
  BY PlanIsPart DEF Part, Inv, TypeOK
<1>3. {l \in Opening(cfg) : l < step} = Opening(cfg)
  BY <1>1, <1>2 DEF Opening
<1>4. Listed = {Plan(cfg)[k].name : k \in Opening(cfg)}
  BY <1>1, <1>3 DEF Building, Opened
<1>5. ~ InBind("join")
  BY <1>1, <1>2 DEF InBind
<1>6. \A i \in DOMAIN sockets : Known(i)
  BY <1>1, <1>5 DEF Building
<1>7. NewestFirst /\ Listed' = Listed
  BY <1>1 DEF Building, Listed
<1>8. RunsComplete'
  BY <1>1, <1>4, <1>6, <1>7 DEF RunsComplete, NewestFirst, Known
<1> QED BY <1>1, <1>8 DEF BuildInv

(* Every step keeps the list at the sockets of the steps that are done.    *)
LEMMA BuildNext == Inv /\ BuildInv /\ [Next]_vars => BuildInv'
<1> SUFFICES ASSUME Inv, BuildInv, [Next]_vars PROVE BuildInv'
  OBVIOUS
<1>1. CASE Add \/ Add6 \/ Join \/ Detect \/ Bound
  BY <1>1, AddBuilds, JoinBuilds, DetectBuilds, BoundBuilds
<1>2. CASE Check \/ Retry
  <2>1. sockets' = <<>> /\ (pc' = "bind" => step' = 1)
    BY <1>2 DEF Check, Retry, BuildInv, Inv, JoinHasSocket
  <2>2. Inv'
    BY InvNext
  <2>3. pc' \in {"bind", "exited"} \/ (pc' = "run" /\ Shutdown')
    BY <1>2 DEF Check, Retry
  <2>4. pc' = "bind" => Building'
    <3>1. (Inv /\ sockets = <<>> /\ step = 1 => Building)'
      BY AttemptBegins, PTL
    <3> QED BY <2>1, <2>2, <3>1
  <2> QED BY <2>3, <2>4 DEF BuildInv, RunsComplete
<1>3. CASE \/ NoDescriptor \/ DetectSpins \/ DetectWaits \/ Failed
           \/ CloseOne \/ CloseDone \/ RunReturns \/ RunBlocks
  <2>1. \/ pc' \in {"failed", "stuck", "blocked", "close", "exited", "shut"}
        \/ pc' = "sleep" /\ sockets' = <<>>
    BY <1>3 DEF NoDescriptor, DetectSpins, DetectWaits, Failed, CloseOne, CloseDone,
           RunReturns, RunBlocks
  <2> QED BY <2>1 DEF BuildInv, RunsComplete
<1>4. CASE ~ Main
  <2>1. UNCHANGED mainVars /\ (Shutdown' = Shutdown \/ Shutdown')
    BY <1>4 DEF Next, Signal, Stopped, AddressComes, AddressGoes, vars
  <2>2. Listed' = Listed /\ Opened' = Opened /\ (NewestFirst => NewestFirst')
    BY <2>1 DEF mainVars, Listed, Opened, NewestFirst
  <2>3. pc' = "bind" => Building'
    BY <2>1, <2>2 DEF mainVars, BuildInv, Building, Known, InBind, Name
  <2>4. RunsComplete'
    BY <2>1, <2>2 DEF mainVars, BuildInv, RunsComplete
  <2> QED BY <2>1, <2>3, <2>4 DEF mainVars, BuildInv
<1> QED BY <1>1, <1>2, <1>3, <1>4 DEF Main

(* run() after a bind, the first or one that followed any number of failed *)
(* attempts, finds every socket the command line asks for, newest first,   *)
(* and the descriptors that the context keeps are those of the list.       *)
THEOREM RunsAreComplete == Spec => []RunsComplete
<1>1. Init => BuildInv
  BY DEF Init, BuildInv, RunsComplete
<1>2. BuildInv => RunsComplete
  BY DEF BuildInv
<1> QED BY <1>1, <1>2, InvAlways, BuildNext, PTL DEF Spec
=============================================================================
