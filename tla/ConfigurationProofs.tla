------------------------ MODULE ConfigurationProofs -------------------------
(***************************************************************************)
(* Proofs about Configuration, for every section of settings which are     *)
(* empty or one word each, whatever these words are.                       *)
(***************************************************************************)
EXTENDS Configuration, ListFacts, SequenceTheorems

(* The command line of the script falls into nine items, each of which is  *)
(* empty, a switch, or an option with the value the section has for it.    *)
(* The values of -b and -s are missing when they are empty in the section. *)

Ext(u, item)  == IF u.natpmpext = "1" THEN item ELSE <<>>
Both(u, item) == IF UsesIPv4(u) THEN item ELSE <<>>

Daemon(u)    == <<"-g">>
WanIPv6(u)   == Ext(u, <<"-b">> \o Word(u.wanipv6))
AftrIPv6(u)  == Ext(u, <<"-s">> \o Word(u.aftripv6))
Persist(u)   == Ext(u, IF u.persistent = "1" THEN <<"--persistent">> ELSE <<>>)
LanIface(u)  == Both(u, Param("--lan-iface", u.laniface))
WanIface(u)  == Both(u, Param("--wan-iface", u.waniface))
LanIPv4(u)   == Both(u, Param("-l", u.lanipv4))
WanIPv4(u)   == Both(u, Param("-w", u.wanipv4))
AftrIPv4(u)  == Both(u, Param("-a", u.aftripv4))

Items(u) == <<Daemon(u), WanIPv6(u), AftrIPv6(u), Persist(u), LanIface(u),
              WanIface(u), LanIPv4(u), WanIPv4(u), AftrIPv4(u)>>

(* What is left of the line where each of them begins, and at the end.     *)
From9(u) == AftrIPv4(u) \o <<>>
From8(u) == WanIPv4(u)  \o From9(u)
From7(u) == LanIPv4(u)  \o From8(u)
From6(u) == WanIface(u) \o From7(u)
From5(u) == LanIface(u) \o From6(u)
From4(u) == Persist(u)  \o From5(u)
From3(u) == AftrIPv6(u) \o From4(u)
From2(u) == WanIPv6(u)  \o From3(u)
From1(u) == Daemon(u)   \o From2(u)

From(u) == <<From1(u), From2(u), From3(u), From4(u), From5(u),
             From6(u), From7(u), From8(u), From9(u), <<>> >>

Acceptable(u) == u.natpmpext = "1" => u.wanipv6 \in IPv6 /\ u.aftripv6 \in IPv6

(* What the items before k have made of the context.                       *)
Applied(u, c, k) ==
  UsesIPv4(u) =>
    /\ k > 7 /\ u.lanipv4 \in IPv4 => c.lanIP = u.lanipv4
    /\ k > 8 /\ u.wanipv4 \in IPv4 => c.wanIP = u.wanipv4

(* The parser is always where an item of the line begins: it never takes a *)
(* value for an option.                                                    *)
AtItem(u, line, c) == {k \in 1 .. 10 : line = From(u)[k] /\ Applied(u, c, k)}

HasFields == {"lanIP", "wanIP"} \subseteq DOMAIN ctx

LineInv ==
  /\ HasFields
  /\ FromUci /\ Plain(uci) =>
       /\ pc \notin {"script", "refused"} => given # <<>>
       /\ pc = "parse" => AtItem(uci, argv, ctx) # {}
       /\ pc = "parsed" => Applied(uci, ctx, 10)
       /\ Acceptable(uci) => pc \notin {"failed", "help"}

-----------------------------------------------------------------------------
(* A list with one word in front, and what is left behind it.              *)
LEMMA OneAhead ==
  ASSUME NEW S, NEW o \in S, NEW rest \in Seq(S)
  PROVE  LET line == <<o>> \o rest IN
         /\ line \in Seq(S) /\ line # <<>> /\ line[1] = o /\ Len(line) = Len(rest) + 1
         /\ SubSeq(line, 2, Len(line)) = rest
         /\ rest # <<>> => line[2] = rest[1]
<1> DEFINE line == <<o>> \o rest
           tail == SubSeq(line, 2, Len(line))
<1>1. <<o>> \in Seq(S) /\ Len(<<o>>) = 1 /\ <<o>>[1] = o
  OBVIOUS
<1>2. /\ line \in Seq(S) /\ Len(line) = Len(rest) + 1 /\ Len(rest) \in Nat
      /\ line[1] = o /\ \A i \in 1 .. Len(rest) : line[i + 1] = rest[i]
  <2>1. /\ line \in Seq(S) /\ Len(line) = 1 + Len(rest)
        /\ \A i \in 1 .. 1 + Len(rest) : line[i] = IF i <= 1 THEN <<o>>[i] ELSE rest[i - 1]
    BY <1>1, ConcatProperties
  <2> QED BY <1>1, <2>1
<1> HIDE DEF line
<1>3. tail = rest
  <2>1. /\ tail \in Seq(S) /\ Len(tail) = Len(rest)
        /\ \A i \in 1 .. Len(rest) : tail[i] = line[i + 1]
    BY <1>2
  <2> QED BY <1>2, <2>1, SeqEqual
<1>4. rest # <<>> => line[2] = rest[1]
  <2>1. rest # <<>> => 1 \in 1 .. Len(rest)
    BY EmptySeq
  <2>2. rest # <<>> => line[1 + 1] = rest[1]
    BY <1>2, <2>1
  <2> QED BY <2>2
<1>5. line # <<>>
  BY <1>2, EmptySeq
<1> QED BY <1>2, <1>3, <1>4, <1>5 DEF line

(* A list with two words in front, and what is left behind them.           *)
LEMMA TwoAhead ==
  ASSUME NEW S, NEW o \in S, NEW v \in S, NEW rest \in Seq(S)
  PROVE  LET line == <<o, v>> \o rest IN
         /\ line \in Seq(S) /\ line # <<>> /\ line[1] = o /\ line[2] = v
         /\ Len(line) = Len(rest) + 2
         /\ SubSeq(line, 3, Len(line)) = rest
<1> DEFINE line == <<o, v>> \o rest
           tail == SubSeq(line, 3, Len(line))
<1>1. <<o, v>> \in Seq(S) /\ Len(<<o, v>>) = 2 /\ <<o, v>>[1] = o /\ <<o, v>>[2] = v
  OBVIOUS
<1>2. /\ line \in Seq(S) /\ Len(line) = Len(rest) + 2 /\ Len(rest) \in Nat
      /\ line[1] = o /\ line[2] = v /\ \A i \in 1 .. Len(rest) : line[i + 2] = rest[i]
  <2>1. /\ line \in Seq(S) /\ Len(line) = 2 + Len(rest)
        /\ \A i \in 1 .. 2 + Len(rest) : line[i] = IF i <= 2 THEN <<o, v>>[i] ELSE rest[i - 2]
    BY <1>1, ConcatProperties
  <2> QED BY <1>1, <2>1
<1> HIDE DEF line
<1>3. tail = rest
  <2>1. /\ tail \in Seq(S) /\ Len(tail) = Len(rest)
        /\ \A i \in 1 .. Len(rest) : tail[i] = line[i + 2]
    BY <1>2
  <2> QED BY <1>2, <2>1, SeqEqual
<1>4. line # <<>>
  BY <1>2, EmptySeq
<1> QED BY <1>2, <1>3, <1>4 DEF line

-----------------------------------------------------------------------------
(* The words that a line of the script may consist of.                     *)
Text(u) == Known \cup {u.wanipv6, u.aftripv6, u.laniface, u.waniface,
                       u.lanipv4, u.wanipv4, u.aftripv4}

(* What item k is: nothing, a switch, a broken -b or -s, or an option with *)
(* a value.                                                                *)
Nothing(u, k, item) ==
  /\ item = <<>>
  /\ k = 7 /\ UsesIPv4(u) => u.lanipv4 = ""
  /\ k = 8 /\ UsesIPv4(u) => u.wanipv4 = ""

Switch(u, k, item) == k \in {1, 4} /\ \E o \in {"-g", "--persistent"} : item = <<o>>

Broken(u, k, item) == k \in {2, 3} /\ ~ Acceptable(u) /\ \E o \in IPv6Options : item = <<o>>

HasIPv6(u, k, item) ==
  k \in {2, 3} /\ \E o \in IPv6Options, v \in Text(u) :
                    item = <<o, v>> /\ (Acceptable(u) => v \in IPv6)

HasIface(u, k, item) ==
  k \in {5, 6} /\ \E o \in IfaceOptions, v \in Text(u) : item = <<o, v>>

HasIPv4(u, k, item) ==
  \/ k = 7 /\ item = <<"-l", u.lanipv4>>
  \/ k = 8 /\ item = <<"-w", u.wanipv4>>
  \/ k = 9 /\ item = <<"-a", u.aftripv4>>

Shape(u, k, item) ==
  \/ Nothing(u, k, item) \/ Switch(u, k, item) \/ Broken(u, k, item)
  \/ HasIPv6(u, k, item) \/ HasIface(u, k, item) \/ HasIPv4(u, k, item)

(* One word and one word are two words.                                    *)
LEMMA OneAndOne ==
  ASSUME NEW a, NEW b
  PROVE  <<a>> \o <<b>> = <<a, b>> /\ <<a>> \o <<>> = <<a>>
<1>1. <<a>> \in Seq({a, b}) /\ <<b>> \in Seq({a, b}) /\ <<a, b>> \in Seq({a, b})
      /\ Len(<<a>>) = 1 /\ Len(<<b>>) = 1 /\ Len(<<a, b>>) = 2
      /\ <<a>>[1] = a /\ <<b>>[1] = b /\ <<a, b>>[1] = a /\ <<a, b>>[2] = b
  OBVIOUS
<1>2. /\ <<a>> \o <<b>> \in Seq({a, b}) /\ Len(<<a>> \o <<b>>) = 1 + 1
      /\ \A i \in 1 .. 1 + 1 : (<<a>> \o <<b>>)[i] = IF i <= 1 THEN <<a>>[i] ELSE <<b>>[i - 1]
  BY <1>1, ConcatProperties
<1>3. <<a>> \o <<b>> = <<a, b>>
  <2>1. (<<a>> \o <<b>>)[1] = a /\ (<<a>> \o <<b>>)[2] = b
    BY <1>1, <1>2
  <2>2. \A i \in 1 .. Len(<<a, b>>) : (<<a>> \o <<b>>)[i] = <<a, b>>[i]
    <3>1. \A i \in 1 .. 2 : i = 1 \/ i = 2
      OBVIOUS
    <3> QED BY <1>1, <2>1, <3>1
  <2>3. Len(<<a>> \o <<b>>) = Len(<<a, b>>)
    BY <1>1, <1>2
  <2> QED BY <1>1, <1>2, <2>2, <2>3, SeqEqual, Zenon
<1>4. <<a>> \o <<>> = <<a>>
  BY <1>1, ConcatEmptySeq
<1> QED BY <1>3, <1>4

(* What the shell makes of a value that is empty or one word.              *)
LEMMA PlainWords ==
  ASSUME NEW o, NEW w, w = "" \/ WordsOf[w] = <<w>>
  PROVE  /\ w = "" => Word(w) = <<>> /\ Param(o, w) = <<>>
         /\ w # "" => Word(w) = <<w>> /\ Param(o, w) = <<o, w>>
<1>1. CASE w = ""
  BY <1>1, WordsAssumption DEF Word, Param
<1>2. CASE w # ""
  <2>1. <<o>> \o WordsOf[w] = <<o, w>>
    BY <1>2, OneAndOne
  <2> QED BY <1>2, <2>1 DEF Word, Param
<1> QED BY <1>1, <1>2

(* The items of -b and -s are not those of -l and -w.                      *)
LEMMA NotIPv4Item == \A k \in {2, 3} : k # 7 /\ k # 8
OBVIOUS

(* -b or -s with what the section has for it.                              *)
LEMMA IPv6Shape ==
  ASSUME NEW u, NEW k \in {2, 3}, NEW o \in IPv6Options, NEW w \in Text(u), NEW item,
         item = Ext(u, <<o>> \o Word(w)), w = "" \/ WordsOf[w] = <<w>>,
         u.natpmpext = "1" /\ Acceptable(u) => w \in IPv6
  PROVE  Shape(u, k, item)
<1>1. CASE u.natpmpext # "1"
  <2>1. item = <<>>
    BY <1>1 DEF Ext
  <2>2. k # 7 /\ k # 8
    BY NotIPv4Item
  <2> QED BY <2>1, <2>2 DEF Shape, Nothing
<1>2. CASE u.natpmpext = "1" /\ w = ""
  <2>1. ~ Acceptable(u)
    BY <1>2, AddressAssumption
  <2>2. item = <<o>>
    BY <1>2, OneAndOne, PlainWords DEF Ext
  <2> QED BY <2>1, <2>2 DEF Shape, Broken
<1>3. CASE u.natpmpext = "1" /\ w # ""
  <2>1. item = <<o, w>>
    BY <1>3, OneAndOne, PlainWords DEF Ext
  <2> QED BY <1>3, <2>1 DEF Shape, HasIPv6
<1> QED BY <1>1, <1>2, <1>3

(* Each item that the script writes has one of these shapes.               *)
LEMMA ItemShape ==
  ASSUME NEW u, Plain(u), NEW k \in 1 .. 9
  PROVE  Shape(u, k, Items(u)[k])
<1>1. CASE k = 1
  <2>1. Items(u)[1] = <<"-g">>
    BY DEF Items, Daemon
  <2> QED BY <1>1, <2>1 DEF Shape, Switch
<1>2. CASE k = 2
  <2>1. Items(u)[2] = Ext(u, <<"-b">> \o Word(u.wanipv6))
    BY DEF Items, WanIPv6
  <2>2. u.wanipv6 \in Text(u) /\ "-b" \in IPv6Options
    BY DEF Text, IPv6Options
  <2> QED BY <1>2, <2>1, <2>2, IPv6Shape DEF Acceptable, Plain
<1>3. CASE k = 3
  <2>1. Items(u)[3] = Ext(u, <<"-s">> \o Word(u.aftripv6))
    BY DEF Items, AftrIPv6
  <2>2. u.aftripv6 \in Text(u) /\ "-s" \in IPv6Options
    BY DEF Text, IPv6Options
  <2> QED BY <1>3, <2>1, <2>2, IPv6Shape DEF Acceptable, Plain
<1>4. CASE k = 4
  <2>1. Items(u)[4] = Persist(u)
    BY DEF Items
  <2>2. Persist(u) = <<>> \/ Persist(u) = <<"--persistent">>
    BY DEF Persist, Ext
  <2> QED BY <1>4, <2>1, <2>2 DEF Shape, Nothing, Switch
<1>5. CASE k = 5
  <2>1. Items(u)[5] = LanIface(u)
    BY DEF Items
  <2>2. LanIface(u) = <<>> \/ LanIface(u) = <<"--lan-iface", u.laniface>>
    BY PlainWords DEF LanIface, Both, Plain
  <2>3. "--lan-iface" \in IfaceOptions /\ u.laniface \in Text(u)
    BY DEF IfaceOptions, Text
  <2> QED BY <1>5, <2>1, <2>2, <2>3 DEF Shape, Nothing, HasIface
<1>6. CASE k = 6
  <2>1. Items(u)[6] = WanIface(u)
    BY DEF Items
  <2>2. WanIface(u) = <<>> \/ WanIface(u) = <<"--wan-iface", u.waniface>>
    BY PlainWords DEF WanIface, Both, Plain
  <2>3. "--wan-iface" \in IfaceOptions /\ u.waniface \in Text(u)
    BY DEF IfaceOptions, Text
  <2> QED BY <1>6, <2>1, <2>2, <2>3 DEF Shape, Nothing, HasIface
<1>7. CASE k = 7
  <2>1. Items(u)[7] = LanIPv4(u)
    BY DEF Items
  <2>2. CASE UsesIPv4(u) /\ u.lanipv4 # ""
    <3>1. LanIPv4(u) = <<"-l", u.lanipv4>>
      BY <2>2, PlainWords DEF LanIPv4, Both, Plain
    <3> QED BY <1>7, <2>1, <3>1 DEF Shape, HasIPv4
  <2>3. CASE ~ UsesIPv4(u) \/ u.lanipv4 = ""
    <3>1. LanIPv4(u) = <<>>
      BY <2>3, PlainWords DEF LanIPv4, Both, Plain
    <3>2. k # 8
      BY <1>7
    <3> QED BY <1>7, <2>1, <2>3, <3>1, <3>2, Zenon DEF Shape, Nothing
  <2> QED BY <2>2, <2>3
<1>8. CASE k = 8
  <2>1. Items(u)[8] = WanIPv4(u)
    BY DEF Items
  <2>2. CASE UsesIPv4(u) /\ u.wanipv4 # ""
    <3>1. WanIPv4(u) = <<"-w", u.wanipv4>>
      BY <2>2, PlainWords DEF WanIPv4, Both, Plain
    <3> QED BY <1>8, <2>1, <3>1 DEF Shape, HasIPv4
  <2>3. CASE ~ UsesIPv4(u) \/ u.wanipv4 = ""
    <3>1. WanIPv4(u) = <<>>
      BY <2>3, PlainWords DEF WanIPv4, Both, Plain
    <3>2. k # 7
      BY <1>8
    <3> QED BY <1>8, <2>1, <2>3, <3>1, <3>2, Zenon DEF Shape, Nothing
  <2> QED BY <2>2, <2>3
<1>9. CASE k = 9
  <2>1. Items(u)[9] = AftrIPv4(u)
    BY DEF Items
  <2>2. AftrIPv4(u) = <<>> \/ AftrIPv4(u) = <<"-a", u.aftripv4>>
    BY PlainWords DEF AftrIPv4, Both, Plain
  <2> QED BY <1>9, <2>1, <2>2 DEF Shape, Nothing, HasIPv4
<1> QED BY <1>1, <1>2, <1>3, <1>4, <1>5, <1>6, <1>7, <1>8, <1>9

(* An item is a list of words, and begins with an option.                  *)
LEMMA ItemTyped ==
  ASSUME NEW u, Plain(u), NEW k \in 1 .. 9
  PROVE  Items(u)[k] \in Seq(Text(u)) /\ (Items(u)[k] # <<>> => Items(u)[k][1] \in Known)
<1>1. Known \subseteq Text(u)
  BY DEF Text
<1>2. ASSUME NEW o \in Known, NEW v \in Text(u)
      PROVE  /\ <<>> \in Seq(Text(u)) /\ <<o>> \in Seq(Text(u)) /\ <<o, v>> \in Seq(Text(u))
             /\ <<o>>[1] \in Known /\ <<o, v>>[1] \in Known
  BY <1>1
<1>3. /\ {"-g", "--persistent", "-l", "-w", "-a"} \cup IPv6Options \cup IfaceOptions \subseteq Known
      /\ u.lanipv4 \in Text(u) /\ u.wanipv4 \in Text(u) /\ u.aftripv4 \in Text(u)
  BY DEF Known, Valued, Switches, IPv4Options, Text
<1>4. Shape(u, k, Items(u)[k])
  BY ItemShape
<1> HIDE DEF Text
<1> QED BY <1>2, <1>3, <1>4
        DEF Shape, Nothing, Switch, Broken, HasIPv6, HasIface, HasIPv4

(* The line from an item on: that item, and the line from the next.        *)
LEMMA FromNext ==
  ASSUME NEW u, NEW k \in 1 .. 9
  PROVE  From(u)[k] = Items(u)[k] \o From(u)[k + 1]
<1>1. k \in {1, 2, 3, 4, 5, 6, 7, 8, 9}
  OBVIOUS
<1>2. /\ From(u)[1] = From1(u) /\ From(u)[2] = From2(u) /\ From(u)[3] = From3(u)
      /\ From(u)[4] = From4(u) /\ From(u)[5] = From5(u) /\ From(u)[6] = From6(u)
      /\ From(u)[7] = From7(u) /\ From(u)[8] = From8(u) /\ From(u)[9] = From9(u)
      /\ From(u)[10] = <<>>
  BY DEF From
<1>3. /\ Items(u)[1] = Daemon(u) /\ Items(u)[2] = WanIPv6(u) /\ Items(u)[3] = AftrIPv6(u)
      /\ Items(u)[4] = Persist(u) /\ Items(u)[5] = LanIface(u) /\ Items(u)[6] = WanIface(u)
      /\ Items(u)[7] = LanIPv4(u) /\ Items(u)[8] = WanIPv4(u) /\ Items(u)[9] = AftrIPv4(u)
  BY DEF Items
<1>4. CASE k = 1
  <2>1. From(u)[1] = Items(u)[1] \o From(u)[2]
    BY <1>2, <1>3 DEF From1
  <2>2. k + 1 = 2
    BY <1>4
  <2> QED BY <1>4, <2>1, <2>2, Zenon
<1>5. CASE k = 2
  <2>1. From(u)[2] = Items(u)[2] \o From(u)[3]
    BY <1>2, <1>3 DEF From2
  <2>2. k + 1 = 3
    BY <1>5
  <2> QED BY <1>5, <2>1, <2>2, Zenon
<1>6. CASE k = 3
  <2>1. From(u)[3] = Items(u)[3] \o From(u)[4]
    BY <1>2, <1>3 DEF From3
  <2>2. k + 1 = 4
    BY <1>6
  <2> QED BY <1>6, <2>1, <2>2, Zenon
<1>7. CASE k = 4
  <2>1. From(u)[4] = Items(u)[4] \o From(u)[5]
    BY <1>2, <1>3 DEF From4
  <2>2. k + 1 = 5
    BY <1>7
  <2> QED BY <1>7, <2>1, <2>2, Zenon
<1>8. CASE k = 5
  <2>1. From(u)[5] = Items(u)[5] \o From(u)[6]
    BY <1>2, <1>3 DEF From5
  <2>2. k + 1 = 6
    BY <1>8
  <2> QED BY <1>8, <2>1, <2>2, Zenon
<1>9. CASE k = 6
  <2>1. From(u)[6] = Items(u)[6] \o From(u)[7]
    BY <1>2, <1>3 DEF From6
  <2>2. k + 1 = 7
    BY <1>9
  <2> QED BY <1>9, <2>1, <2>2, Zenon
<1>10. CASE k = 7
  <2>1. From(u)[7] = Items(u)[7] \o From(u)[8]
    BY <1>2, <1>3 DEF From7
  <2>2. k + 1 = 8
    BY <1>10
  <2> QED BY <1>10, <2>1, <2>2, Zenon
<1>11. CASE k = 8
  <2>1. From(u)[8] = Items(u)[8] \o From(u)[9]
    BY <1>2, <1>3 DEF From8
  <2>2. k + 1 = 9
    BY <1>11
  <2> QED BY <1>11, <2>1, <2>2, Zenon
<1>12. CASE k = 9
  <2>1. From(u)[9] = Items(u)[9] \o From(u)[10]
    BY <1>2, <1>3 DEF From9
  <2>2. k + 1 = 10
    BY <1>12
  <2> QED BY <1>12, <2>1, <2>2, Zenon
<1> QED BY <1>1, <1>4, <1>5, <1>6, <1>7, <1>8, <1>9, <1>10, <1>11, <1>12

(* What is left of the line consists of words and begins with an option.   *)
LEMMA FromTyped ==
  ASSUME NEW u, Plain(u), NEW k \in 1 .. 10
  PROVE  From(u)[k] \in Seq(Text(u)) /\ (From(u)[k] # <<>> => From(u)[k][1] \in Known)
<1> DEFINE Good(i) == /\ From(u)[i] \in Seq(Text(u))
                      /\ From(u)[i] # <<>> => From(u)[i][1] \in Known
           G == {m \in 0 .. 9 : Good(10 - m)}
<1>1. 0 \in G
  <2>1. From(u)[10] = <<>>
    BY DEF From
  <2>2. <<>> \in Seq(Text(u))
    OBVIOUS
  <2>3. Good(10)
    BY <2>1, <2>2
  <2>4. 10 - 0 = 10 /\ 0 \in 0 .. 9
    OBVIOUS
  <2> HIDE DEF Good
  <2> QED BY <2>3, <2>4
<1>2. ASSUME NEW m \in 1 .. 9, m - 1 \in G PROVE m \in G
  <2> DEFINE i == 10 - m
             first == Items(u)[i]
             rest == From(u)[i + 1]
  <2>1. i \in 1 .. 9 /\ i + 1 = 10 - (m - 1)
    OBVIOUS
  <2>2. rest \in Seq(Text(u)) /\ (rest # <<>> => rest[1] \in Known)
    BY <1>2, <2>1
  <2>3. first \in Seq(Text(u)) /\ (first # <<>> => first[1] \in Known)
    BY <2>1, ItemTyped
  <2>4. From(u)[i] = first \o rest
    BY <2>1, FromNext
  <2> HIDE DEF i, first, rest
  <2>5. first \o rest \in Seq(Text(u))
    BY <2>2, <2>3, ConcatProperties
  <2>6. CASE first = <<>>
    <3>1. first \o rest = rest
      BY <2>2, <2>6, ConcatEmptySeq
    <3>2. Good(i)
      BY <2>2, <2>4, <3>1
    <3> QED BY <3>2 DEF i
  <2>7. CASE first # <<>>
    <3>1. Len(first) \in Nat \ {0} /\ Len(rest) \in Nat
      BY <2>2, <2>3, <2>7, EmptySeq
    <3>2. (first \o rest)[1] = first[1]
      BY <2>2, <2>3, <3>1, ConcatProperties
    <3>3. Good(i)
      BY <2>3, <2>4, <2>5, <2>7, <3>2
    <3> QED BY <3>3 DEF i
  <2> QED BY <2>6, <2>7
<1> HIDE DEF G
<1>3. 0 .. 9 \subseteq G
  BY <1>1, <1>2, CountingUp
<1>4. 10 - k \in G /\ 10 - (10 - k) = k
  BY <1>3
<1> QED BY <1>4 DEF G

(* The parts of the line, however the concatenations are bracketed.        *)
Cat(s, t) == s \o t

(* Concatenation is associative, with \o hidden from the provers.          *)
LEMMA Turn ==
  ASSUME NEW S
  PROVE  /\ \A s, t \in Seq(S) : Cat(s, t) \in Seq(S)
         /\ \A s, t, v \in Seq(S) : Cat(Cat(s, t), v) = Cat(s, Cat(t, v))
<1>1. \A s, t \in Seq(S) : Cat(s, t) \in Seq(S)
  BY ConcatProperties DEF Cat
<1>2. \A s, t, v \in Seq(S) : Cat(Cat(s, t), v) = Cat(s, Cat(t, v))
  BY ConcatAssociative DEF Cat
<1> QED BY <1>1, <1>2

(* Five parts.                                                             *)
LEMMA Brackets ==
  ASSUME NEW S, NEW a \in Seq(S), NEW b \in Seq(S), NEW c \in Seq(S),
         NEW d \in Seq(S), NEW e \in Seq(S)
  PROVE  Cat(Cat(Cat(Cat(a, b), c), d), e) = Cat(a, Cat(b, Cat(c, Cat(d, e))))
<1> DEFINE ab == Cat(a, b)  abc == Cat(ab, c)  de == Cat(d, e)  cde == Cat(c, de)
<1>1. ab \in Seq(S) /\ abc \in Seq(S) /\ de \in Seq(S) /\ cde \in Seq(S)
  BY Turn
<1>2. Cat(Cat(abc, d), e) = Cat(abc, de)
  BY <1>1, Turn
<1>3. Cat(abc, de) = Cat(ab, cde)
  BY <1>1, Turn
<1>4. Cat(ab, cde) = Cat(a, Cat(b, cde))
  BY <1>1, Turn
<1> QED BY <1>2, <1>3, <1>4

(* Five parts, in three pairs as the items pair them, and the rest of the  *)
(* line.                                                                   *)
LEMMA BracketsBefore ==
  ASSUME NEW S, NEW a \in Seq(S), NEW b \in Seq(S), NEW c \in Seq(S),
         NEW d \in Seq(S), NEW e \in Seq(S), NEW rest \in Seq(S)
  PROVE  LET all == Cat(Cat(Cat(Cat(a, b), c), d), e)
         IN  all \in Seq(S) /\ Cat(Cat(a, b), Cat(Cat(c, d), Cat(e, rest))) = Cat(all, rest)
<1> DEFINE ab == Cat(a, b)  abc == Cat(ab, c)  abcd == Cat(abc, d)  all == Cat(abcd, e)
           er == Cat(e, rest)  der == Cat(d, er)  cder == Cat(c, der)
<1>1. ab \in Seq(S) /\ abc \in Seq(S) /\ abcd \in Seq(S)
  BY Turn
<1>2. er \in Seq(S) /\ der \in Seq(S)
  BY Turn
<1>3. all \in Seq(S)
  <2> HIDE DEF abcd
  <2> QED BY <1>1, Turn
<1>4. Cat(Cat(c, d), er) = cder
  BY <1>2, Turn
<1>5. Cat(ab, cder) = Cat(abc, der)
  BY <1>1, <1>2, Turn
<1>6. Cat(abc, der) = Cat(abcd, er)
  BY <1>1, <1>2, Turn
<1>7. Cat(abcd, er) = Cat(all, rest)
  <2> HIDE DEF abcd
  <2> QED BY <1>1, Turn
<1> QED BY <1>3, <1>4, <1>5, <1>6, <1>7

(* The line that the script gives to portproxy is the nine items.          *)
LEMMA LineIs ==
  ASSUME NEW u, Plain(u)
  PROVE  From(u)[1] = <<"-g">> \o ExtParams(u) \o IPv4Params(u)
<1> DEFINE S == Text(u)
<1>1. /\ From(u)[1] = From1(u) /\ From(u)[5] = From5(u)
  BY DEF From
<1>2. /\ "-g" \in S /\ "-b" \in S /\ "-s" \in S /\ "--persistent" \in S
      /\ "--lan-iface" \in S /\ "--wan-iface" \in S /\ "-l" \in S /\ "-w" \in S /\ "-a" \in S
  BY DEF Text, Known, Valued, Switches, IPv4Options, IPv6Options, IfaceOptions
<1>3. /\ u.wanipv6 \in S /\ u.aftripv6 \in S /\ u.laniface \in S /\ u.waniface \in S
      /\ u.lanipv4 \in S /\ u.wanipv4 \in S /\ u.aftripv4 \in S
  BY DEF Text
<1>4. /\ <<>> \in Seq(S)
      /\ \A w \in S : <<w>> \in Seq(S)
      /\ \A o, w \in S : w = "" \/ WordsOf[w] = <<w>> =>
                           Word(w) \in Seq(S) /\ Param(o, w) \in Seq(S)
  <2> HIDE DEF S
  <2>1. ASSUME NEW w \in S PROVE <<>> \in Seq(S) /\ <<w>> \in Seq(S)
    OBVIOUS
  <2>2. ASSUME NEW w \in S, NEW o \in S PROVE <<o, w>> \in Seq(S)
    OBVIOUS
  <2>3. <<>> \in Seq(S)
    OBVIOUS
  <2>4. ASSUME NEW o \in S, NEW w \in S, w = "" \/ WordsOf[w] = <<w>>
        PROVE  Word(w) \in Seq(S) /\ Param(o, w) \in Seq(S)
    <3>1. CASE w = ""
      BY <2>3, <2>4, <3>1, PlainWords
    <3>2. CASE w # ""
      BY <2>1, <2>2, <2>4, <3>2, PlainWords
    <3> QED BY <3>1, <3>2
  <2> QED BY <2>1, <2>3, <2>4
<1> DEFINE Good(w) == w \in S /\ (w = "" \/ WordsOf[w] = <<w>>)
<1>11. /\ Good(u.wanipv6) /\ Good(u.aftripv6) /\ Good(u.laniface) /\ Good(u.waniface)
       /\ Good(u.lanipv4) /\ Good(u.wanipv4) /\ Good(u.aftripv4)
  BY <1>3 DEF Plain
<1> HIDE DEF S
<1>5. From5(u) = IPv4Params(u)
  <2>1. CASE ~ UsesIPv4(u)
    <3>1. /\ LanIface(u) = <<>> /\ WanIface(u) = <<>> /\ LanIPv4(u) = <<>>
          /\ WanIPv4(u) = <<>> /\ AftrIPv4(u) = <<>>
      BY <2>1 DEF LanIface, WanIface, LanIPv4, WanIPv4, AftrIPv4, Both
    <3>2. <<>> \o <<>> = <<>>
      BY <1>4, ConcatEmptySeq
    <3>3. From5(u) = <<>>
      BY <3>1, <3>2 DEF From5, From6, From7, From8, From9
    <3> QED BY <2>1, <3>3 DEF IPv4Params
  <2>2. CASE UsesIPv4(u)
    <3> DEFINE a == Param("--lan-iface", u.laniface)
               b == Param("--wan-iface", u.waniface)
               c == Param("-l", u.lanipv4)
               d == Param("-w", u.wanipv4)
               e == Param("-a", u.aftripv4)
    <3>1. /\ LanIface(u) = a /\ WanIface(u) = b /\ LanIPv4(u) = c
          /\ WanIPv4(u) = d /\ AftrIPv4(u) = e
      BY <2>2 DEF LanIface, WanIface, LanIPv4, WanIPv4, AftrIPv4, Both
    <3>2. a \in Seq(S) /\ b \in Seq(S) /\ c \in Seq(S) /\ d \in Seq(S) /\ e \in Seq(S)
      BY <1>2, <1>4, <1>11
    <3>3. IPv4Params(u) = a \o b \o c \o d \o e
      BY <2>2 DEF IPv4Params
    <3> HIDE DEF a, b, c, d, e
    <3>4. From5(u) = a \o (b \o (c \o (d \o (e \o <<>>))))
      BY <3>1 DEF From5, From6, From7, From8, From9
    <3>5. e \o <<>> = e
      BY <3>2, ConcatEmptySeq
    <3>6. Cat(Cat(Cat(Cat(a, b), c), d), e) = Cat(a, Cat(b, Cat(c, Cat(d, e))))
      BY <3>2, Brackets
    <3> QED BY <3>3, <3>4, <3>5, <3>6 DEF Cat
  <2> QED BY <2>1, <2>2
<1>6. From5(u) \in Seq(S)
  BY <1>1, FromTyped DEF S
<1>7. From2(u) = ExtParams(u) \o From5(u) /\ ExtParams(u) \in Seq(S)
  <2>1. CASE u.natpmpext # "1"
    <3>1. WanIPv6(u) = <<>> /\ AftrIPv6(u) = <<>> /\ Persist(u) = <<>> /\ ExtParams(u) = <<>>
      BY <2>1 DEF WanIPv6, AftrIPv6, Persist, Ext, ExtParams
    <3>2. <<>> \o From5(u) = From5(u)
      BY <1>6, ConcatEmptySeq
    <3> QED BY <1>4, <3>1, <3>2 DEF From2, From3, From4
  <2>2. CASE u.natpmpext = "1"
    <3> DEFINE a == <<"-b">>
               b == Word(u.wanipv6)
               c == <<"-s">>
               d == Word(u.aftripv6)
               e == IF u.persistent = "1" THEN <<"--persistent">> ELSE <<>>
               rest == From5(u)
    <3>1. WanIPv6(u) = a \o b /\ AftrIPv6(u) = c \o d /\ Persist(u) = e
      BY <2>2 DEF WanIPv6, AftrIPv6, Persist, Ext
    <3>2. a \in Seq(S) /\ b \in Seq(S) /\ c \in Seq(S) /\ d \in Seq(S) /\ e \in Seq(S)
      BY <1>2, <1>4, <1>11
    <3>3. ExtParams(u) = a \o b \o c \o d \o e
      BY <2>2 DEF ExtParams
    <3>4. rest \in Seq(S)
      BY <1>6
    <3> HIDE DEF a, b, c, d, e
    <3>5. From2(u) = (a \o b) \o ((c \o d) \o (e \o rest))
      BY <3>1 DEF From2, From3, From4
    <3> HIDE DEF rest
    <3>6. LET all == Cat(Cat(Cat(Cat(a, b), c), d), e)
          IN  all \in Seq(S) /\ Cat(Cat(a, b), Cat(Cat(c, d), Cat(e, rest))) = Cat(all, rest)
      BY <3>2, <3>4, BracketsBefore
    <3>7. From2(u) = ExtParams(u) \o rest /\ ExtParams(u) \in Seq(S)
      BY <3>3, <3>5, <3>6, Zenon DEF Cat
    <3> QED BY <3>7 DEF rest
  <2> QED BY <2>1, <2>2
<1>8. <<"-g">> \in Seq(S)
  BY <1>2, <1>4
<1>9. <<"-g">> \o (ExtParams(u) \o From5(u)) = <<"-g">> \o ExtParams(u) \o From5(u)
  BY <1>6, <1>7, <1>8, Turn DEF Cat
<1>10. From1(u) = <<"-g">> \o From2(u)
  BY DEF From1, Daemon
<1> QED BY <1>1, <1>5, <1>7, <1>9, <1>10

(* Items that are empty cost the parser nothing: it stands before one that *)
(* is not, or at the end.                                                  *)
LEMMA AtItemGreatest ==
  ASSUME NEW u, Plain(u), NEW line, NEW c, AtItem(u, line, c) # {}
  PROVE  \E k \in 1 .. 10 :
           line = From(u)[k] /\ Applied(u, c, k) /\ (k = 10 \/ Items(u)[k] # <<>>)
<1> DEFINE A == AtItem(u, line, c)
<1>1. A \in SUBSET (0 .. 10)
  BY DEF AtItem
<1>2. PICK k \in A : \A j \in A : j <= k
  <2>1. A # {}
    OBVIOUS
  <2> HIDE DEF A
  <2> QED BY <1>1, <2>1, GreatestExists
<1>3. k \in Int
  BY <1>1, <1>2
<1>4. k \in 1 .. 10 /\ line = From(u)[k] /\ Applied(u, c, k)
  BY <1>2 DEF AtItem
<1>5. k + 1 \notin A
  <2>1. ~ (k + 1 <= k)
    BY <1>3
  <2> HIDE DEF A
  <2> QED BY <1>2, <2>1
<1>6. ASSUME k # 10, Items(u)[k] = <<>> PROVE FALSE
  <2>1. k \in 1 .. 9 /\ k + 1 \in 1 .. 10
    BY <1>4, <1>6
  <2>2. From(u)[k] = <<>> \o From(u)[k + 1]
    BY <1>6, <2>1, FromNext
  <2>3. From(u)[k + 1] \in Seq(Text(u))
    BY <2>1, FromTyped
  <2>4. line = From(u)[k + 1]
    BY <1>4, <2>2, <2>3, ConcatEmptySeq
  <2>5. Nothing(u, k, Items(u)[k])
    <3>1. Shape(u, k, Items(u)[k])
      BY <2>1, ItemShape
    <3>2. \A o, v : <<o>> # <<>> /\ <<o, v>> # <<>>
      OBVIOUS
    <3> QED BY <1>6, <3>1, <3>2, Zenon
            DEF Shape, Switch, Broken, HasIPv6, HasIface, HasIPv4
  <2>6. "" \notin IPv4
    BY AddressAssumption
  <2>7. Applied(u, c, k + 1)
    <3> SUFFICES ASSUME UsesIPv4(u)
                 PROVE  /\ k + 1 > 7 /\ u.lanipv4 \in IPv4 => c.lanIP = u.lanipv4
                        /\ k + 1 > 8 /\ u.wanipv4 \in IPv4 => c.wanIP = u.wanipv4
      BY DEF Applied
    <3>1. /\ k > 7 /\ u.lanipv4 \in IPv4 => c.lanIP = u.lanipv4
          /\ k > 8 /\ u.wanipv4 \in IPv4 => c.wanIP = u.wanipv4
      BY <1>4 DEF Applied
    <3>2. (k = 7 => u.lanipv4 = "") /\ (k = 8 => u.wanipv4 = "")
      BY <2>5 DEF Nothing
    <3>3. k + 1 > 7 => k > 7 \/ k = 7
      BY <2>1
    <3>4. k + 1 > 8 => k > 8 \/ k = 8
      BY <2>1
    <3> QED BY <2>6, <3>1, <3>2, <3>3, <3>4, Zenon
  <2> QED BY <1>5, <2>1, <2>4, <2>7 DEF AtItem
<1> QED BY <1>4, <1>6

-----------------------------------------------------------------------------
(* One turn of the parser.                                                 *)

Steps ==
  \/ ValueMissing \/ ParseSwitch \/ ParseNumber \/ ParseInterface
  \/ ParseIPv4 \/ ParseIPv6 \/ Help \/ UnknownOption \/ ParseDone

(* The option decides what the turn can be.                                *)
LEMMA TurnOf ==
  ASSUME Steps, pc = "parse", given # <<>>
  PROVE  /\ argv = <<>> => ParseDone
         /\ argv # <<>> /\ Option \in Switches => ParseSwitch
         /\ argv # <<>> /\ Option \in IfaceOptions => ParseInterface \/ ValueMissing
         /\ argv # <<>> /\ Option \in IPv4Options => ParseIPv4 \/ ValueMissing
         /\ argv # <<>> /\ Option \in IPv6Options => ParseIPv6 \/ ValueMissing
<1> DEFINE o == Option
<1>1. /\ ValueMissing => argv # <<>> /\ o \in Valued
      /\ ParseSwitch => argv # <<>> /\ o \in Switches
      /\ ParseNumber => argv # <<>> /\ o \in NumberOptions
      /\ ParseInterface => argv # <<>> /\ o \in IfaceOptions
      /\ ParseIPv4 => argv # <<>> /\ o \in IPv4Options
      /\ ParseIPv6 => argv # <<>> /\ o \in IPv6Options
      /\ Help => argv # <<>> /\ o = "-h"
      /\ UnknownOption => argv # <<>> /\ o \notin Known
      /\ ParseDone => argv = <<>>
  BY DEF ValueMissing, ParseSwitch, ParseNumber, ParseInterface, ParseIPv4, ParseIPv6,
         Help, UnknownOption, ParseDone, Parsing
<1> HIDE DEF o
<1>2. o \in Switches =>
        /\ o \notin Valued /\ o \notin NumberOptions /\ o \notin IfaceOptions
        /\ o \notin IPv4Options /\ o \notin IPv6Options /\ o # "-h" /\ o \in Known
  BY DEF Switches, Valued, Known, NumberOptions, IfaceOptions, IPv4Options, IPv6Options
<1>3. o \in IfaceOptions =>
        /\ o \notin Switches /\ o \notin NumberOptions /\ o \notin IPv4Options
        /\ o \notin IPv6Options /\ o # "-h" /\ o \in Known
  BY DEF Switches, Valued, Known, NumberOptions, IfaceOptions, IPv4Options, IPv6Options
<1>4. o \in IPv4Options =>
        /\ o \notin Switches /\ o \notin NumberOptions /\ o \notin IfaceOptions
        /\ o \notin IPv6Options /\ o # "-h" /\ o \in Known
  BY DEF Switches, Valued, Known, NumberOptions, IfaceOptions, IPv4Options, IPv6Options
<1>5. o \in IPv6Options =>
        /\ o \notin Switches /\ o \notin NumberOptions /\ o \notin IfaceOptions
        /\ o \notin IPv4Options /\ o # "-h" /\ o \in Known
  BY DEF Switches, Valued, Known, NumberOptions, IfaceOptions, IPv4Options, IPv6Options
<1>6. /\ argv = <<>> => ParseDone
      /\ argv # <<>> /\ o \in Switches => ParseSwitch
      /\ argv # <<>> /\ o \in IfaceOptions => ParseInterface \/ ValueMissing
      /\ argv # <<>> /\ o \in IPv4Options => ParseIPv4 \/ ValueMissing
      /\ argv # <<>> /\ o \in IPv6Options => ParseIPv6 \/ ValueMissing
  BY <1>1, <1>2, <1>3, <1>4, <1>5, Zenon DEF Steps
<1> QED BY <1>6 DEF o

(* What a turn may come to, before item k of the line of section u: on with*)
(* the next item, parsed, or failed where the section allows it.           *)
TurnGood(u, k) ==
  \/ /\ k \in 1 .. 9 /\ pc' = "parse"
     /\ argv' = From(u)[k + 1] /\ Applied(u, ctx', k + 1)
  \/ pc' = "parsed" /\ Applied(u, ctx', 10)
  \/ pc' = "failed" /\ ~ Acceptable(u)

(* No turn takes the two addresses out of the context.                     *)
LEMMA FieldsKept ==
  ASSUME HasFields, Next
  PROVE  HasFields'
<1>1. DOMAIN ctx' = DOMAIN ctx
  <2>1. CASE UNCHANGED ctx
    BY <2>1
  <2>2. CASE ParseSwitch
    BY <2>2 DEF ParseSwitch
  <2>3. CASE ParseNumber
    BY <2>3 DEF ParseNumber
  <2>4. CASE ParseInterface
    BY <2>4 DEF ParseInterface
  <2>5. CASE ParseIPv4
    BY <2>5 DEF ParseIPv4
  <2>6. CASE ParseIPv6
    BY <2>6 DEF ParseIPv6
  <2> QED BY <2>1, <2>2, <2>3, <2>4, <2>5, <2>6 DEF Next,
          ScriptRefuses, ScriptStarts, ValueMissing, Help, UnknownOption, ParseDone
<1> QED BY <1>1 DEF HasFields

(* Members that other options set.                                         *)
LEMMA Members ==
  /\ \A o \in {"-g", "--persistent"} : Member(o) # "lanIP" /\ Member(o) # "wanIP"
  /\ \A o \in IPv6Options : Member(o) # "lanIP" /\ Member(o) # "wanIP"
  /\ Member("-l") = "lanIP" /\ Member("-w") = "wanIP"
  /\ Member("-a") # "lanIP" /\ Member("-a") # "wanIP"
BY DEF Member, IPv6Options

(* An item of one word: a switch.                                          *)
LEMMA SwitchTurn ==
  ASSUME NEW u, NEW k \in 1 .. 9, NEW o \in {"-g", "--persistent"},
         NEW rest \in Seq(Text(u)), rest = From(u)[k + 1], argv = <<o>> \o rest,
         k \in {1, 4}, Steps, pc = "parse", given # <<>>
  PROVE  TurnGood(u, k)
<1>1. o \in Text(u) /\ o \in Switches
  BY DEF Text, Known, Switches
<1>2. /\ argv # <<>> /\ argv[1] = o /\ SubSeq(argv, 2, Len(argv)) = rest
  BY <1>1, OneAhead
<1>3. ParseSwitch
  BY <1>1, <1>2, TurnOf DEF Option
<1>4. argv' = rest /\ pc' = "parse"
  BY <1>2, <1>3 DEF ParseSwitch, Skip
<1>5. Applied(u, ctx', k + 1)
  <2>1. ~ (k + 1 > 7) /\ ~ (k + 1 > 8)
    OBVIOUS
  <2> QED BY <2>1 DEF Applied
<1> QED BY <1>4, <1>5 DEF TurnGood

(* -b or -s without its address: what comes next is an option, and that is *)
(* no address, or nothing comes.                                           *)
LEMMA BrokenTurn ==
  ASSUME NEW u, NEW k \in 1 .. 9, NEW o \in IPv6Options,
         NEW rest \in Seq(Text(u)), rest # <<>> => rest[1] \in Known,
         argv = <<o>> \o rest, ~ Acceptable(u), Steps, pc = "parse", given # <<>>
  PROVE  TurnGood(u, k)
<1>1. o \in Text(u)
  BY DEF Text, Known, Valued
<1>2. /\ argv # <<>> /\ argv[1] = o /\ Len(argv) = Len(rest) + 1
      /\ rest # <<>> => argv[2] = rest[1]
  BY <1>1, OneAhead
<1>3. ParseIPv6 \/ ValueMissing
  BY <1>2, TurnOf DEF Option
<1>4. CASE ValueMissing
  BY <1>4 DEF ValueMissing, TurnGood
<1>5. CASE ParseIPv6
  <2>1. rest # <<>>
    <3>1. Len(argv) >= 2
      BY <1>5 DEF ParseIPv6
    <3>2. rest = <<>> => Len(rest) = 0
      OBVIOUS
    <3> QED BY <1>2, <3>1, <3>2
  <2>2. argv[2] \notin IPv6
    BY <1>2, <2>1, AddressAssumption
  <2> QED BY <1>5, <2>2 DEF ParseIPv6, TurnGood
<1> QED BY <1>3, <1>4, <1>5

(* -b or -s with a value: taken if it is an address, otherwise the end.    *)
LEMMA IPv6Turn ==
  ASSUME NEW u, NEW k \in 1 .. 9, NEW o \in IPv6Options, NEW v \in Text(u),
         NEW rest \in Seq(Text(u)), rest = From(u)[k + 1], argv = <<o, v>> \o rest,
         k \in {2, 3}, Acceptable(u) => v \in IPv6, Steps, pc = "parse", given # <<>>
  PROVE  TurnGood(u, k)
<1>1. o \in Text(u)
  BY DEF Text, Known, Valued
<1>2. /\ argv # <<>> /\ argv[1] = o /\ argv[2] = v /\ Len(argv) = Len(rest) + 2
      /\ SubSeq(argv, 3, Len(argv)) = rest
  BY <1>1, TwoAhead
<1>3. ParseIPv6
  <2>1. Len(argv) # 1
    BY <1>2
  <2> QED BY <1>2, <2>1, TurnOf DEF Option, ValueMissing
<1>4. CASE v \in IPv6
  <2>1. argv' = rest /\ pc' = "parse"
    <3>1. argv' = Skip(2) /\ pc' = "parse"
      BY <1>2, <1>3, <1>4, Zenon DEF ParseIPv6
    <3>2. Skip(2) = rest
      BY <1>2 DEF Skip
    <3> QED BY <3>1, <3>2
  <2>2. Applied(u, ctx', k + 1)
    <3>1. ~ (k + 1 > 7) /\ ~ (k + 1 > 8)
      OBVIOUS
    <3> QED BY <3>1 DEF Applied
  <2> QED BY <2>1, <2>2 DEF TurnGood
<1>5. CASE v \notin IPv6
  BY <1>2, <1>3, <1>5 DEF ParseIPv6, TurnGood
<1> QED BY <1>4, <1>5

(* An interface is taken with the word behind it, whatever that is.        *)
LEMMA IfaceTurn ==
  ASSUME NEW u, NEW k \in 1 .. 9, NEW o \in IfaceOptions, NEW v \in Text(u),
         NEW rest \in Seq(Text(u)), rest = From(u)[k + 1], argv = <<o, v>> \o rest,
         k \in {5, 6}, Steps, pc = "parse", given # <<>>
  PROVE  TurnGood(u, k)
<1>1. o \in Text(u)
  BY DEF Text, Known, Valued
<1>2. /\ argv # <<>> /\ argv[1] = o /\ Len(argv) = Len(rest) + 2
      /\ SubSeq(argv, 3, Len(argv)) = rest
  BY <1>1, TwoAhead
<1>3. ParseInterface
  <2>1. Len(argv) # 1
    BY <1>2
  <2> QED BY <1>2, <2>1, TurnOf DEF Option, ValueMissing
<1>4. argv' = rest /\ pc' = "parse"
  BY <1>2, <1>3 DEF ParseInterface, Skip
<1>5. Applied(u, ctx', k + 1)
  <2>1. ~ (k + 1 > 7) /\ ~ (k + 1 > 8)
    OBVIOUS
  <2> QED BY <2>1 DEF Applied
<1> QED BY <1>4, <1>5 DEF TurnGood

(* An address sets its own member and no other of the two.                 *)
LEMMA IPv4Sets ==
  ASSUME ParseIPv4, HasFields
  PROVE  /\ Member(Option) = "lanIP" /\ argv[2] \in IPv4 => ctx'.lanIP = argv[2]
         /\ Member(Option) = "wanIP" /\ argv[2] \in IPv4 => ctx'.wanIP = argv[2]
         /\ Member(Option) # "lanIP" => ctx'.lanIP = ctx.lanIP
         /\ Member(Option) # "wanIP" => ctx'.wanIP = ctx.wanIP
<1> DEFINE m == Member(Option)
           v == argv[2]
<1>1. "lanIP" \in DOMAIN ctx /\ "wanIP" \in DOMAIN ctx
  BY DEF HasFields
<1>2. ctx' = IF v \in IPv4 THEN [ctx EXCEPT ![m] = v] ELSE ctx
  BY DEF ParseIPv4
<1> HIDE DEF m, v
<1>3. /\ m = "lanIP" /\ v \in IPv4 => ctx'.lanIP = v
      /\ m = "wanIP" /\ v \in IPv4 => ctx'.wanIP = v
      /\ m # "lanIP" => ctx'.lanIP = ctx.lanIP
      /\ m # "wanIP" => ctx'.wanIP = ctx.wanIP
  BY <1>1, <1>2
<1> QED BY <1>3 DEF m, v

(* An IPv4 address is taken, or ignored, with the word behind it.          *)
LEMMA IPv4Turn ==
  ASSUME NEW u, NEW k \in 1 .. 9, NEW item, HasIPv4(u, k, item),
         NEW rest \in Seq(Text(u)), rest = From(u)[k + 1], argv = item \o rest,
         Applied(u, ctx, k), HasFields, Steps, pc = "parse", given # <<>>
  PROVE  TurnGood(u, k)
<1>1. PICK o \in IPv4Options, v \in Text(u) :
        /\ item = <<o, v>>
        /\ \/ k = 7 /\ o = "-l" /\ v = u.lanipv4
           \/ k = 8 /\ o = "-w" /\ v = u.wanipv4
           \/ k = 9 /\ o = "-a" /\ v = u.aftripv4
  <2>1. /\ "-l" \in IPv4Options /\ "-w" \in IPv4Options /\ "-a" \in IPv4Options
        /\ u.lanipv4 \in Text(u) /\ u.wanipv4 \in Text(u) /\ u.aftripv4 \in Text(u)
    BY DEF IPv4Options, Text
  <2> QED BY <2>1, Zenon DEF HasIPv4
<1>2. o \in Text(u)
  BY DEF Text, Known, Valued
<1>3. /\ argv # <<>> /\ argv[1] = o /\ argv[2] = v /\ Len(argv) = Len(rest) + 2
      /\ SubSeq(argv, 3, Len(argv)) = rest
  BY <1>1, <1>2, TwoAhead
<1>4. ParseIPv4
  <2>1. Len(argv) # 1
    BY <1>3
  <2> QED BY <1>3, <2>1, TurnOf DEF Option, ValueMissing
<1>5. argv' = rest /\ pc' = "parse"
  <2>1. argv' = Skip(2) /\ pc' = "parse"
    BY <1>4 DEF ParseIPv4
  <2>2. Skip(2) = rest
    BY <1>3 DEF Skip
  <2> QED BY <2>1, <2>2
<1>6. /\ Member(o) = "lanIP" /\ v \in IPv4 => ctx'.lanIP = v
      /\ Member(o) = "wanIP" /\ v \in IPv4 => ctx'.wanIP = v
      /\ Member(o) # "lanIP" => ctx'.lanIP = ctx.lanIP
      /\ Member(o) # "wanIP" => ctx'.wanIP = ctx.wanIP
  BY <1>3, <1>4, IPv4Sets, Zenon DEF Option
<1>7. /\ UsesIPv4(u) /\ k > 7 /\ u.lanipv4 \in IPv4 => ctx.lanIP = u.lanipv4
      /\ UsesIPv4(u) /\ k > 8 /\ u.wanipv4 \in IPv4 => ctx.wanIP = u.wanipv4
  BY Zenon DEF Applied
<1>8. Applied(u, ctx', k + 1)
  <2> SUFFICES ASSUME UsesIPv4(u)
               PROVE  /\ u.lanipv4 \in IPv4 => ctx'.lanIP = u.lanipv4
                      /\ k + 1 > 8 /\ u.wanipv4 \in IPv4 => ctx'.wanIP = u.wanipv4
    BY Zenon DEF Applied
  <2>1. CASE k = 7
    <3>1. ~ (k + 1 > 8) /\ o = "-l" /\ v = u.lanipv4
      BY <1>1, <2>1
    <3> QED BY <1>6, <3>1, Members, Zenon
  <2>2. CASE k = 8
    <3>1. k > 7 /\ o = "-w" /\ v = u.wanipv4
      BY <1>1, <2>2
    <3>2. Member(o) = "wanIP" /\ "wanIP" # "lanIP"
      BY <3>1, Members
    <3> QED BY <1>6, <1>7, <3>1, <3>2, Zenon
  <2>3. CASE k = 9
    <3>1. k > 7 /\ k > 8 /\ o = "-a"
      BY <1>1, <2>3
    <3>2. Member(o) # "lanIP" /\ Member(o) # "wanIP"
      BY <3>1, Members, Zenon
    <3> QED BY <1>6, <1>7, <3>1, <3>2, Zenon
  <2> QED BY <1>1, <2>1, <2>2, <2>3
<1> QED BY <1>5, <1>8 DEF TurnGood

(* The turn at the next item that is not empty, or at the end.             *)
LEMMA ParserTurn ==
  ASSUME HasFields, NEW u, Plain(u), AtItem(u, argv, ctx) # {}, Steps, pc = "parse", given # <<>>
  PROVE  \E k \in 1 .. 10 : TurnGood(u, k)
<1>1. PICK k \in 1 .. 10 :
        argv = From(u)[k] /\ Applied(u, ctx, k) /\ (k = 10 \/ Items(u)[k] # <<>>)
  BY AtItemGreatest
<1>2. CASE k = 10
  <2>1. argv = <<>>
    BY <1>1, <1>2 DEF From
  <2>2. ParseDone
    BY <2>1, TurnOf
  <2>3. pc' = "parsed" /\ ctx' = ctx
    BY <2>2 DEF ParseDone
  <2>4. TurnGood(u, k)
    BY <1>1, <1>2, <2>3 DEF TurnGood
  <2> QED BY <2>4
<1>3. CASE k # 10
  <2> DEFINE item == Items(u)[k]
             rest == From(u)[k + 1]
  <2>1. k \in 1 .. 9 /\ k + 1 \in 1 .. 10
    BY <1>3
  <2>2. argv = item \o rest
    BY <1>1, <2>1, FromNext
  <2>3. rest \in Seq(Text(u)) /\ (rest # <<>> => rest[1] \in Known)
    BY <2>1, FromTyped
  <2>4. Shape(u, k, item) /\ item # <<>>
    BY <1>1, <1>3, <2>1, ItemShape
  <2>5. rest = From(u)[k + 1]
    OBVIOUS
  <2> HIDE DEF item, rest
  <2>6. CASE Switch(u, k, item)
    <3>1. PICK o \in {"-g", "--persistent"} : item = <<o>>
      BY <2>6 DEF Switch
    <3> QED BY <1>1, <2>1, <2>2, <2>3, <2>5, <2>6, <3>1, SwitchTurn DEF Switch
  <2>7. CASE Broken(u, k, item)
    <3>1. PICK o \in IPv6Options : item = <<o>>
      BY <2>7 DEF Broken
    <3> QED BY <1>1, <2>1, <2>2, <2>3, <2>5, <2>7, <3>1, BrokenTurn DEF Broken
  <2>8. CASE HasIPv6(u, k, item)
    <3>1. PICK o \in IPv6Options, v \in Text(u) :
            item = <<o, v>> /\ (Acceptable(u) => v \in IPv6)
      BY <2>8 DEF HasIPv6
    <3> QED BY <1>1, <2>1, <2>2, <2>3, <2>5, <2>8, <3>1, IPv6Turn DEF HasIPv6
  <2>9. CASE HasIface(u, k, item)
    <3>1. PICK o \in IfaceOptions, v \in Text(u) : item = <<o, v>>
      BY <2>9 DEF HasIface
    <3> QED BY <1>1, <2>1, <2>2, <2>3, <2>5, <2>9, <3>1, IfaceTurn DEF HasIface
  <2>10. CASE HasIPv4(u, k, item)
    BY <1>1, <2>1, <2>2, <2>3, <2>5, <2>10, IPv4Turn
  <2> QED BY <2>4, <2>6, <2>7, <2>8, <2>9, <2>10 DEF Shape, Nothing
<1> QED BY <1>2, <1>3

-----------------------------------------------------------------------------
(* The invariant holds when main begins.                                   *)
LEMMA LineInit == Init => LineInv
<1> SUFFICES ASSUME Init PROVE LineInv
  OBVIOUS
<1>1. HasFields
  BY DEF Init, Defaults, HasFields
<1>2. pc = "script" \/ ~ FromUci
  BY DEF Init, FromUci
<1> QED BY <1>1, <1>2 DEF LineInv

(* ScriptStarts puts the parser at the first item, a turn at a later one.  *)
LEMMA LineStep == LineInv /\ Next => LineInv'
<1> SUFFICES ASSUME LineInv, Next PROVE LineInv'
  OBVIOUS
<1>1. HasFields'
  BY FieldsKept DEF LineInv
<1>2. uci' = uci /\ (FromUci <=> FromUci')
  BY DEF Next, ScriptRefuses, ScriptStarts, ValueMissing, ParseSwitch, ParseNumber,
         ParseInterface, ParseIPv4, ParseIPv6, Help, UnknownOption, ParseDone, FromUci
<1>3. CASE ~ (FromUci /\ Plain(uci))
  BY <1>1, <1>2, <1>3 DEF LineInv
<1>4. CASE FromUci /\ Plain(uci) /\ ScriptRefuses
  BY <1>1, <1>4 DEF ScriptRefuses, LineInv
<1>5. CASE FromUci /\ Plain(uci) /\ ScriptStarts
  <2>1. argv' = From(uci)[1] /\ given' = argv'
    BY <1>5, LineIs DEF ScriptStarts
  <2>2. given' # <<>>
    <3>1. From(uci)[1] = <<"-g">> \o From(uci)[2]
      <4>1. From(uci)[1] = From1(uci) /\ From(uci)[2] = From2(uci)
        BY DEF From
      <4> QED BY <4>1 DEF From1, Daemon
    <3>2. From(uci)[2] \in Seq(Text(uci)) /\ "-g" \in Text(uci)
      <4>1. "-g" \in Text(uci)
        BY DEF Text, Known, Switches
      <4> QED BY <1>5, <4>1, FromTyped
    <3> QED BY <2>1, <3>1, <3>2, OneAhead
  <2>3. 1 \in AtItem(uci, argv', ctx')
    <3>1. Applied(uci, ctx', 1)
      BY DEF Applied
    <3> QED BY <2>1, <3>1 DEF AtItem
  <2>4. pc' = "parse"
    BY <1>5 DEF ScriptStarts
  <2> QED BY <1>1, <1>2, <2>2, <2>3, <2>4 DEF LineInv
<1>6. CASE FromUci /\ Plain(uci) /\ Steps
  <2>1. pc = "parse"
    BY <1>6 DEF Steps, ValueMissing, ParseSwitch, ParseNumber, ParseInterface, ParseIPv4,
                ParseIPv6, Help, UnknownOption, ParseDone, Parsing
  <2>2. given' = given
    BY <1>6 DEF Steps, ValueMissing, ParseSwitch, ParseNumber, ParseInterface, ParseIPv4,
                ParseIPv6, Help, UnknownOption, ParseDone
  <2>3. given # <<>> /\ AtItem(uci, argv, ctx) # {}
    BY <1>6, <2>1 DEF LineInv
  <2>4. PICK k \in 1 .. 10 : TurnGood(uci, k)
    BY <1>6, <2>1, <2>3, ParserTurn DEF LineInv
  <2>5. ASSUME k \in 1 .. 9, argv' = From(uci)[k + 1], Applied(uci, ctx', k + 1)
        PROVE  AtItem(uci, argv', ctx') # {}
    <3>1. k + 1 \in 1 .. 10
      BY <2>5
    <3> QED BY <2>5, <3>1 DEF AtItem
  <2> QED BY <1>1, <1>2, <2>2, <2>3, <2>4, <2>5 DEF TurnGood, LineInv
<1> QED BY <1>3, <1>4, <1>5, <1>6 DEF Next, Steps

(* Nothing changes when no variable does.                                  *)
LEMMA LineStutter == LineInv /\ UNCHANGED vars => LineInv'
<1> SUFFICES ASSUME LineInv, UNCHANGED vars PROVE LineInv'
  OBVIOUS
<1>1. pc' = pc /\ uci' = uci /\ argv' = argv /\ given' = given /\ ctx' = ctx
  BY DEF vars
<1> QED BY <1>1 DEF LineInv, HasFields, FromUci

(* Of values of one word, the parser is always where an item of the        *)
(* script's line begins, with what the items before it have set: no value  *)
(* is taken for an option.                                                 *)
THEOREM AlwaysAtAnItem == Spec => []LineInv
BY LineInit, LineStep, LineStutter, PTL DEF Spec

(* cmd_line_parse accepts every line the script makes of a section whose   *)
(* values are one word each, if its addresses for extended NAT-PMP can be  *)
(* parsed.                                                                 *)
THEOREM ScriptAlwaysAccepted == Spec => []ScriptIsAccepted
<1>1. LineInv => ScriptIsAccepted
  BY DEF LineInv, ScriptIsAccepted, Acceptable
<1> QED BY <1>1, AlwaysAtAnItem, PTL

(* The script names the interfaces before the addresses, so that an address*)
(* of the section is never overwritten by the one of its interface.        *)
THEOREM GivenAddressAlwaysWins == Spec => []GivenAddressWins
<1>1. LineInv => GivenAddressWins
  <2>1. 10 > 7 /\ 10 > 8
    OBVIOUS
  <2> QED BY <2>1, Zenon DEF LineInv, GivenAddressWins, Applied
<1> QED BY <1>1, AlwaysAtAnItem, PTL
=============================================================================
