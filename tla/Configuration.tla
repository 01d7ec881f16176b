--------------------------- MODULE Configuration ----------------------------
(***************************************************************************)
(* From the settings an administrator saves to the context main runs with: *)
(* the script rc.d/portproxy of src/luci makes a command line from a       *)
(* section of /etc/config/softwire, and cmd_line_parse of                  *)
(* src/src/portproxy.c makes the context from it, one argument at a time.  *)
(***************************************************************************)
EXTENDS Integers, Sequences

CONSTANTS
  Sections,      \* settings of a 'portproxy' section
  CommandLines,  \* command lines given by hand
  IPv4, IPv6,    \* strings that inet_pton() accepts
  IfaceIP,       \* interface -> its ipaddr[0] when main starts
  WordsOf        \* value of a setting -> the words the shell splits it into

NoIP == "0.0.0.0"
Any6 == "::"

ASSUME InterfaceAssumption == \A i \in DOMAIN IfaceIP : IfaceIP[i] \in IPv4 \cup {NoIP}

ASSUME WordsAssumption == WordsOf[""] = <<>>

VARIABLES
  pc,    \* "script", "parse", "parsed"; "refused", "failed", "help": not run
  uci,   \* the section, or an empty record for a command line given by hand
  argv,  \* arguments not yet parsed
  given, \* the whole command line
  ctx    \* the context

vars == <<pc, uci, argv, given, ctx>>

-----------------------------------------------------------------------------
(* iface_ip: ipaddr[0] of an interface, which is the address the kernel    *)
(* listed last; 0.0.0.0 without one.                                       *)
FirstAddress(i) == IF i \in DOMAIN IfaceIP THEN IfaceIP[i] ELSE NoIP

(* ctx_defaults; the route of the kernel gives the AFTR, here none.        *)
Defaults ==
  [lan |-> "br-lan", wan |-> "eth0.1",
   lanIP |-> FirstAddress("br-lan"), wanIP |-> FirstAddress("eth0.1"),
   aftrIPv4 |-> NoIP, wanIPv6 |-> Any6, aftrIPv6 |-> Any6,
   enable_nat_pmp |-> 0, enable_nat_pmp_ext |-> 1,
   enable_upnp_udp |-> 0, enable_upnp_tcp |-> 0,
   natpmp_udp_port |-> 5351, upnp_udp_port |-> 1900,
   upnp_tcp_port1 |-> 2869, upnp_tcp_port2 |-> 2857,
   shared_udp_sock |-> 1, timeout |-> 10,
   persistent |-> 0, daemon |-> 0, loglevel |-> 0]

(* The options by what they take, and the member that each one sets.       *)
NumberOptions == {"--nat-pmp", "--nat-pmp-ext", "--upnp-udp", "--upnp-tcp", "--timeout",
                  "--nat-pmp-port", "--upnp-udp-port", "--upnp-tcp-port1",
                  "--upnp-tcp-port2", "--shared-udp-sock"}
IPv4Options  == {"-l", "-a", "-w"}
IPv6Options  == {"-b", "-s"}
IfaceOptions == {"--lan-iface", "--wan-iface"}
Switches     == {"--persistent", "-g", "-v"}

Member(option) ==
  CASE option = "-l" -> "lanIP" [] option = "-a" -> "aftrIPv4" [] option = "-w" -> "wanIP"
    [] option = "-b" -> "wanIPv6" [] option = "-s" -> "aftrIPv6"
    [] option = "-g" -> "daemon" [] option = "-v" -> "loglevel"
    [] option = "--persistent" -> "persistent" [] option = "--timeout" -> "timeout"
    [] option = "--nat-pmp" -> "enable_nat_pmp"
    [] option = "--nat-pmp-ext" -> "enable_nat_pmp_ext"
    [] option = "--upnp-udp" -> "enable_upnp_udp"
    [] option = "--upnp-tcp" -> "enable_upnp_tcp"
    [] option = "--nat-pmp-port" -> "natpmp_udp_port"
    [] option = "--upnp-udp-port" -> "upnp_udp_port"
    [] option = "--upnp-tcp-port1" -> "upnp_tcp_port1"
    [] option = "--upnp-tcp-port2" -> "upnp_tcp_port2"
    [] option = "--shared-udp-sock" -> "shared_udp_sock"

Valued == NumberOptions \cup IPv4Options \cup IPv6Options \cup IfaceOptions
Known  == Valued \cup Switches \cup {"-h"}

(* inet_pton() takes neither an empty string nor an option for an address. *)
ASSUME AddressAssumption == ({""} \cup Known) \cap (IPv4 \cup IPv6) = {}

(* atoi() of the arguments that occur: 0 for what is not a number.         *)
Number(s) == CASE s = "0" -> 0 [] s = "1" -> 1 [] s = "30" -> 30 [] OTHER -> 0

-----------------------------------------------------------------------------
(* rc.d/portproxy.  Neither the values nor $params are quoted: the shell   *)
(* splits them at blanks and expands patterns; an empty one vanishes.      *)

Word(s) == WordsOf[s]
Param(option, s) == IF s = "" THEN <<>> ELSE <<option>> \o WordsOf[s]

UsesIPv4(u) == "1" \in {u.natpmp, u.upnpudp, u.upnptcp}

ExtParams(u) ==
  IF u.natpmpext # "1" THEN <<>>
  ELSE <<"-b">> \o Word(u.wanipv6) \o <<"-s">> \o Word(u.aftripv6)
         \o (IF u.persistent = "1" THEN <<"--persistent">> ELSE <<>>)

IPv4ParamsFault(u) ==   \* the addresses first, then the interfaces
  IF ~ UsesIPv4(u) THEN <<>>
  ELSE Param("-l", u.lanipv4) \o Param("-w", u.wanipv4) \o Param("-a", u.aftripv4)
         \o Param("--lan-iface", u.laniface) \o Param("--wan-iface", u.waniface)

IPv4Params(u) ==
  IF ~ UsesIPv4(u) THEN <<>>
  ELSE Param("--lan-iface", u.laniface) \o Param("--wan-iface", u.waniface)
         \o Param("-l", u.lanipv4) \o Param("-w", u.wanipv4) \o Param("-a", u.aftripv4)

ScriptRefuses ==
  /\ pc = "script" /\ uci.natpmp = "1" /\ uci.natpmpext = "1"
  /\ pc' = "refused"
  /\ UNCHANGED <<uci, argv, given, ctx>>

ScriptStarts ==
  /\ pc = "script" /\ ~ (uci.natpmp = "1" /\ uci.natpmpext = "1")
  /\ given' = <<"-g">> \o ExtParams(uci) \o IPv4Params(uci)
  /\ argv' = given' /\ pc' = "parse"
  /\ UNCHANGED <<uci, ctx>>

-----------------------------------------------------------------------------
(* cmd_line_parse: one turn of its loop.                                   *)

Init ==
  /\ ctx = Defaults
  /\ \/ \E u \in Sections : pc = "script" /\ uci = u /\ argv = <<>> /\ given = <<>>
     \/ \E c \in CommandLines : pc = "parse" /\ uci = <<>> /\ argv = c /\ given = c

Option == argv[1]
Parsing(options) == pc = "parse" /\ argv # <<>> /\ Option \in options

(* argc--, argv++ finds no value after the last option.                    *)
ValueMissing ==
  /\ Parsing(Valued) /\ Len(argv) = 1
  /\ pc' = "failed"
  /\ UNCHANGED <<uci, argv, given, ctx>>

SkipFault(n) == Tail(argv)   \* the value is parsed again as an option
Skip(n) == SubSeq(argv, n + 1, Len(argv))

ParseSwitch ==
  /\ Parsing(Switches)
  /\ ctx' = [ctx EXCEPT ![Member(Option)] = IF Option = "-v" THEN @ + 1 ELSE 1]
  /\ argv' = Skip(1)
  /\ UNCHANGED <<pc, uci, given>>

ParseNumber ==
  /\ Parsing(NumberOptions) /\ Len(argv) >= 2
  /\ ctx' = [ctx EXCEPT ![Member(Option)] = Number(argv[2])]
  /\ argv' = Skip(2)
  /\ UNCHANGED <<pc, uci, given>>

(* The address of an interface replaces what an earlier -l or -w gave.     *)
ParseInterface ==
  /\ Parsing(IfaceOptions) /\ Len(argv) >= 2
  /\ ctx' = IF Option = "--lan-iface"
              THEN [ctx EXCEPT !.lan = argv[2], !.lanIP = FirstAddress(argv[2])]
              ELSE [ctx EXCEPT !.wan = argv[2], !.wanIP = FirstAddress(argv[2])]
  /\ argv' = Skip(2)
  /\ UNCHANGED <<pc, uci, given>>

(* inet_pton() leaves the member alone when it fails; nobody looks.        *)
ParseIPv4 ==
  /\ Parsing(IPv4Options) /\ Len(argv) >= 2
  /\ ctx' = IF argv[2] \in IPv4 THEN [ctx EXCEPT ![Member(Option)] = argv[2]] ELSE ctx
  /\ argv' = Skip(2)
  /\ UNCHANGED <<pc, uci, given>>

ParseIPv6 ==
  /\ Parsing(IPv6Options) /\ Len(argv) >= 2
  /\ IF argv[2] \in IPv6
       THEN /\ ctx' = [ctx EXCEPT ![Member(Option)] = argv[2]]
            /\ argv' = Skip(2) /\ UNCHANGED pc
       ELSE pc' = "failed" /\ UNCHANGED <<argv, ctx>>
  /\ UNCHANGED <<uci, given>>

(* No arguments at all, or -h.                                             *)
Help ==
  /\ Parsing({"-h"}) \/ (pc = "parse" /\ given = <<>>)
  /\ pc' = "help"
  /\ UNCHANGED <<uci, argv, given, ctx>>

UnknownOption ==
  /\ pc = "parse" /\ argv # <<>> /\ Option \notin Known
  /\ pc' = "failed"
  /\ UNCHANGED <<uci, argv, given, ctx>>

ParseDone ==
  /\ pc = "parse" /\ argv = <<>> /\ given # <<>>
  /\ pc' = "parsed"
  /\ UNCHANGED <<uci, argv, given, ctx>>

Next ==
  \/ ScriptRefuses \/ ScriptStarts
  \/ ValueMissing \/ ParseSwitch \/ ParseNumber \/ ParseInterface
  \/ ParseIPv4 \/ ParseIPv6 \/ Help \/ UnknownOption \/ ParseDone

Spec == Init /\ [][Next]_vars

-----------------------------------------------------------------------------
FromUci == uci # <<>>

(* Each value is empty or one word, which the shell does not touch.        *)
Plain(u) ==
  \A s \in {u.wanipv6, u.aftripv6, u.laniface, u.waniface, u.lanipv4, u.wanipv4, u.aftripv4} :
     s = "" \/ WordsOf[s] = <<s>>

(* Of values of one word, with addresses that can be parsed, the script    *)
(* makes a command line which portproxy accepts; for extended NAT-PMP both *)
(* must be there, because the word after an empty one would be taken for   *)
(* the address.                                                            *)
ScriptIsAccepted ==
  /\ FromUci /\ Plain(uci)
  /\ uci.natpmpext = "1" => uci.wanipv6 \in IPv6 /\ uci.aftripv6 \in IPv6
  => pc \notin {"failed", "help"}

(* An address of the section wins over the one of its interface: the       *)
(* options --lan-iface and --wan-iface overwrite it, so the script has to  *)
(* put them first.                                                         *)
GivenAddressWins ==
  pc = "parsed" /\ FromUci /\ Plain(uci) /\ UsesIPv4(uci) =>
    /\ uci.lanipv4 \in IPv4 => ctx.lanIP = uci.lanipv4
    /\ uci.wanipv4 \in IPv4 => ctx.wanIP = uci.wanipv4

(* Each feature is on exactly when the administrator enabled it.           *)
FeaturesAsConfigured ==
  pc = "parsed" /\ FromUci =>
    /\ (ctx.enable_nat_pmp # 0) = (uci.natpmp = "1")
    /\ (ctx.enable_nat_pmp_ext # 0) = (uci.natpmpext = "1")
    /\ (ctx.enable_upnp_udp # 0) = (uci.upnpudp = "1")
    /\ (ctx.enable_upnp_tcp # 0) = (uci.upnptcp = "1")

(* The LAN address of the configuration is the one portproxy listens on.   *)
ListensWhereConfigured ==
  pc = "parsed" /\ FromUci /\ uci.lanipv4 \in IPv4 => ctx.lanIP = uci.lanipv4

(* The IPv6 address is detected on the WAN interface of the configuration. *)
DetectsWhereConfigured ==
  pc = "parsed" /\ FromUci /\ uci.waniface # "" /\ ctx.wanIPv6 = Any6
    => ctx.wan = uci.waniface

(* A protocol nobody mentioned is enabled.                                 *)
DefaultsAsDocumented ==
  pc = "parsed" /\ (\A i \in DOMAIN given : given[i] # "--nat-pmp")
    => ctx.enable_nat_pmp = 1
=============================================================================
