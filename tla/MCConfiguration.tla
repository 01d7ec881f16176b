-------------------------- MODULE MCConfiguration ---------------------------
(* Settings and command lines for Configuration.                           *)
EXTENDS Configuration, TLC

V4 == {"192.168.1.1", "192.168.9.9", "192.0.0.2"}
V6 == {"::", "2000::1", "2000::2"}
Addresses == "br-lan" :> "192.168.1.1" @@ "eth0.1" :> NoIP @@ "tun" :> "192.0.0.2"

Flag == {"0", "1"}
AllSections ==
  [natpmp : Flag, natpmpext : Flag, upnpudp : Flag, upnptcp : {"0"},
   aftripv6 : {"", "2000::1"}, wanipv6 : {"", "::", "2000::2"}, persistent : Flag,
   lanipv4 : {"", "192.168.9.9", "oops"}, wanipv4 : {"", "192.0.0.2"}, aftripv4 : {""},
   laniface : {"", "br-lan", "br-lan tun"}, waniface : {"", "tun"}]

(* The shell takes one value for two words, and the others as they are.    *)
Values == V6 \cup V4 \cup {"oops", "br-lan", "tun"}
Split == [s \in Values |-> <<s>>] @@ "" :> <<>> @@ "br-lan tun" :> <<"br-lan", "tun">>

(* Every way to put up to three of these words after one another.           *)
Words == {"-g", "-h", "-v", "--timeout", "30", "-l", "192.168.9.9", "-b", "--lan-iface",
          "tun", "--nat-pmp", "1"}
ShortLines == UNION {[1 .. n -> Words] : n \in 0 .. 3}

None == {}
=============================================================================
