--------------------------- MODULE MCSocketSetup ----------------------------
(* Command lines for SocketSetup.                                          *)
EXTENDS SocketSetup

AllConfigs ==
  [nat_pmp : BOOLEAN, nat_pmp_ext : BOOLEAN, upnp_udp : BOOLEAN, upnp_tcp : BOOLEAN,
   shared_udp_sock : {TRUE}, wanIPv6_given : BOOLEAN, persistent : BOOLEAN,
   lan_octet_high : {FALSE}]

(* Those that sanity_check was written to accept.                          *)
SoundConfigs == {c \in AllConfigs : ~ (c.nat_pmp /\ c.nat_pmp_ext)}

(* Both kinds of NAT-PMP, which sanity_check lets through.                 *)
BothKinds == {c \in AllConfigs : c.nat_pmp /\ c.nat_pmp_ext}

(* An address that is given matters to extended NAT-PMP only, so the other *)
(* command lines are taken once; of those with both kinds, one.            *)
ManyConfigs ==
  {c \in SoundConfigs : c.wanIPv6_given => c.nat_pmp_ext}
    \cup {c \in BothKinds : c.persistent /\ ~ (c.upnp_udp \/ c.upnp_tcp \/ c.wanIPv6_given)}

(* The default features with --persistent and an address to detect.        *)
DefaultPersistent ==
  {c \in SoundConfigs : /\ c.persistent /\ c.nat_pmp_ext
                        /\ ~ (c.upnp_udp \/ c.upnp_tcp \/ c.wanIPv6_given)}

(* UPnP UDP alone.                                                         *)
SsdpOnly ==
  {c \in SoundConfigs : c.upnp_udp /\ ~ (c.nat_pmp \/ c.nat_pmp_ext \/ c.upnp_tcp)}

(* The default features, not persistent, and a LAN address such as         *)
(* 192.168.1.254.                                                          *)
HighOctet ==
  {[c EXCEPT !.lan_octet_high = TRUE, !.persistent = FALSE] : c \in DefaultPersistent}
=============================================================================
