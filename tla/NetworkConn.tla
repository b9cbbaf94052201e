---------------------------- MODULE NetworkConn ----------------------------
(***************************************************************************)
(* Settings of a connection (client/network-manager-conn.go): how those of *)
(* a node are passed to NetworkManager over D-Bus, read back and compared. *)
(*                                                                         *)
(* A setting has a name (which stands for the fields that are passed as    *)
(* they are), an IPv4 and an IPv6 configuration, and the key management    *)
(* and the key of a Wi-Fi connection.  An IP configuration has addr for    *)
(* its address, netmask (prefix) and gateway and two DNS servers, each     *)
(* "" (none), "bad" (not an address) or another string (valid).            *)
(***************************************************************************)
EXTENDS Integers, Sequences, SequencesExt

Valid(a) == a \notin {"", "bad"}

\* IPv4Config.Method, IPv6Config.Method
Method(ip) == IF ip.static /\ Valid(ip.addr) THEN "manual" ELSE "auto"

Manual(ip, servers) ==
    IF Method(ip) = "auto" THEN [method |-> "auto", addr |-> "", dns |-> <<>>]
    ELSE [method |-> "manual", addr |-> ip.addr, dns |-> servers]

\* IPv4Config.DBus: servers that are no addresses are left out.
IPv4DBus(ip) == Manual(ip, SelectSeq(<<ip.dns1, ip.dns2>>, Valid))

\* IPv6Config.DBus: of the second server only a blank one is.
IPv6DBus(ip) ==
    Manual(ip, SelectSeq(<<ip.dns1>>, Valid) \o SelectSeq(<<ip.dns2>>, LAMBDA a : a # ""))

\* ResolveIPv4Config, ResolveIPv6Config
ResolveIPConfig(d) ==
    [static |-> d.method = "manual", addr |-> d.addr,
     dns1 |-> IF Len(d.dns) > 0 THEN d.dns[1] ELSE "",
     dns2 |-> IF Len(d.dns) > 1 THEN d.dns[2] ELSE ""]

IPEqual(a, b) == (Method(a) = "auto" /\ Method(b) = "auto") \/ a = b

\* NetworkManagerConn.DBus of a managed connection
ConnDBus(s) ==
    [name |-> s.name, ip4 |-> IPv4DBus(s.ip4), ip6 |-> IPv6DBus(s.ip6),
     key |-> s.key, psk |-> IF s.key = "" THEN "" ELSE s.psk]

\* ResolveNetworkManagerConn, without secrets
ResolveConn(d) ==
    [name |-> d.name, ip4 |-> ResolveIPConfig(d.ip4), ip6 |-> ResolveIPConfig(d.ip6),
     key |-> d.key, psk |-> ""]

\* GetSecrets in SyncConnections
WithSecrets(d) ==
    [ResolveConn(d) EXCEPT !.psk = IF d.key = "wpa-psk" THEN d.psk ELSE ""]

\* NetworkManagerConn.Equal
ConnEqual(a, b) ==
    /\ a.name = b.name /\ a.key = b.key /\ a.psk = b.psk
    /\ IPEqual(a.ip4, b.ip4) /\ IPEqual(a.ip6, b.ip6)

\* NetworkManager accepts these settings.
Accepted(d) == "bad" \notin ToSet(d.ip4.dns) \cup ToSet(d.ip6.dns)

\* What NetworkManager has of the setting is read back as the setting.
ReadsBack(s) == ConnEqual(s, WithSecrets(ConnDBus(s)))
=============================================================================
