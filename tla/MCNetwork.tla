----------------------------- MODULE MCNetwork -----------------------------
(***************************************************************************)
(* Instances of Network for TLC: two connections, and scopes in which      *)
(* different sorts of changes meet.                                        *)
(***************************************************************************)
EXTENDS Network

Ip(static, addr, dns1, dns2) == [static |-> static, addr |-> addr, dns1 |-> dns1, dns2 |-> dns2]

Static == [Plain EXCEPT !.name = "static", !.ip4 = Ip(TRUE, "a", "d", "e")]
NoGateway == [Plain EXCEPT !.ip4 = Ip(TRUE, "bad", "d", "")]
SecondOnly == [Plain EXCEPT !.ip4 = Ip(TRUE, "a", "", "e")]
Wpa == [Plain EXCEPT !.key = "wpa-psk", !.psk = "k"]
Sae == [Plain EXCEPT !.key = "sae", !.psk = "k"]
BadServer == [Plain EXCEPT !.ip6 = Ip(TRUE, "a", "d", "bad")]

Slice(s) == Contents(Len(s), [i \in 0 .. Len(s) - 1 |-> s[i + 1]])
Scope(sorts, max, conns, sets, kind, infos, aps) ==
    [sorts |-> sorts, max |-> max, conns |-> conns, sets |-> sets,
     kind |-> kind, infos |-> infos, aps |-> aps]

Slices == {Slice(<<>>), Slice(<<1>>), Slice(<<2, 1>>), Slice(<<1, 1, 1>>)}
Pointers == {ZeroOf("struct"), Contents(1, [f \in {0, 1} |-> 1]), Contents(1, [f \in {0, 1} |-> f])}
Scalars == {Contents(1, [i \in {0} |-> v]) : v \in {0, 1}}

MCScopes ==
    {Scope({"edit", "manage", "create", "delete", "nmConn"}, 4, {"c"}, sets, "scalar", {}, {}) :
        sets \in {{Static, NoGateway}, {SecondOnly}, {Wpa, BadServer}, {Sae}}}
    \cup {Scope({"manage", "delete", "nmConn"}, 2, {"c", "e"}, {Static}, "scalar", {}, {})}
    \cup {Scope({"nmDev", "delete"}, 4, {}, {}, k[1], k[2], {}) :
        k \in {<<"slice", Slices>>, <<"struct", Pointers>>, <<"scalar", Scalars>>}}
    \cup {Scope({"nmDev", "nmAps", "scan"}, 4, {}, {}, "scalar", {}, Slices),
          Scope({"nmDev", "nmAps", "scan", "nmRead"}, 3, {}, {}, "scalar", Scalars, {Slice(<<1>>)}),
          Scope({"host", "wifi", "nmHost", "disable"}, 3, {}, {}, "scalar", {}, {}),
          Scope({"nmConn", "manage", "nmDown", "disable"}, 3, {"c"}, {Wpa}, "scalar", {}, {})}
=============================================================================
