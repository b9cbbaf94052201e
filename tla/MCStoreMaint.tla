---------------------------- MODULE MCStoreMaint -----------------------------
(* Instances of StoreMaint for TLC. *)
EXTENDS StoreMaint

MCNode == {"r", "a", "b", "c"}
MCPType == {"tombstone", "nodeType", "v"}
MCRawKey == {"", "0"}
MCText == {"", "device", "user", "x"}
MCValue == {0, 1}

MCPoint(typ, key, time, text, val) ==
    [typ |-> typ, key |-> key, time |-> time, text |-> text, val |-> val]
Pt(typ, val) == MCPoint(typ, "", 1, "", val)

MCMsg(id, parent, pts) == [id |-> id, parent |-> parent, pts |-> pts]
Value1(n) == MCMsg(n, "", <<Pt("v", 1)>>)
Create(n, parent) ==
    MCMsg(n, parent, <<Pt("tombstone", 0), MCPoint("nodeType", "", 1, "x", 0)>>)

MCAdminPoints == <<Pt("v", 0)>>

\* Mirrors of b, and a subtree that is mirrored with it.
MirrorWrites == {Create("b", "a"), Create("b", "r"), Create("c", "b"), Value1("c")}

\* A tree: what is written never breaks a hash.
TreeWrites == {Create("b", "a"), Value1("b")}

=============================================================================
