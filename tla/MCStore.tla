------------------------------- MODULE MCStore -------------------------------
(***************************************************************************)
(* Instances of Store for TLC: the root "r", the user "a" below it and a   *)
(* node "b" that clients create, delete, move and mirror.                  *)
(***************************************************************************)
EXTENDS Store

MCNode == {"r", "a", "b"}
MCPType == {"tombstone", "nodeType", "v"}
MCRawKey == {"", "0"}
MCText == {"", "device", "user", "x"}
MCValue == {0, 1}

MCPoint(typ, key, time, text, val) ==
    [typ |-> typ, key |-> key, time |-> time, text |-> text, val |-> val]
Pt(typ, time, val) == MCPoint(typ, "", time, "", val)
NodeType(text) == MCPoint("nodeType", "", 0, text, 0)

EdgeMsg(id, parent, pts) == [id |-> id, parent |-> parent, pts |-> pts]
NodeMsg(id, pts) == EdgeMsg(id, "", pts)

MCAdminPoints == <<Pt("v", 0, 0)>>

\* Updates of a value, old and new, with and without a time.
NodeMsgsFor(N, times, vals) ==
    {NodeMsg(n, <<Pt("v", t, v)>>) : n \in N, t \in times, v \in vals}

Create(n, parent, t) ==
    EdgeMsg(n, parent, <<Pt("tombstone", t, 0), NodeType("x")>>)
Delete(n, parent, t) == EdgeMsg(n, parent, <<Pt("tombstone", t, 1)>>)

\* One tree; b lives under r or under a.
TreeNodeMsgs == NodeMsgsFor({"b"}, {0, 2}, {1}) \cup NodeMsgsFor({"b"}, {1}, {0})
TreeEdgeMsgs ==
    {Create("b", p, 1) : p \in {"r", "a", "b"}} \cup {Delete("b", "a", 2)}

\* Mirrors, edges that would close a cycle, a second root.
GraphNodeMsgs == NodeMsgsFor({"a"}, {2}, {1})
GraphEdgeMsgs ==
    {Create("b", p, 1) : p \in {"a", "root"}}
    \cup {Create("a", "b", 1), Create("r", "b", 1)}
    \cup {Delete("b", p, 2) : p \in {"a", "root"}}
    \cup {Delete("r", "root", 2), Delete("a", "r", 2)}

\* Everything but the history, for properties that do not depend on it.
NoHistory == <<db, rootID, nodeH, edgeH, reader>>

\* One node, and requests for it.
ReadNodeMsgs == NodeMsgsFor({"b"}, {1, 2}, {1})
ReadEdgeMsgs == {Create("b", "a", 1), Delete("b", "a", 2)}
ReadRequests ==
    {[parent |-> "a", id |-> "all", includeDel |-> FALSE],
     [parent |-> "all", id |-> "b", includeDel |-> TRUE],
     [parent |-> "root", id |-> "all", includeDel |-> FALSE],
     [parent |-> "all", id |-> "all", includeDel |-> FALSE]}

=============================================================================
