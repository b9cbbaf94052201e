------------------------------- MODULE SiotDb -------------------------------
(***************************************************************************)
(* The data of one Simple IoT instance and the transactions of its SQLite  *)
(* store, as operators on a database value: points and their merge         *)
(* (data/point.go), and nodePoints, edgePoints and updateHash              *)
(* (store/sqlite.go).  The modules that have behaviours (Store, StoreMaint,*)
(* StoreBoot) apply these operators to a variable.                         *)
(*                                                                         *)
(* A CRC-32 is abstracted to the set holding the one token of what it      *)
(* covers, and XOR to symmetric difference: two hashes are equal here when *)
(* they are equal for every CRC function without accidental collisions.    *)
(***************************************************************************)
EXTENDS Integers, Sequences, FiniteSets, FiniteSetsExt

CONSTANTS
    Node,       \* node IDs (data.Node.ID)
    PType,      \* point types, among them "tombstone" and "nodeType"
    RawKey,     \* keys as clients send them, among them "" and "0"
    Text,       \* texts of points, among them "" and the node types
    Value,      \* values of points, numbers
    MaxTime     \* bound on timestamps; 0 is Go's zero time

\* The empty string: no key, no text, no ID.
Blank == ""

ASSUME DbAssumption ==
    /\ "root" \notin Node /\ Blank \notin Node
    /\ {"tombstone", "nodeType"} \subseteq PType
    /\ {Blank, "0"} \subseteq RawKey
    /\ {Blank, "device", "user"} \subseteq Text
    /\ Value \subseteq Int /\ 0 \in Value
    /\ MaxTime \in Nat \ {0}

-----------------------------------------------------------------------------
(* Points *)

Time == 0 .. MaxTime

\* data.Point without Data, Tombstone and Origin, which the store copies and
\* never reads, and which the CRC leaves out.
Point == [typ : PType, key : RawKey, time : Time, text : Text, val : Value]

\* What identifies a point in a node: its type and its stored key.
Ident == PType \X (RawKey \ {Blank})

NormKey(key) == IF key = Blank THEN "0" ELSE key

IdentOf(p) == <<p.typ, NormKey(p.key)>>

\* The store fills in a missing time and a blank key before it compares.
Stamp(p, now) ==
    [typ  |-> p.typ, key |-> NormKey(p.key),
     time |-> IF p.time = 0 THEN now ELSE p.time,
     text |-> p.text, val |-> p.val]

\* Point.CRC: covers time, type, key, text and value, and not the node.
CRC(p) ==
    IF p.typ = "nodeType" THEN {}
                          ELSE {<<p.time, p.typ, p.key, p.text, p.val>>}

Token == Time \X PType \X RawKey \X Text \X Value

\* The map key of Points.Collapse: type and key run together.
CollapseKey(p) == p.typ \o p.key

\* Points.Collapse: of the points with one map key the latest stays, the last
\* one among equally late ones.  The result comes out of a Go map, in no order.
Collapse(points) ==
    {points[i] : i \in {i \in DOMAIN points :
        \A j \in DOMAIN points \ {i} :
            CollapseKey(points[j]) = CollapseKey(points[i]) =>
                \/ points[j].time < points[i].time
                \/ points[j].time = points[i].time /\ j < i}}

-----------------------------------------------------------------------------
(* XOR of hashes *)

Odd(S) == Cardinality(S) % 2 = 1

\* The XOR of F(s) for all s in S.
XorOver(S, F(_)) ==
    {x \in UNION {F(s) : s \in S} : Odd({s \in S : x \in F(s)})}

-----------------------------------------------------------------------------
(* Point tables.  rows[k] holds the rows of identity k in insertion order. *)
(* The merge only ever looks at, and overwrites, the first one.            *)

Rows == [Ident -> Seq(Point)]
NoRows == [k \in Ident |-> <<>>]

\* Mutant: the times are not compared.
AcceptsAnyTime(rows, p, now) == TRUE

Accepts(rows, p, now) ==
    rows[IdentOf(p)] # <<>> =>
        rows[IdentOf(p)][1].time =< Stamp(p, now).time

\* Mutant: the CRC of the point that is replaced stays in the hash.
HashDeltaKeepsOld(rows, p, now) ==
    IF Accepts(rows, p, now) THEN CRC(Stamp(p, now)) ELSE {}

\* What one incoming point adds to hashUpdate: rows are compared with the
\* table as it was read, before any point of the batch is written.
HashDelta(rows, p, now) ==
    LET old == rows[IdentOf(p)] IN
    IF old = <<>> THEN CRC(Stamp(p, now))
    ELSE IF Accepts(rows, p, now)
         THEN SymDiff(CRC(old[1]), CRC(Stamp(p, now)))
         ELSE {}

HashUpdate(rows, pts, now) ==
    XorOver(pts, LAMBDA p : HashDelta(rows, p, now))

\* The rows of identity k after the batch pts, one outcome per order in which
\* the Go map may deliver the batch.  Only the blank key and "0" share an
\* identity, so a batch holds at most two points of one.
RowOutcomes(rows, pts, now, k) ==
    LET in  == {p \in pts : IdentOf(p) = k}
        acc == {p \in in : Accepts(rows, p, now)}
    IN  IF acc = {} THEN {rows[k]}
        ELSE IF rows[k] # <<>>
        THEN {[rows[k] EXCEPT ![1] = Stamp(p, now)] : p \in acc}
        ELSE {<<Stamp(p, now)>> : p \in {p \in in : in = {p}}}
             \cup {<<Stamp(pq[1], now), Stamp(pq[2], now)>> :
                      pq \in {pq \in in \X in : pq[1] # pq[2]}}

MergeRows(rows, pts, now) ==
    LET K == {IdentOf(p) : p \in pts}
        Picks == {g \in [K -> UNION {RowOutcomes(rows, pts, now, k) : k \in K}] :
                     \A k \in K : g[k] \in RowOutcomes(rows, pts, now, k)}
    IN  {[k \in Ident |-> IF k \in K THEN g[k] ELSE rows[k]] : g \in Picks}

\* Points.Find: the first row of an identity; the zero Point when none.
FindVal(rows, typ) ==
    IF rows[<<typ, "0">>] = <<>> THEN 0 ELSE rows[<<typ, "0">>][1].val

\* Points.Hash
RowsHash(rows) ==
    XorOver({ki \in Ident \X (1..2) : ki[2] =< Len(rows[ki[1]])},
            LAMBDA ki : CRC(rows[ki[1]][ki[2]]))

-----------------------------------------------------------------------------
(* The database.  An edge is the pair of its up and down IDs: edgePoints   *)
(* looks an edge up by that pair before it inserts one.                    *)

EdgeId == (Node \cup {"root"}) \X Node

DB == [np    : [Node -> Rows],              \* table node_points
       edges : SUBSET EdgeId,               \* table edges
       ep    : [EdgeId -> Rows],            \* table edge_points
       hash  : [EdgeId -> SUBSET Token],    \* edges.hash
       typ   : [EdgeId -> Text],            \* edges.type
       root  : Node \cup {Blank}]              \* meta.root_id

EmptyDB == [np    |-> [n \in Node |-> NoRows],
            edges |-> {},
            ep    |-> [e \in EdgeId |-> NoRows],
            hash  |-> [e \in EdgeId |-> {}],
            typ   |-> [e \in EdgeId |-> Blank],
            root  |-> Blank]

EdgesDown(E, n) == {e \in E : e[2] = n}
EdgesUp(E, n) == {e \in E : e[1] = n}

\* NodeEdge.IsTombstone: the tombstone point is exactly 1.
IsTombstone(db, e) == FindVal(db.ep[e], "tombstone") = 1

LiveEdges(db) == {e \in db.edges : ~IsTombstone(db, e)}

\* Mutant: deleted edges are left out whatever the caller wants.
UpNeverDeleted(db, n, includeDeleted) ==
    {e[1] : e \in {e \in EdgesDown(db.edges, n) :
        FindVal(db.ep[e], "tombstone") % 2 = 0}}

\* DbSqlite.up: parents of a node; a live one has an even tombstone value.
Up(db, n, includeDeleted) ==
    {e[1] : e \in {e \in EdgesDown(db.edges, n) :
        includeDeleted \/ FindVal(db.ep[e], "tombstone") % 2 = 0}}

\* NodeEdge.CalcHash of an edge over all children, deleted ones included.
CalcHash(db, e) ==
    SymDiff(SymDiff(RowsHash(db.np[e[2]]), RowsHash(db.ep[e])),
            XorOver(EdgesUp(db.edges, e[2]), LAMBDA c : db.hash[c]))

\* updateHashHelper walks up from id along every path.  Reach[k] holds the
\* nodes it enters at depth k, OddReach[k] those it enters an odd number of
\* times: what is XORed in twice cancels.
Reach(E, id) ==
    LET R[k \in 0 .. Cardinality(Node)] ==
            IF k = 0 THEN {id}
            ELSE {u \in Node : \E n \in R[k-1] : <<u, n>> \in E}
    IN  R

OddReach(E, id) ==
    LET R[k \in 0 .. Cardinality(Node)] ==
            IF k = 0 THEN {id}
            ELSE {u \in Node : Odd({n \in R[k-1] : <<u, n>> \in E})}
    IN  R

\* A walk as long as there are nodes has met a cycle: the recursion of
\* updateHashHelper has no other end than the top of the graph.
Diverges(E, id) == Reach(E, id)[Cardinality(Node)] # {}

UpdateHash(E, hash, id, hashUpdate) ==
    LET odd     == OddReach(E, id)
        changed == {e \in E : Odd({k \in DOMAIN odd : e[2] \in odd[k]})}
    IN  [e \in EdgeId |-> IF e \in changed THEN SymDiff(hash[e], hashUpdate)
                                           ELSE hash[e]]

-----------------------------------------------------------------------------
(* Transactions.  Each is one SQLite transaction under writeLock; the sets *)
(* hold the databases it may commit.                                       *)

\* DbSqlite.nodePoints
NodePoints(db, id, points, now) ==
    LET pts == Collapse(points)
        upd == HashUpdate(db.np[id], pts, now)
    IN  {[db EXCEPT !.np[id] = rows,
                    !.hash = UpdateHash(db.edges, @, id, upd)] :
            rows \in MergeRows(db.np[id], pts, now)}

\* Mutant: the root may be deleted.
EdgePointsErrorNoRoot(db, rootID, id, parent, points) ==
    \/ id = parent
    \/ /\ <<parent, id>> \notin db.edges
       /\ \A p \in Collapse(points) : p.typ = "nodeType" => p.text = Blank

\* The early returns of edgePoints, and its rollback of an untyped new edge.
EdgePointsError(db, rootID, id, parent, points) ==
    \/ id = parent
    \/ /\ id = rootID
       /\ \E p \in Collapse(points) : p.typ = "tombstone" /\ p.val > 0
    \/ /\ <<parent, id>> \notin db.edges
       /\ \A p \in Collapse(points) : p.typ = "nodeType" => p.text = Blank

\* The text of the node type point, which is not stored as a point.
NodeTypeOf(points) ==
    LET pts == {p \in Collapse(points) : p.typ = "nodeType"}
    IN  IF pts = {} THEN Blank ELSE (CHOOSE p \in pts : TRUE).text

\* DbSqlite.edgePoints past its errors and without the hash walk: an edge
\* that is new also brings the points its node has already, and a new edge to
\* "root" makes its node the root in meta.
EdgeWrites(db, id, parent, points, now) ==
    LET e    == <<parent, id>>
        pts  == {p \in Collapse(points) : p.typ # "nodeType"}
        new  == e \notin db.edges
        base == HashUpdate(db.ep[e], pts, now)
        upd  == IF new THEN SymDiff(base, RowsHash(db.np[id])) ELSE base
    IN  {[db EXCEPT !.ep[e]  = rows,
                    !.edges  = @ \cup {e},
                    !.typ[e] = IF new THEN NodeTypeOf(points) ELSE @,
                    !.root   = IF new /\ parent = "root" THEN id ELSE @,
                    !.hash   = UpdateHash(db.edges \cup {e}, @, id, upd)] :
            rows \in MergeRows(db.ep[e], pts, now)}

RootPoints(typ) ==
    <<[typ |-> "tombstone", key |-> Blank, time |-> 0, text |-> Blank, val |-> 0],
      [typ |-> "nodeType", key |-> Blank, time |-> 0, text |-> typ, val |-> 0]>>

\* DbSqlite.initRoot on an empty database: the root and the user below it.
InitRoot(root, admin, adminPoints) ==
    UNION {UNION {EdgeWrites(d2, admin, root, RootPoints("user"), 1) :
        d2 \in NodePoints(d1, admin, adminPoints, 1) \cap DB} :
        d1 \in EdgeWrites(EmptyDB, root, "root", RootPoints("device"), 1) \cap DB}

-----------------------------------------------------------------------------
(* What the database should satisfy.  The modules that own a database      *)
(* state these as invariants.                                              *)

\* Every stored hash is the one its node, edge and children have.
HashesCorrect(db) == \A e \in db.edges : db.hash[e] = CalcHash(db, e)

Acyclic(E) == \A n \in Node : ~Diverges(E, n)

\* No two points of the batch are the same point, and Collapse does not take
\* two of them for the same.
Unambiguous(points) ==
    \A i, j \in DOMAIN points :
        i # j => /\ IdentOf(points[i]) # IdentOf(points[j])
                 /\ CollapseKey(points[i]) # CollapseKey(points[j])

\* The rows hold identity k in a version that is not older than time.
Holds(rows, k, time) == \E i \in DOMAIN rows[k] : rows[k][i].time >= time

=============================================================================
