-------------------------------- MODULE Store --------------------------------
(***************************************************************************)
(* A running store (store/store.go) over the database of SiotDb.  The NATS *)
(* client library runs each subscription of Store.Run in a goroutine of    *)
(* its own and hands it one message at a time, so three handlers run       *)
(* concurrently:                                                           *)
(*   - nodeH,  handleNodePoints, subject p.<id>;                           *)
(*   - edgeH,  handleEdgePoints, subject p.<id>.<parent>;                  *)
(*   - reader, handleNodesRequest, subject nodes.<parent>.<id>.            *)
(* A writing handler commits its transaction, announces the points on      *)
(* up.<ancestor>.<id> for the node and its ancestors, reading the parents  *)
(* of each one as it comes to it, and then replies.                        *)
(*                                                                         *)
(* An edge is named <<up, down>>; <<"", n>> names node n's own points.     *)
(***************************************************************************)
EXTENDS SiotDb

CONSTANTS
    Root,        \* the node initRoot makes the root
    Admin,       \* the user node initRoot puts below it
    AdminPoints, \* what User.ToPoints gives initRoot to store
    NodeMsgs,    \* messages clients send to p.<id>
    EdgeMsgs,    \* messages clients send to p.<id>.<parent>
    Requests,    \* requests clients send to nodes.<parent>.<id>
    TreesOnly,   \* clients only ever put a new node under one parent
    MayFail      \* a transaction may fail (SQLITE_BUSY, disk full)

Place == (Node \cup {"root", Blank}) \X Node
Hop   == Node \cup {"root"}

Msg == [id : Node, parent : Hop \cup {Blank}, pts : Seq(Point)]

Request == [parent : Hop \cup {"all"}, id : Node \cup {"all"},
            includeDel : BOOLEAN]

ASSUME StoreAssumption ==
    /\ Root \in Node /\ Admin \in Node \ {Root}
    /\ AdminPoints \in Seq(Point)
    /\ NodeMsgs \subseteq {m \in Msg : m.parent = Blank}
    /\ EdgeMsgs \subseteq {m \in Msg : m.parent # Blank}
    /\ Requests \subseteq Request
    /\ TreesOnly \in BOOLEAN /\ MayFail \in BOOLEAN

VARIABLES
    db,       \* what SQLite has committed
    rootID,   \* sdb.meta.RootID, in memory
    nodeH,    \* the p.* handler
    edgeH,    \* the p.*.* handler
    reader,   \* the nodes.*.* handler
    acked     \* history: the newest points that clients got empty replies for

vars == <<db, rootID, nodeH, edgeH, reader, acked>>

-----------------------------------------------------------------------------
(* Handlers *)

NoMsg == [id |-> Blank, parent |-> Blank, pts |-> <<>>]

\* todo is the stack of processPointsUpstream: the siblings still to visit at
\* each depth.  told is the set of ancestors the points were announced to.
\* live is a history: the edges that led up all the time since the commit.
Handler == [pc   : {"idle", "wait", "walk", "diverged"},
            msg  : Msg \cup {NoMsg},
            err  : BOOLEAN,
            todo : Seq(SUBSET Hop),
            told : SUBSET Hop,
            live : SUBSET EdgeId]

IdleHandler == [pc |-> "idle", msg |-> NoMsg, err |-> FALSE,
                todo |-> <<>>, told |-> {}, live |-> {}]

PlaceOf(m) == <<m.parent, m.id>>

RowsAt(d, at) == IF at[1] = Blank THEN d.np[at[2]] ELSE d.ep[at]

\* What a message asks the store to keep; the node type goes to the edge row.
Version == [at : Place, k : Ident, time : Time]

Kept(m) == {[at |-> PlaceOf(m), k |-> IdentOf(m.pts[i]), time |-> m.pts[i].time] :
    i \in {i \in DOMAIN m.pts : m.parent # Blank => m.pts[i].typ # "nodeType"}}

Newest(W) ==
    {w \in W : \A v \in W : v.at = w.at /\ v.k = w.k => v.time =< w.time}

Stored(d, w) == Holds(RowsAt(d, w.at), w.k, w.time)

\* The edges DbSqlite.up follows when it leaves deleted ones out.
LiveUp(d) == {e \in d.edges : FindVal(d.ep[e], "tombstone") % 2 = 0}

\* time.Now(), for a batch with a point that has no time.  Wall clocks jump,
\* so it is any time.
Clock(pts) ==
    IF \E i \in DOMAIN pts : pts[i].time = 0 THEN Time \ {0} ELSE {1}

Push(S, stack) == IF S = {} THEN stack ELSE <<S>> \o stack

\* One call of processPointsUpstream or processEdgePointsUpstream: publish to
\* up.<x>, read the parents of x and go through them first.
Visit(h, x, includeDeleted) ==
    [h EXCEPT !.told = @ \cup {x},
              !.todo = Push(Up(db, x, includeDeleted),
                            Push(Head(@) \ {x}, Tail(@)))]

StartWalk(h, E) ==
    [h EXCEPT !.pc = "walk", !.todo = <<{h.msg.id}>>, !.live = E]

\* writeLock is held across one transaction, and to the end of the process by
\* one whose hash update never ends.
WriteLockFree == edgeH.pc # "diverged"

-----------------------------------------------------------------------------
(* handleNodePoints *)

NodeReceive ==
    \E m \in NodeMsgs :
        /\ nodeH.pc = "idle"
        /\ nodeH' = [nodeH EXCEPT !.pc = "wait", !.msg = m]
        /\ UNCHANGED <<db, rootID, edgeH, reader, acked>>

NodeCommit ==
    /\ nodeH.pc = "wait"
    /\ WriteLockFree
    /\ \E now \in Clock(nodeH.msg.pts) :
           db' \in NodePoints(db, nodeH.msg.id, nodeH.msg.pts, now)
    /\ nodeH' = StartWalk(nodeH, LiveUp(db))
    /\ UNCHANGED <<rootID, edgeH, reader, acked>>

\* Mutant: the handler goes on as if the transaction had been committed.
NodeFailGoesOn ==
    /\ MayFail
    /\ nodeH.pc = "wait"
    /\ WriteLockFree
    /\ nodeH' = StartWalk(nodeH, LiveUp(db))
    /\ UNCHANGED <<db, rootID, edgeH, reader, acked>>

\* Mutant: the error is not replied.
NodeFailSilent ==
    /\ MayFail
    /\ nodeH.pc = "wait"
    /\ WriteLockFree
    /\ nodeH' = [nodeH EXCEPT !.pc = "diverged"]
    /\ UNCHANGED <<db, rootID, edgeH, reader, acked>>

\* An error is replied and nothing is announced.
NodeFail ==
    /\ MayFail
    /\ nodeH.pc = "wait"
    /\ WriteLockFree
    /\ nodeH' = IdleHandler
    /\ UNCHANGED <<db, rootID, edgeH, reader, acked>>

NodeVisit ==
    /\ nodeH.pc = "walk"
    /\ nodeH.todo # <<>>
    /\ \E x \in Head(nodeH.todo) : nodeH' = Visit(nodeH, x, FALSE)
    /\ UNCHANGED <<db, rootID, edgeH, reader, acked>>

NodeReply ==
    /\ nodeH.pc = "walk"
    /\ nodeH.todo = <<>>
    /\ nodeH' = IdleHandler
    /\ acked' = Newest(acked \cup Kept(nodeH.msg))
    /\ UNCHANGED <<db, rootID, edgeH, reader>>

-----------------------------------------------------------------------------
(* handleEdgePoints *)

\* What clients send: a root edge is created live (client.SendNode and the
\* import write tombstone 0), and with TreesOnly an edge is only created for
\* a node that has neither parents nor children yet.
ClientSends(m) ==
    PlaceOf(m) \notin db.edges =>
        /\ m.parent = "root" =>
               \A i \in DOMAIN m.pts : m.pts[i].typ = "tombstone" => m.pts[i].val = 0
        /\ TreesOnly =>
               \A e \in db.edges : m.id \notin {e[1], e[2]}

EdgeReceive ==
    \E m \in EdgeMsgs :
        /\ edgeH.pc = "idle"
        /\ ClientSends(m)
        /\ edgeH' = [edgeH EXCEPT !.pc = "wait", !.msg = m]
        /\ UNCHANGED <<db, rootID, nodeH, reader, acked>>

Refused(m) == EdgePointsError(db, rootID, m.id, m.parent, m.pts)

\* Mutant: the walk notices that it has come back, and ends.
EndlessHashNever(m) == FALSE

EndlessHash(m) == Diverges(db.edges \cup {PlaceOf(m)}, m.id)

NewRoot(m) == m.parent = "root" /\ PlaceOf(m) \notin db.edges

EdgeCommit ==
    LET m == edgeH.msg IN
    /\ edgeH.pc = "wait"
    /\ ~Refused(m)
    /\ ~EndlessHash(m)
    /\ \E now \in Clock(m.pts) :
           db' \in EdgeWrites(db, m.id, m.parent, m.pts, now)
    /\ rootID' = IF NewRoot(m) THEN m.id ELSE rootID
    /\ edgeH' = StartWalk(edgeH, db'.edges)
    /\ nodeH' = [nodeH EXCEPT !.live = @ \cap LiveUp(db')]
    /\ UNCHANGED <<reader, acked>>

\* The error is replied, and then the points are announced all the same and
\* an empty reply follows.
EdgeRefuse ==
    /\ edgeH.pc = "wait"
    /\ Refused(edgeH.msg)
    /\ edgeH' = [StartWalk(edgeH, db.edges) EXCEPT !.err = TRUE]
    /\ UNCHANGED <<db, rootID, nodeH, reader, acked>>

\* A failing transaction is rolled back, but meta.RootID is assigned before
\* updateHash and Commit, so it may have been assigned already.
EdgeFail ==
    LET m == edgeH.msg IN
    /\ MayFail
    /\ edgeH.pc = "wait"
    /\ ~Refused(m)
    /\ rootID' \in {rootID} \cup (IF NewRoot(m) THEN {m.id} ELSE {})
    /\ edgeH' = [StartWalk(edgeH, db.edges) EXCEPT !.err = TRUE]
    /\ UNCHANGED <<db, nodeH, reader, acked>>

\* The new edge closes a cycle: updateHashHelper follows it without end, inside
\* the transaction and holding writeLock, until Go's limit on the stack of a
\* goroutine kills the process (then Restart is the next step).
EdgeDiverge ==
    /\ edgeH.pc = "wait"
    /\ ~Refused(edgeH.msg)
    /\ EndlessHash(edgeH.msg)
    /\ edgeH' = [edgeH EXCEPT !.pc = "diverged"]
    /\ UNCHANGED <<db, rootID, nodeH, reader, acked>>

EdgeVisit ==
    /\ edgeH.pc = "walk"
    /\ edgeH.todo # <<>>
    /\ \E x \in Head(edgeH.todo) : edgeH' = Visit(edgeH, x, TRUE)
    /\ UNCHANGED <<db, rootID, nodeH, reader, acked>>

\* Mutant: whether the transaction was committed is not remembered.
EdgeReplyAlways ==
    /\ edgeH.pc = "walk"
    /\ edgeH.todo = <<>>
    /\ edgeH' = IdleHandler
    /\ acked' = Newest(acked \cup Kept(edgeH.msg))
    /\ UNCHANGED <<db, rootID, nodeH, reader>>

EdgeReply ==
    /\ edgeH.pc = "walk"
    /\ edgeH.todo = <<>>
    /\ edgeH' = IdleHandler
    /\ acked' = IF edgeH.err THEN acked ELSE Newest(acked \cup Kept(edgeH.msg))
    /\ UNCHANGED <<db, rootID, nodeH, reader>>

-----------------------------------------------------------------------------
(* handleNodesRequest: getNodes makes three queries, outside a transaction *)

\* need is a history: what had been acknowledged or announced when the request
\* came in.  edges, hash, ep and np are the answer as far as it was read.
IdleReader == [pc |-> "idle", req |-> <<>>, need |-> {},
               edges |-> {}, hash |-> <<>>, ep |-> <<>>, np |-> <<>>]

\* The WHERE clause of getNodes.
Matches(req, e) ==
    CASE req.parent = "root" -> e[2] = rootID
      [] req.parent = "all"  -> e[2] = req.id
      [] OTHER               -> e[1] = req.parent /\ req.id \in {"all", e[2]}

\* Asking for all nodes of all parents is an error.
ValidRequest(req) == req.parent = "all" => req.id # "all"

\* Announced by a handler that has written its points, or acknowledged.
Published ==
    acked \cup UNION {Kept(h.msg) :
                         h \in {h \in {nodeH, edgeH} : h.told # {} /\ ~h.err}}

ReadEdges ==
    \E req \in Requests :
        /\ reader.pc = "idle"
        /\ ValidRequest(req)
        /\ LET E == {e \in db.edges : Matches(req, e)} IN
           reader' = [IdleReader EXCEPT
                         !.pc    = IF E = {} THEN "answered" ELSE "edges",
                         !.req   = req,
                         !.need  = Published,
                         !.edges = E,
                         !.hash  = [e \in E |-> db.hash[e]]]
        /\ UNCHANGED <<db, rootID, nodeH, edgeH, acked>>

\* Mutant: deleted nodes are left out although they were asked for.
ReadEdgePointsNoDel ==
    /\ reader.pc = "edges"
    /\ LET E == {e \in reader.edges : ~IsTombstone(db, e)}
       IN  reader' = [reader EXCEPT
                         !.pc    = IF E = {} THEN "answered" ELSE "points",
                         !.edges = E,
                         !.hash  = [e \in E |-> reader.hash[e]],
                         !.ep    = [e \in E |-> db.ep[e]]]
    /\ UNCHANGED <<db, rootID, nodeH, edgeH, acked>>

\* Load the edge points, then leave the deleted nodes out.
ReadEdgePoints ==
    /\ reader.pc = "edges"
    /\ LET E == {e \in reader.edges : reader.req.includeDel \/ ~IsTombstone(db, e)}
       IN  reader' = [reader EXCEPT
                         !.pc    = IF E = {} THEN "answered" ELSE "points",
                         !.edges = E,
                         !.hash  = [e \in E |-> reader.hash[e]],
                         !.ep    = [e \in E |-> db.ep[e]]]
    /\ UNCHANGED <<db, rootID, nodeH, edgeH, acked>>

ReadNodePoints ==
    /\ reader.pc = "points"
    /\ reader' = [reader EXCEPT
                     !.pc = "answered",
                     !.np = [n \in {e[2] : e \in reader.edges} |-> db.np[n]]]
    /\ UNCHANGED <<db, rootID, nodeH, edgeH, acked>>

Answer ==
    /\ reader.pc = "answered"
    /\ reader' = IdleReader
    /\ UNCHANGED <<db, rootID, nodeH, edgeH, acked>>

-----------------------------------------------------------------------------
(* The store *)

Init ==
    /\ db \in InitRoot(Root, Admin, AdminPoints)
    /\ rootID = Root
    /\ nodeH = IdleHandler
    /\ edgeH = IdleHandler
    /\ reader = IdleReader
    /\ acked = {}

\* Mutant: meta is not read.
RestartForgets ==
    /\ rootID' = Blank
    /\ nodeH' = IdleHandler
    /\ edgeH' = IdleHandler
    /\ reader' = IdleReader
    /\ UNCHANGED <<db, acked>>

\* The process dies and comes up again: NewSqliteDb reads meta.
Restart ==
    /\ rootID' = db.root
    /\ nodeH' = IdleHandler
    /\ edgeH' = IdleHandler
    /\ reader' = IdleReader
    /\ UNCHANGED <<db, acked>>

NodeStep == NodeCommit \/ NodeFail \/ NodeVisit \/ NodeReply
EdgeStep == EdgeCommit \/ EdgeRefuse \/ EdgeFail \/ EdgeDiverge
            \/ EdgeVisit \/ EdgeReply
ReadStep == ReadEdgePoints \/ ReadNodePoints \/ Answer

Next ==
    \/ NodeReceive \/ EdgeReceive \/ ReadEdges
    \/ NodeCommit \/ NodeFail \/ NodeVisit \/ NodeReply
    \/ EdgeCommit \/ EdgeRefuse \/ EdgeFail \/ EdgeDiverge
    \/ EdgeVisit \/ EdgeReply
    \/ ReadEdgePoints \/ ReadNodePoints \/ Answer
    \/ Restart

Spec == Init /\ [][Next]_vars

\* The Go scheduler runs every goroutine that can run.
FairSpec == Spec /\ WF_vars(NodeStep) /\ WF_vars(EdgeStep) /\ WF_vars(ReadStep)

-----------------------------------------------------------------------------
(* Properties *)

\* The types of the variables.
TypeOK ==
    /\ db \in DB /\ db.root \in Node
    /\ rootID \in Node
    /\ nodeH \in Handler
    /\ edgeH \in Handler
    /\ DOMAIN reader = DOMAIN IdleReader
    /\ reader.pc \in {"idle", "edges", "points", "answered"}
    /\ acked \subseteq Version

\* nodePoints, edgePoints: the incrementally updated hash of every edge is the
\* hash that CalcHash computes from scratch.
HashInv == HashesCorrect(db)

\* edgePoints, updateHashHelper: nodes form a directed acyclic graph.  Only
\* the edge from a node to itself is checked for; what keeps a longer cycle
\* out is that the transaction that would close it never commits.
Dag == Acyclic(db.edges)

\* edgePoints ("can't delete root node"): the root node that meta names is
\* never deleted, so NewSqliteDb finds it when the process comes up again, and
\* the root ID in memory, which deletions are checked against, is that one.
RootAlive == <<"root", db.root>> \in LiveEdges(db) /\ rootID = db.root

\* handleNodePoints, handleEdgePoints: a point that was acknowledged is in the
\* database, or a version of it that is not older, whatever runs later.
AckedDurable == \A w \in acked : Stored(db, w)

\* handleNodePoints, handleEdgePoints: points are announced upstream only when
\* they have been written, so a client that rescans on an announcement finds
\* them (store.go: "It's important that we write to the DB before ...").
AnnouncedStored ==
    \A h \in {nodeH, edgeH} :
        h.told # {} /\ ~h.err =>
            \A w \in Kept(h.msg) : Stored(db, w)

Ancestors(E, n) ==
    LET N == UNION {Reach(E, n)[k] : k \in 0 .. Cardinality(Node)}
    IN  N \cup {e[1] : e \in {e \in E : e[2] \in N}}

\* processPointsUpstream, processEdgePointsUpstream: when the walk is over it
\* has told the node, and every ancestor above it along edges that were there
\* all the time, and nobody who is not an ancestor.
UpstreamComplete ==
    \A h \in {nodeH, edgeH} :
        h.pc = "walk" /\ h.todo = <<>> =>
            /\ Ancestors(h.live, h.msg.id) \subseteq h.told
            /\ h.told \subseteq Ancestors(db.edges, h.msg.id)

\* handleNodesRequest: an answer holds everything about its nodes that had
\* been acknowledged or announced before the request, although the three
\* queries see different states of the database.
AnswersFresh ==
    reader.pc = "answered" =>
        \A w \in reader.need :
            /\ w.at \in reader.edges => Holds(reader.ep[w.at], w.k, w.time)
            /\ w.at[1] = Blank /\ (\E e \in reader.edges : e[2] = w.at[2]) =>
                   Holds(reader.np[w.at[2]], w.k, w.time)
            /\ w.at[1] # Blank /\ reader.req.includeDel =>
                   \/ w.at \in reader.edges
                   \/ reader.req.parent = "root"
                   \/ ~Matches(reader.req, w.at)

\* Whether rows of one identity after a step continue the rows before it.
Advances(old, new) ==
    /\ Len(old) =< Len(new)
    /\ \A i \in DOMAIN old : old[i].time =< new[i].time

\* nodePoints, edgePoints: no step takes a point away or replaces it by an
\* older one, an edge never goes away, and it keeps its type.
PointsOnlyAdvance ==
    /\ \A n \in Node, k \in Ident : Advances(db.np[n][k], db'.np[n][k])
    /\ \A e \in EdgeId, k \in Ident : Advances(db.ep[e][k], db'.ep[e][k])
    /\ db.edges \subseteq db'.edges
    /\ \A e \in db.edges : db.typ[e] = db'.typ[e]

NeverOlder == [][PointsOnlyAdvance]_vars

\* handleNodePoints, handleEdgePoints: every message a handler takes gets its
\* reply.
Replies == /\ nodeH.pc = "wait" ~> nodeH.pc = "idle"
           /\ edgeH.pc = "wait" ~> edgeH.pc = "idle"

-----------------------------------------------------------------------------
(* Refinement *)

Phase(h) == CASE h.pc = "idle"                    -> "free"
              [] h.pc \in {"wait", "diverged"}    -> "taken"
              [] h.pc = "walk" /\ ~h.err          -> "applied"
              [] OTHER                            -> "refused"

\* A place's first row of each identity is the one the store looks at.
NewestAt(d, at) ==
    [k \in Ident |-> IF RowsAt(d, at)[k] = <<>> THEN -1 ELSE RowsAt(d, at)[k][1].time]

L == INSTANCE Ledger WITH
         At     <- Place,
         Key    <- Ident,
         Times  <- Time,
         Port   <- {"p", "e"},
         Batch  <- [p \in {"p", "e"} |->
                       {Kept(m) : m \in IF p = "p" THEN NodeMsgs ELSE EdgeMsgs}],
         newest <- [at \in Place |-> NewestAt(db, at)],
         port   <- [p \in {"p", "e"} |->
                       LET h == IF p = "p" THEN nodeH ELSE edgeH
                       IN  [st    |-> Phase(h),
                            batch |-> IF h.pc = "idle" THEN {} ELSE Kept(h.msg)]],
         acked  <- acked

\* handleNodePoints, handleEdgePoints: the two handlers together are the ledger
\* of module Ledger.  Every batch is stored in one step, as a whole or not at
\* all, no later step, failure or restart takes any of it back or makes it
\* older, and the empty reply comes after it.
ImplementsLedger == L!Spec

=============================================================================
