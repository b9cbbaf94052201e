-------------------------------- MODULE Sync --------------------------------
(***************************************************************************)
(* The sync client (client/sync.go): keeps the tree of this instance ("L") *)
(* and its copy below the root of an upstream instance ("R") the same.     *)
(* While connected it forwards points as they come; after a connection and *)
(* then once in a period it compares hashes from the device node down and  *)
(* sends what differs.                                                     *)
(*                                                                         *)
(* A node has one point, whose version is its time, and one edge, whose    *)
(* point is the tombstone.  Times are different, so that equal times mean  *)
(* equal points.  The point of the sync node is its count: only whether a  *)
(* version is the newest (2) or an older one (1) is told apart.            *)
(***************************************************************************)
EXTENDS Integers, Sequences, SequencesExt, FiniteSets

CONSTANTS
    Node,       \* nodes of the tree
    Device,     \* its root, rootLocal
    SyncNode,   \* the sync node
    Parent,     \* parents of the other nodes
    Local,      \* nodes that L has at first
    Written,    \* points that users write: <<instance, node>>
    Made,       \* nodes that users create
    Deleted,    \* nodes that users delete
    MaxWrites,  \* bound on what users do
    MaxDrops    \* bound on lost connections, edits and restarts

Above[n \in Node] == {n} \cup IF n = Device THEN {} ELSE Above[Parent[n]]
Below(n) == {m \in Node : n \in Above[m]}
Kids(n) == {m \in Node \ {Device} : Parent[m] = n}

ASSUME SyncAssumption ==
    /\ IsFiniteSet(Node)
    /\ Device \in Local /\ SyncNode \in Local /\ Local \subseteq Node
    /\ Parent \in [Node \ {Device} -> Node]
    /\ \A n \in Node : Device \in Above[n]
    /\ <<"L", Device>> \notin Deleted
    /\ MaxWrites \in Nat /\ MaxDrops \in Nat

NoEdge == [t |-> 0, dead |-> FALSE]

VARIABLES
    db,          \* the two stores
    conn,        \* ncRemote: "none", "down" (reconnecting) or "up"
    chConnected, \* callbacks that wait to tell that a connection is up or lost
    connected,   \* Run's variable; the sync ticker runs
    timer,       \* connectTimer runs
    disabled,    \* config.Disabled
    rootRemote,  \* the root of R is known
    subUp,       \* subRemoteUp
    initialSub,  \* up.initialSub
    subs,        \* nodes with subscriptions on R
    dud,         \* nodes whose entry in subRemoteNodePoints is nil
    localPts,    \* points on the bus of L, for chLocalNodePoints
    localEdges,  \* edge points on the bus of L, for chLocalEdgePoints
    newEdges,    \* nodes whose edge R has announced, for chNewEdge
    toLocal,     \* points that subscriptions on R have received
    work,        \* stack of calls of syncNode and what it calls
    now,         \* the last time
    writes,      \* what users have done so far
    drops,       \* lost connections, edits and restarts so far
    stray        \* L has an edge from the root of R to the device node

link == <<conn, chConnected, connected, timer, disabled, drops>>
subscriptions == <<subUp, initialSub, subs, dud>>
queues == <<localPts, localEdges, newEdges, toLocal>>
vars == <<db, link, rootRemote, subscriptions, queues, work, now, writes, stray>>

-----------------------------------------------------------------------------
(* The stores *)

Exists(s, n) == db[s].edge[n].t > 0
Live(s, n) == Exists(s, n) /\ ~db[s].edge[n].dead

\* Node and edge points are stored unless they are older.
PutPoint(d, s, n, t) == [d EXCEPT ![s].pt[n] = IF t >= @ THEN t ELSE @]
PutEdge(d, s, n, e) == [d EXCEPT ![s].edge[n] = IF e.t >= @.t THEN e ELSE @]

\* The hash of an edge covers the points below it, those of deleted nodes too.
\* Those of the device node's edge are backed out.
Hash(s, n) ==
    [m \in {m \in Below(n) : m = Device \/ Exists(s, m)} |->
        <<db[s].pt[m], IF m = Device THEN NoEdge ELSE db[s].edge[m]>>]

Copy(s, n) == [pt |-> db[s].pt[n], edge |-> db[s].edge[n]]

\* R announces edge points to the device node, a deletion is not looked at.
Announce(n, e) ==
    newEdges' = IF ~e.dead /\ subUp /\ conn = "up" THEN Append(newEdges, n) ELSE newEdges

\* The count of the sync node is written; all others are now older ones.
WriteCount ==
    LET older(t) == IF t = 2 THEN 1 ELSE t
        aged == [k \in DOMAIN localPts |-> IF localPts[k].n = SyncNode
                                           THEN [localPts[k] EXCEPT !.t = older(@)]
                                           ELSE localPts[k]]
    IN  /\ db' = [db EXCEPT !["R"].pt[SyncNode] = older(@)]
        /\ localPts' = Append(aged, [n |-> SyncNode, t |-> 2])

-----------------------------------------------------------------------------
(* syncNode *)

NoCopy == [edge |-> NoEdge, pt |-> 0]

\* A call: what it does next, and what it has read.
Task(op, n) == [op |-> op, n |-> n, loc |-> NoCopy, rem |-> NoCopy, hash |-> <<>>,
                kids |-> {}]
Send(op, n, c) == [Task(op, n) EXCEPT !.loc = c]

Doing(op) == work # <<>> /\ Head(work).op = op
Then(tasks) == work' = tasks \o Tail(work)
Return == Then(<<>>)

\* The root of R, the subscription to its edges, and the local node.
SyncLocal ==
    /\ Doing("visit")
    /\ LET n == Head(work).n
       IN  IF ~rootRemote /\ conn # "up"
           THEN Return /\ UNCHANGED <<rootRemote, subUp>>
           ELSE /\ rootRemote' = TRUE
                /\ subUp' = TRUE
                /\ Then(<<[Send("remote", n, Copy("L", n)) EXCEPT !.hash = Hash("L", n)]>>)
    /\ UNCHANGED <<db, link, initialSub, subs, dud, queues, now, writes, stray>>

\* Mutant: the tombstone is sent with the time it has on L.
UndeleteThen(n) ==
    LET e == [t |-> db["L"].edge[n].t, dead |-> FALSE]
    IN  db' = PutEdge(db, "R", n, e) /\ Announce(n, e) /\ UNCHANGED now

\* A remote node is undeleted with a tombstone point of now.
Undelete(n) ==
    LET e == [t |-> now + 1, dead |-> FALSE]
    IN  db' = PutEdge(db, "R", n, e) /\ Announce(n, e) /\ now' = now + 1

\* The remote node: it is undeleted, or sent as a whole, or is as the local one,
\* or points are compared.
SyncRemote ==
    /\ Doing("remote")
    /\ LET f == Head(work)
           n == f.n
       IN  CASE conn # "up" ->
                    Return /\ UNCHANGED <<db, localPts, newEdges, now>>
             [] conn = "up" /\ db["R"].edge[n].dead ->
                    Undelete(n) /\ Return /\ UNCHANGED localPts
             [] conn = "up" /\ ~Exists("R", n) ->
                    /\ Then(<<Send("up", n, f.loc), Task("subSent", n)>>)
                    /\ UNCHANGED <<db, localPts, newEdges, now>>
             [] conn = "up" /\ Live("R", n) /\ f.hash = Hash("R", n) ->
                    Return /\ UNCHANGED <<db, localPts, newEdges, now>>
             [] OTHER ->
                    /\ IF n = Device THEN WriteCount ELSE UNCHANGED <<db, localPts>>
                    /\ Then(<<[f EXCEPT !.op = "points", !.rem = Copy("R", n), !.hash = <<>>]>>)
                    /\ UNCHANGED <<newEdges, now>>
    /\ UNCHANGED <<link, rootRemote, subscriptions, localEdges, toLocal, writes, stray>>

\* Mutant: a point that is newer on R is not fetched.
SyncPointsUpOnly ==
    /\ Doing("points")
    /\ LET f == Head(work)
       IN  /\ db' = IF f.loc.pt > f.rem.pt /\ conn = "up"
                    THEN PutPoint(db, "R", f.n, f.loc.pt) ELSE db
           /\ Then(<<[f EXCEPT !.op = IF f.n = Device THEN "list" ELSE "edge"]>>)
    /\ UNCHANGED <<link, rootRemote, subscriptions, queues, now, writes, stray>>

\* The newer point goes to the other side; what is written to L is on its bus.
SyncPoints ==
    /\ Doing("points")
    /\ LET f == Head(work)
           n == f.n
       IN  /\ CASE f.loc.pt > f.rem.pt ->
                       /\ db' = IF conn = "up" THEN PutPoint(db, "R", n, f.loc.pt) ELSE db
                       /\ UNCHANGED localPts
                [] f.loc.pt < f.rem.pt ->
                       /\ db' = PutPoint(db, "L", n, f.rem.pt)
                       /\ localPts' = Append(localPts, [n |-> n, t |-> f.rem.pt])
                [] OTHER -> UNCHANGED <<db, localPts>>
           /\ Then(<<[f EXCEPT !.op = IF n = Device THEN "list" ELSE "edge"]>>)
    /\ UNCHANGED <<link, rootRemote, subscriptions, localEdges, newEdges, toLocal, now,
                   writes, stray>>

SyncEdge ==
    /\ Doing("edge")
    /\ LET f == Head(work)
           n == f.n
       IN  /\ CASE f.loc.edge.t > f.rem.edge.t /\ conn = "up" ->
                       /\ db' = PutEdge(db, "R", n, f.loc.edge)
                       /\ Announce(n, f.loc.edge)
                       /\ UNCHANGED localEdges
                [] f.loc.edge.t < f.rem.edge.t ->
                       /\ db' = PutEdge(db, "L", n, f.rem.edge)
                       /\ localEdges' = Append(localEdges, [n |-> n, e |-> f.rem.edge,
                                                            sent |-> FALSE])
                       /\ UNCHANGED newEdges
                [] OTHER -> UNCHANGED <<db, newEdges, localEdges>>
           /\ Then(<<[f EXCEPT !.op = "list"]>>)
    /\ UNCHANGED <<link, rootRemote, subscriptions, localPts, toLocal, now, writes, stray>>

\* The children on L that are not deleted.
SyncList ==
    /\ Doing("list")
    /\ LET n == Head(work).n
       IN  Then(<<[Task("match", n) EXCEPT !.kids =
                     {[n |-> m, copy |-> Copy("L", m), hash |-> Hash("L", m)] :
                         m \in {m \in Kids(n) : Live("L", m)}}]>>)
    /\ UNCHANGED <<db, link, rootRemote, subscriptions, queues, now, writes, stray>>

\* The children on R that are not deleted: those on both sides that differ are
\* synchronized, the others are sent to the other side.
SyncMatch ==
    /\ Doing("match")
    /\ LET f      == Head(work)
           remote == {m \in Kids(f.n) : Live("R", m)}
           mine(k) == IF k.n \notin remote THEN <<Send("up", k.n, k.copy), Task("sub", k.n)>>
                      ELSE IF k.hash # Hash("R", k.n) THEN <<Task("visit", k.n)>> ELSE <<>>
           theirs(m) == <<Send("down", m, Copy("R", m)), Task("sub", m)>>
           only    == remote \ {k.n : k \in f.kids}
       IN  IF conn # "up" THEN Return
           ELSE Then(FlattenSeq([i \in 1 .. Cardinality(f.kids) |-> mine(SetToSeq(f.kids)[i])])
                     \o FlattenSeq([i \in 1 .. Cardinality(only) |-> theirs(SetToSeq(only)[i])]))
    /\ UNCHANGED <<db, link, rootRemote, subscriptions, queues, now, writes, stray>>

\* sendNodesRemote returns an error: so do the calls that made it, and a syncNode
\* that sends the whole node.
SendFails ==
    LET rest == SelectInSeq(work, LAMBDA f : f.op \notin {"up", "upEdge", "upKids", "subSent"})
    IN  work' = IF rest = 0 THEN <<>> ELSE SubSeq(work, rest, Len(work))

\* sendNodesRemote: SendNode sends the points, then the edge points; then the
\* children on L that are not deleted.
SendPoints ==
    /\ Doing("up")
    /\ LET f == Head(work)
       IN  IF conn # "up" THEN SendFails /\ UNCHANGED db
           ELSE /\ db' = PutPoint(db, "R", f.n, f.loc.pt)
                /\ Then(<<[f EXCEPT !.op = "upEdge"]>>)
    /\ UNCHANGED <<link, rootRemote, subscriptions, queues, now, writes, stray>>

SendEdge ==
    /\ Doing("upEdge")
    /\ LET f == Head(work)
       IN  IF conn # "up" THEN SendFails /\ UNCHANGED <<db, newEdges>>
           ELSE /\ db' = PutEdge(db, "R", f.n, f.loc.edge)
                /\ Announce(f.n, f.loc.edge)
                /\ Then(<<Task("upKids", f.n)>>)
    /\ UNCHANGED <<link, rootRemote, subscriptions, localPts, localEdges, toLocal, now,
                   writes, stray>>

SendKids ==
    /\ Doing("upKids")
    /\ LET kids == SetToSeq({m \in Kids(Head(work).n) : Live("L", m)})
       IN  Then([i \in DOMAIN kids |-> Send("up", kids[i], Copy("L", kids[i]))])
    /\ UNCHANGED <<db, link, rootRemote, subscriptions, queues, now, writes, stray>>

\* sendNodesLocal: SendNode on ncLocal, which does not hear itself.  The children
\* are read from L too, so sending them changes nothing.
SendLocal ==
    /\ Doing("down")
    /\ LET f == Head(work)
       IN  db' = PutEdge(PutPoint(db, "L", f.n, f.loc.pt), "L", f.n, f.loc.edge)
    /\ Return
    /\ UNCHANGED <<link, rootRemote, subscriptions, queues, now, writes, stray>>

\* Mutant: only the node itself.
SubscribeOne(n) ==
    IF conn = "none" THEN dud' = dud \cup {n} /\ UNCHANGED subs
    ELSE subs' = subs \cup {n} /\ UNCHANGED dud

\* subscribeRemoteNode, for n and what L has below it.  Without a connection it
\* fails and leaves an entry that stands for no subscription.
Subscribe(n) ==
    IF conn = "none" THEN dud' = dud \cup {n} /\ UNCHANGED subs
    ELSE /\ subs' = subs \cup {n} \cup {m \in Below(n) : Exists("L", m)}
         /\ UNCHANGED dud

SubscribeNode ==
    /\ Doing("sub") \/ Doing("subSent")
    /\ Subscribe(Head(work).n)
    /\ Return
    /\ UNCHANGED <<db, link, rootRemote, subUp, initialSub, queues, now, writes, stray>>

SubscribeInitial ==
    /\ Doing("init")
    /\ IF initialSub THEN UNCHANGED <<initialSub, subs, dud>>
       ELSE Subscribe(Device) /\ initialSub' = (conn # "none")
    /\ Return
    /\ UNCHANGED <<db, link, rootRemote, subUp, queues, now, writes, stray>>

syncNode == SyncLocal \/ SyncRemote \/ SyncPoints \/ SyncEdge \/ SyncList \/ SyncMatch
            \/ SendPoints \/ SendEdge \/ SendKids \/ SendLocal
            \/ SubscribeNode \/ SubscribeInitial

-----------------------------------------------------------------------------
(* Run *)

Idle == work = <<>>

\* connectTimer: EdgeConnect keeps trying.
Connect ==
    /\ Idle
    /\ timer
    /\ timer' = FALSE
    /\ conn' = IF disabled THEN conn ELSE "down"
    /\ UNCHANGED <<db, chConnected, connected, disabled, drops, rootRemote, subscriptions,
                   queues, work, now, writes, stray>>

\* syncTicker.  In a period there is time to handle what has come.
Tick ==
    /\ Idle
    /\ connected
    /\ localPts = <<>> /\ localEdges = <<>> /\ newEdges = <<>> /\ chConnected = <<>>
    /\ work' = <<Task("visit", Device)>>
    /\ UNCHANGED <<db, link, rootRemote, subscriptions, queues, now, writes, stray>>

Connected ==
    /\ Idle
    /\ chConnected # <<>>
    /\ chConnected' = Tail(chConnected)
    /\ connected' = Head(chConnected)
    /\ work' = IF Head(chConnected) THEN <<Task("visit", Device), Task("init", Device)>>
               ELSE <<>>
    /\ rootRemote' = (rootRemote /\ Head(chConnected))
    /\ UNCHANGED <<db, conn, timer, disabled, drops, subscriptions, queues, now, writes,
                   stray>>

\* Points on the bus of L go to R, if it can be reached.
LocalNodePoints ==
    /\ Idle
    /\ localPts # <<>>
    /\ LET p == Head(localPts)
       IN  db' = IF connected /\ conn = "up" THEN PutPoint(db, "R", p.n, p.t) ELSE db
    /\ localPts' = Tail(localPts)
    /\ UNCHANGED <<link, rootRemote, subscriptions, localEdges, newEdges, toLocal, work, now,
                   writes, stray>>

\* So do edge points, and those of a node that is not deleted are for chNewEdge
\* afterwards.
LocalEdgePoints ==
    /\ Idle
    /\ localEdges # <<>>
    /\ ~Head(localEdges).sent
    /\ LET p == Head(localEdges)
       IN  /\ IF connected /\ conn = "up"
              THEN db' = PutEdge(db, "R", p.n, p.e) /\ Announce(p.n, p.e)
              ELSE UNCHANGED <<db, newEdges>>
           /\ localEdges' = (IF p.e.dead THEN <<>> ELSE <<[p EXCEPT !.sent = TRUE]>>)
                            \o Tail(localEdges)
    /\ UNCHANGED <<link, rootRemote, subscriptions, localPts, toLocal, work, now, writes,
                   stray>>

NewEdgeLocal ==
    /\ Idle
    /\ localEdges # <<>>
    /\ Head(localEdges).sent
    /\ Subscribe(Head(localEdges).n)
    /\ localEdges' = Tail(localEdges)
    /\ UNCHANGED <<db, link, rootRemote, subUp, initialSub, localPts, newEdges, toLocal, work,
                   now, writes, stray>>

\* An edge that R has announced.  The device node's is told by its parent; when
\* the root of R is not known it is taken for a new one.
NewEdgeRemote ==
    /\ Idle
    /\ newEdges # <<>>
    /\ LET n == Head(newEdges)
           fetch == IF n = Device THEN ~rootRemote /\ ~stray ELSE ~Exists("L", n)
       IN  IF fetch /\ conn = "up"
           THEN IF n = Device
                THEN /\ stray' = TRUE
                     /\ db' = PutPoint(db, "L", n, db["R"].pt[n])
                     /\ work' = <<Task("sub", n)>>
                ELSE /\ work' = <<Send("down", n, Copy("R", n)), Task("sub", n)>>
                     /\ UNCHANGED <<db, stray>>
           ELSE UNCHANGED <<db, work, stray>>
    /\ newEdges' = Tail(newEdges)
    /\ UNCHANGED <<link, rootRemote, subscriptions, localPts, localEdges, toLocal, now,
                   writes>>

\* disconnect.  What a callback is busy with is not lost.
Disconnect ==
    /\ conn' = "none"
    /\ subs' = {} /\ dud' = {} /\ subUp' = FALSE /\ initialSub' = FALSE
    /\ rootRemote' = FALSE
    /\ toLocal' \in SUBSET toLocal
    /\ newEdges' = IF newEdges = <<>> THEN <<>> ELSE <<Head(newEdges)>>

\* newPoints: the URI, the token or disabled.
NewPoints ==
    /\ Idle
    /\ drops < MaxDrops
    /\ drops' = drops + 1
    /\ disabled' \in BOOLEAN
    /\ Disconnect
    /\ chConnected' = IF conn = "up" THEN Append(chConnected, FALSE) ELSE chConnected
    /\ timer' = TRUE
    /\ UNCHANGED <<db, connected, localPts, localEdges, work, now, writes, stray>>

\* newPoints: syncCountReset.
SyncCountReset ==
    /\ Idle
    /\ writes < MaxWrites
    /\ writes' = writes + 1
    /\ WriteCount
    /\ UNCHANGED <<link, rootRemote, subscriptions, localEdges, newEdges, toLocal, work, now,
                   stray>>

\* Stop, and a new client.  The old one's channels are read no more.
Restart ==
    /\ Idle
    /\ drops < MaxDrops
    /\ drops' = drops + 1
    /\ conn' = "none"
    /\ subs' = {} /\ dud' = {} /\ subUp' = FALSE /\ initialSub' = FALSE
    /\ rootRemote' = FALSE
    /\ toLocal' \in SUBSET toLocal
    /\ newEdges' = <<>> /\ localPts' = <<>> /\ localEdges' = <<>>
    /\ chConnected' = <<>>
    /\ connected' = FALSE
    /\ timer' = TRUE
    /\ UNCHANGED <<db, disabled, work, now, writes, stray>>

-----------------------------------------------------------------------------
(* The connection and the users *)

LinkUp ==
    /\ conn = "down"
    /\ conn' = "up"
    /\ chConnected' = Append(chConnected, TRUE)
    /\ UNCHANGED <<db, connected, timer, disabled, drops, rootRemote, subscriptions, queues,
                   work, now, writes, stray>>

LinkDown ==
    /\ conn = "up"
    /\ drops < MaxDrops
    /\ drops' = drops + 1
    /\ conn' = "down"
    /\ chConnected' = Append(chConnected, FALSE)
    /\ toLocal' \in SUBSET toLocal
    /\ UNCHANGED <<db, connected, timer, disabled, rootRemote, subscriptions, localPts,
                   localEdges, newEdges, work, now, writes, stray>>

\* The callback of a subscription on R sends to L what it has received, in the
\* order in which it came.
DeliverLocal ==
    \E p \in toLocal :
        /\ ~\E q \in toLocal : q.n = p.n /\ q.edge = p.edge /\ q.e.t < p.e.t
        /\ db' = IF p.edge THEN PutEdge(db, "L", p.n, p.e) ELSE PutPoint(db, "L", p.n, p.e.t)
        /\ toLocal' = toLocal \ {p}
        /\ UNCHANGED <<link, rootRemote, subscriptions, localPts, localEdges, newEdges, work,
                       now, writes, stray>>

\* What reaches the sync client of points and edge points that a user sends.
HeardPoint(s, n) ==
    /\ localPts' = IF s = "L" THEN Append(localPts, [n |-> n, t |-> now + 1]) ELSE localPts
HeardEdge(s, n, e) ==
    /\ localEdges' = IF s = "L" THEN Append(localEdges, [n |-> n, e |-> e, sent |-> FALSE])
                     ELSE localEdges
    /\ IF s = "R" THEN Announce(n, e) ELSE UNCHANGED newEdges
Received(s, n, edge, e) ==
    IF s = "R" /\ conn = "up" /\ n \in subs /\ (edge \/ n \notin dud) /\ (edge => n # Device)
    THEN {[n |-> n, edge |-> edge, e |-> e]} ELSE {}

User ==
    /\ writes < MaxWrites
    /\ writes' = writes + 1
    /\ now' = now + 1
    /\ UNCHANGED <<link, rootRemote, subscriptions, work, stray>>

UserWrites ==
    \E s \in {"L", "R"}, n \in Node :
        /\ <<s, n>> \in Written /\ Live(s, n)
        /\ db' = PutPoint(db, s, n, now + 1)
        /\ HeardPoint(s, n)
        /\ toLocal' = toLocal \cup Received(s, n, FALSE, [t |-> now + 1, dead |-> FALSE])
        /\ User
        /\ UNCHANGED <<localEdges, newEdges>>

UserCreates ==
    \E s \in {"L", "R"}, n \in Node :
        LET e == [t |-> now + 1, dead |-> FALSE]
        IN  /\ <<s, n>> \in Made /\ Live(s, Parent[n])
            /\ ~Exists("L", n) /\ ~Exists("R", n)
            /\ db' = PutEdge(PutPoint(db, s, n, now + 1), s, n, e)
            /\ HeardPoint(s, n)
            /\ HeardEdge(s, n, e)
            /\ toLocal' = toLocal \cup Received(s, n, FALSE, e) \cup Received(s, n, TRUE, e)
            /\ User

UserDeletes ==
    \E s \in {"L", "R"}, n \in Node :
        LET e == [t |-> now + 1, dead |-> TRUE]
        IN  /\ <<s, n>> \in Deleted /\ Live(s, n)
            /\ db' = PutEdge(db, s, n, e)
            /\ HeardEdge(s, n, e)
            /\ toLocal' = toLocal \cup Received(s, n, TRUE, e)
            /\ User
            /\ UNCHANGED localPts

Init ==
    /\ db = [s \in {"L", "R"} |->
               [pt |-> [n \in Node |-> IF s = "R" \/ n \notin Local THEN 0
                                       ELSE IF n = SyncNode THEN 2 ELSE 1],
                edge |-> [n \in Node |-> IF s = "R" \/ n \notin Local THEN NoEdge
                                         ELSE [t |-> 1, dead |-> FALSE]]]]
    /\ conn = "none" /\ chConnected = <<>> /\ connected = FALSE
    /\ timer = TRUE
    /\ disabled = FALSE
    /\ rootRemote = FALSE
    /\ subUp = FALSE /\ initialSub = FALSE /\ subs = {} /\ dud = {}
    /\ localPts = <<>> /\ localEdges = <<>> /\ newEdges = <<>> /\ toLocal = {}
    /\ work = <<>>
    /\ now = 1 /\ writes = 0 /\ drops = 0
    /\ stray = FALSE

\* The goroutine of Run.
Run == syncNode \/ Connect \/ Tick \/ Connected
       \/ LocalNodePoints \/ LocalEdgePoints \/ NewEdgeLocal \/ NewEdgeRemote

Next == Run \/ NewPoints \/ SyncCountReset \/ Restart
        \/ LinkUp \/ LinkDown \/ DeliverLocal
        \/ UserWrites \/ UserCreates \/ UserDeletes

Spec == Init /\ [][Next]_vars

\* The goroutine of Run and those of the subscriptions go on, and a connection
\* that is lost is made again.
FairSpec == Spec /\ WF_vars(Run) /\ WF_vars(DeliverLocal) /\ WF_vars(LinkUp)

-----------------------------------------------------------------------------
(* Properties *)

Same == Exists("R", Device) /\ Hash("L", Device) = Hash("R", Device)

\* A node that is deleted on one side at least, with something different below.
DeletedDiffer ==
    \E n \in Node \ {Device} :
        /\ \E s \in {"L", "R"} : db[s].edge[n].dead
        /\ Hash("L", n) # Hash("R", n)

\* sync.md, "Catch-up": whatever points were lost while the connection was, and
\* whatever was written on the two sides meanwhile, the trees are the same in
\* the end, and the count is incremented no more.
Converges ==
    <>[](~disabled /\ ~stray /\ ~DeletedDiffer) => <>[]Same

\* TestSyncDeleteUpstream: when the device node is deleted on R, it comes back.
DeviceRestored ==
    <>[]~disabled => <>[]Live("R", Device)

\* subscribeRemoteNode: when nothing is under way, what is written on R reaches
\* every node of L without waiting for the next comparison.
LiveUpdates ==
    Idle /\ initialSub /\ localEdges = <<>> =>
        \A n \in Node : Exists("L", n) => n \in subs

=============================================================================
