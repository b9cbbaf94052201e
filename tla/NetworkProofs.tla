---------------------------- MODULE NetworkProofs ----------------------------
(***************************************************************************)
(* The NetworkManager client leaves alone what it does not manage, and     *)
(* does not bring back what was deleted, for every set of connections and  *)
(* every bound on what users and NetworkManager do.                        *)
(*                                                                         *)
(* Settings, points of devices and access points are whatever they are:    *)
(* the invariant has the shapes of the records and, for connections, who   *)
(* may have one managed.                                                   *)
(***************************************************************************)
EXTENDS Network, SequenceTheorems, FiniteSetTheorems, TLAPS

-----------------------------------------------------------------------------
(* Records with some fields *)

\* f is a function on D.
IsFcn(f, D) == f = [k \in D |-> f[k]]

ConnFields == {"st", "managed", "set", "last", "error"}
NodeFields == {"disabled", "scan", "host", "wifi", "net"}

\* A connection's node, and the client's, in the tree and in the client's copy.
IsConn(r) == IsFcn(r, ConnFields) /\ r.managed \in BOOLEAN
IsNode(r) == IsFcn(r, NodeFields) /\ r.disabled \in BOOLEAN

\* A message for the client: what it may hold of a connection and of the node.
IsMsg(m) ==
    /\ IsFcn(m, {"to", "id", "f"})
    /\ m.to \in {"node", "conn", "dev", "edge"}
    /\ m.to = "conn" =>
          /\ m.id \in Conn
          /\ IsFcn(m.f, DOMAIN m.f)
          /\ DOMAIN m.f \subseteq ConnFields \ {"st"}
          /\ "managed" \in DOMAIN m.f => m.f.managed \in BOOLEAN
    /\ m.to = "node" =>
          /\ IsFcn(m.f, DOMAIN m.f)
          /\ DOMAIN m.f \subseteq NodeFields
          /\ "disabled" \in DOMAIN m.f => m.f.disabled \in BOOLEAN

\* A merge keeps the shape.
LEMMA MergeConn ==
    ASSUME NEW f, NEW r, IsConn(r), IsFcn(f, DOMAIN f), DOMAIN f \subseteq ConnFields,
           "managed" \in DOMAIN f => f.managed \in BOOLEAN
    PROVE  /\ IsConn(Merge(f, r))
           /\ \A k \in ConnFields : Merge(f, r)[k] = IF k \in DOMAIN f THEN f[k] ELSE r[k]
<1>1. DOMAIN r = ConnFields
  BY DEF IsConn, IsFcn
<1>2. DOMAIN f \cup DOMAIN r = ConnFields
  BY <1>1
<1>3. Merge(f, r) = [k \in ConnFields |-> IF k \in DOMAIN f THEN f[k] ELSE r[k]]
  BY <1>2 DEF Merge
<1>4. \A k \in ConnFields : Merge(f, r)[k] = IF k \in DOMAIN f THEN f[k] ELSE r[k]
  BY <1>3
<1>5. "managed" \in ConnFields
  BY DEF ConnFields
<1>6. Merge(f, r).managed = IF "managed" \in DOMAIN f THEN f.managed ELSE r.managed
  BY <1>4, <1>5
<1>7. Merge(f, r).managed \in BOOLEAN
  BY <1>6, Zenon DEF IsConn
<1>8. IsFcn(Merge(f, r), ConnFields)
  BY <1>3 DEF IsFcn
<1> QED BY <1>4, <1>7, <1>8 DEF IsConn

\* A node after points.
LEMMA MergeNode ==
    ASSUME NEW f, NEW r, IsNode(r), IsFcn(f, DOMAIN f), DOMAIN f \subseteq NodeFields,
           "disabled" \in DOMAIN f => f.disabled \in BOOLEAN
    PROVE  IsNode(Merge(f, r))
<1>1. DOMAIN r = NodeFields
  BY DEF IsNode, IsFcn
<1>2. DOMAIN f \cup DOMAIN r = NodeFields
  BY <1>1
<1>3. Merge(f, r) = [k \in NodeFields |-> IF k \in DOMAIN f THEN f[k] ELSE r[k]]
  BY <1>2 DEF Merge
<1>4. "disabled" \in NodeFields
  BY DEF NodeFields
<1>6. Merge(f, r).disabled = IF "disabled" \in DOMAIN f THEN f.disabled ELSE r.disabled
  BY <1>3, <1>4
<1>7. Merge(f, r).disabled \in BOOLEAN
  BY <1>6, Zenon DEF IsNode
<1>8. IsFcn(Merge(f, r), NodeFields)
  BY <1>3 DEF IsFcn
<1> QED BY <1>7, <1>8 DEF IsNode

-----------------------------------------------------------------------------
(* The invariant *)

\* The tree or the client's copy of it: connections that are managed are among E.
Tree(t, E) ==
    /\ IsFcn(t, {"node", "conns", "dev", "ghost"})
    /\ IsNode(t.node)
    /\ IsFcn(t.conns, Conn)
    /\ \A c \in Conn : IsConn(t.conns[c]) /\ (t.conns[c].managed => c \in E)

\* What the store has announced: only of connections in E that they are managed.
Queue(q, E) ==
    /\ q \in Seq(ToSet(q))
    /\ \A m \in ToSet(q) :
          /\ IsMsg(m)
          /\ m.to = "conn" /\ "managed" \in DOMAIN m.f => m.id \in E

\* NetworkManager's connections.
IsNMConn(r) == IsFcn(r, {"there", "dbus", "last", "active"}) /\ r.there \in BOOLEAN

IsNMConns(g) == IsFcn(g, Conn) /\ \A c \in Conn : IsNMConn(g[c])

NMShape(n) ==
    /\ IsFcn(n, {"up", "conns", "dev", "aps", "host", "wifi", "net"})
    /\ IsNMConns(n.conns)

RunShape(r) ==
    /\ IsFcn(r, {"pc", "todo", "found", "doSync", "timer", "sub", "sig"})
    /\ r.todo \subseteq Conn
    /\ IsNMConns(r.found)

\* The client knows of every managed connection that was deleted, unless it is
\* disabled or will be started anew.
Knows(t, dis, q, g) ==
    \A c \in Conn :
        ~dis /\ t.conns[c].st = "deleted" /\ t.conns[c].managed /\ Edge \notin ToSet(q)
            => c \in g

Inv ==
    /\ Tree(tree, ever) /\ Tree(cfg, ever)
    /\ NMShape(nm) /\ RunShape(run)
    /\ Queue(queue, ever)
    /\ gone \subseteq ever
    /\ events \in Int
    /\ Knows(tree, cfg.node.disabled, queue, gone)

\* What Untouched says of a step.
Spares ==
    events' = events =>
        \A c \in Conn :
            /\ c \notin ever => nm'.conns[c] = nm.conns[c]
            /\ tree.conns[c].st = "deleted" /\ tree.conns[c].managed /\ Edge \notin ToSet(queue) =>
                  tree'.conns[c].st = "deleted"

-----------------------------------------------------------------------------
(* Queues *)

\* The message that a child comes or goes.
LEMMA EdgeMsg == IsMsg(Edge) /\ Edge.to = "edge"
BY DEF Edge, IsMsg, IsFcn

\* A sequence is a function, and a function on 1 .. n a sequence.
LEMMA SeqFcn ==
    ASSUME NEW T, NEW r \in Seq(T)
    PROVE  r = [i \in DOMAIN r |-> r[i]]
BY LenProperties

\* A function on 1 .. n is a sequence.
LEMMA FcnSeq ==
    ASSUME NEW T, NEW n \in Nat, NEW r \in [1 .. n -> T]
    PROVE  r \in Seq(T)
BY SeqDef

\* One more message.
LEMMA QueueAppend ==
    ASSUME NEW q, NEW E, Queue(q, E), NEW m, IsMsg(m),
           m.to = "conn" /\ "managed" \in DOMAIN m.f => m.id \in E
    PROVE  Queue(Append(q, m), E) /\ ToSet(Append(q, m)) = ToSet(q) \cup {m}
<1> DEFINE r == Append(q, m)
           T == ToSet(q) \cup {m}
<1>1. q \in Seq(T)
  BY DEF Queue
<1>2. r \in Seq(T)
  BY <1>1
<1>3. /\ DOMAIN r = 1 .. Len(q) + 1 /\ DOMAIN q = 1 .. Len(q) /\ Len(q) \in Nat
      /\ \A i \in 1 .. Len(q) : r[i] = q[i]
      /\ r[Len(q) + 1] = m
  BY <1>1
<1>4. ToSet(r) = T
  <2>1. \A i \in DOMAIN r : r[i] \in T
    BY <1>2
  <2>2. \A x \in T : \E i \in DOMAIN r : r[i] = x
    <3>1. SUFFICES ASSUME NEW x \in T PROVE \E i \in DOMAIN r : r[i] = x
      OBVIOUS
    <3>2. CASE x = m
      BY <1>3, <3>2
    <3>3. CASE x \in ToSet(q)
      <4>1. PICK i \in DOMAIN q : q[i] = x
        BY <3>3 DEF ToSet
      <4> QED BY <1>3, <4>1
    <3> QED BY <3>2, <3>3
  <2> QED BY <2>1, <2>2 DEF ToSet
<1> QED BY <1>2, <1>4 DEF Queue

\* The first message is taken.
LEMMA QueueTail ==
    ASSUME NEW q, NEW E, Queue(q, E), q # <<>>
    PROVE  /\ Queue(Tail(q), E)
           /\ ToSet(q) = {Head(q)} \cup ToSet(Tail(q))
<1> DEFINE r == Tail(q)
           T == ToSet(q)
<1>1. q \in Seq(T)
  BY DEF Queue
<1>3. /\ DOMAIN q = 1 .. Len(q) /\ Len(q) \in Nat \ {0} /\ DOMAIN r = 1 .. Len(q) - 1
      /\ \A i \in DOMAIN r : r[i] = q[i + 1]
      /\ Head(q) = q[1]
  BY <1>1
<1>4. ToSet(r) \subseteq T
  <2>1. \A i \in DOMAIN r : r[i] \in T
    BY <1>1, <1>3
  <2> QED BY <2>1 DEF ToSet
<1>5. T = {Head(q)} \cup ToSet(r)
  <2>1. Head(q) \in T
    BY <1>1, <1>3
  <2>2. ASSUME NEW x \in T, x # Head(q) PROVE x \in ToSet(r)
    <3>1. PICK i \in DOMAIN q : q[i] = x
      BY DEF ToSet
    <3>2. i - 1 \in DOMAIN r /\ r[i - 1] = x
      BY <1>3, <2>2, <3>1
    <3> QED BY <3>2 DEF ToSet
  <2> QED BY <1>4, <2>1, <2>2
<1>6. r \in Seq(ToSet(r))
  <2>1. \A i \in 1 .. Len(q) - 1 : r[i] \in ToSet(r)
    BY <1>3 DEF ToSet
  <2>2. r \in Seq(T)
    BY <1>1
  <2>3. Len(q) - 1 \in Nat
    BY <1>3
  <2> HIDE DEF r
  <2>4. r = [i \in 1 .. Len(q) - 1 |-> r[i]]
    BY <1>3, <2>2, SeqFcn
  <2>5. r \in [1 .. Len(q) - 1 -> ToSet(r)]
    BY <2>1, <2>4
  <2> QED BY <2>3, <2>5, FcnSeq
<1> QED BY <1>4, <1>5, <1>6 DEF Queue

\* Some more messages.
LEMMA QueueConcat ==
    ASSUME NEW q, NEW E, Queue(q, E), NEW p, Queue(p, E)
    PROVE  Queue(q \o p, E) /\ ToSet(q \o p) = ToSet(q) \cup ToSet(p)
<1> DEFINE r == q \o p
           T == ToSet(q) \cup ToSet(p)
<1>1. q \in Seq(T) /\ p \in Seq(T)
  BY DEF Queue
<1>2. r \in Seq(T)
  BY <1>1
<1>3. /\ DOMAIN r = 1 .. Len(q) + Len(p) /\ DOMAIN q = 1 .. Len(q) /\ DOMAIN p = 1 .. Len(p)
      /\ Len(q) \in Nat /\ Len(p) \in Nat
      /\ \A i \in 1 .. Len(q) : r[i] = q[i]
      /\ \A i \in 1 .. Len(p) : r[Len(q) + i] = p[i]
  BY <1>1
<1>4. ToSet(r) = T
  <2>1. \A i \in DOMAIN r : r[i] \in T
    BY <1>2
  <2>2. ASSUME NEW x \in T PROVE \E i \in DOMAIN r : r[i] = x
    <3>2. CASE x \in ToSet(p)
      <4>1. PICK i \in DOMAIN p : p[i] = x
        BY <3>2 DEF ToSet
      <4>2. Len(q) + i \in DOMAIN r /\ r[Len(q) + i] = x
        BY <1>3, <4>1
      <4> QED BY <4>2
    <3>3. CASE x \in ToSet(q)
      <4>1. PICK i \in DOMAIN q : q[i] = x
        BY <3>3 DEF ToSet
      <4> QED BY <1>3, <4>1
    <3> QED BY <3>2, <3>3
  <2> QED BY <2>1, <2>2 DEF ToSet
<1> QED BY <1>2, <1>4 DEF Queue

\* Nothing, or a restart for each of some children.
LEMMA QueueEdges ==
    ASSUME NEW E, NEW n \in Nat
    PROVE  /\ Queue(<<>>, E) /\ ToSet(<<>>) = {}
           /\ Queue([i \in 1 .. n |-> Edge], E)
<1>1. ToSet(<<>>) = {}
  BY DEF ToSet
<1> DEFINE r == [i \in 1 .. n |-> Edge]
<1>2. r \in [1 .. n -> {Edge}] /\ DOMAIN r = 1 .. n
  BY DEF Edge
<1>3. ToSet(r) \subseteq {Edge}
  BY <1>2 DEF ToSet
<1>4. r \in [1 .. n -> ToSet(r)]
  BY <1>2 DEF ToSet
<1>5. r \in Seq(ToSet(r))
  BY <1>4
<1> HIDE DEF r
<1>6. Edge.to # "conn"
  BY EdgeMsg
<1>7. Queue(r, E)
  BY <1>3, <1>5, <1>6, EdgeMsg DEF Queue
<1> QED BY <1>1, <1>7 DEF Queue, r

\* One message.
LEMMA QueueOne ==
    ASSUME NEW E, NEW m, IsMsg(m), m.to # "conn"
    PROVE  Queue(<<m>>, E)
<1>1. <<m>> = Append(<<>>, m)
  OBVIOUS
<1>2. Queue(<<>>, E)
  BY QueueEdges
<1>3. Queue(Append(<<>>, m), E)
  BY <1>2, QueueAppend
<1> QED BY <1>1, <1>3

\* More connections may be managed.
LEMMA MoreManaged ==
    ASSUME NEW E, NEW F, E \subseteq F
    PROVE  /\ \A t : Tree(t, E) => Tree(t, F)
           /\ \A q : Queue(q, E) => Queue(q, F)
BY DEF Tree, Queue

-----------------------------------------------------------------------------
(* Shapes *)

\* Changes of a field keep the fields.
LEMMA RunShapes ==
    ASSUME NEW r, RunShape(r), NEW n, NEW x, NEW S \in SUBSET Conn
    PROVE  /\ RunShape(QueueSync(r)) /\ RunShape(After(r, n)) /\ RunShape(Noted(r, x))
           /\ RunShape([r EXCEPT !.pc = x]) /\ RunShape([r EXCEPT !.doSync = x])
           /\ RunShape([r EXCEPT !.timer = x]) /\ RunShape([r EXCEPT !.sub = x])
           /\ RunShape([r EXCEPT !.sig = x])
           /\ RunShape([r EXCEPT !.todo = S])
           /\ \A c : RunShape([r EXCEPT !.todo = @ \ {c}])
<1>1. /\ RunShape([r EXCEPT !.pc = x]) /\ RunShape([r EXCEPT !.doSync = x])
      /\ RunShape([r EXCEPT !.timer = x]) /\ RunShape([r EXCEPT !.sub = x])
      /\ RunShape([r EXCEPT !.sig = x])
      /\ RunShape([r EXCEPT !.todo = S])
      /\ \A c : RunShape([r EXCEPT !.todo = @ \ {c}])
  BY DEF RunShape, IsFcn
<1>2. RunShape(QueueSync(r))
  BY DEF RunShape, IsFcn, QueueSync
<1>3. RunShape(After(r, n))
  BY DEF RunShape, IsFcn, After
<1>4. RunShape(Noted(r, x))
  BY DEF RunShape, IsFcn, Noted
<1> QED BY <1>1, <1>2, <1>3, <1>4

\* A tree whose other parts have changed.
LEMMA SameConns ==
    ASSUME NEW t, NEW E, Tree(t, E), NEW u, IsFcn(u, {"node", "conns", "dev", "ghost"}),
           u.conns = t.conns, IsNode(u.node)
    PROVE  Tree(u, E)
BY DEF Tree

\* A connection's record has changed.
LEMMA OneConn ==
    ASSUME NEW t, NEW E, Tree(t, E), NEW c \in Conn, NEW r, IsConn(r), r.managed => c \in E
    PROVE  /\ Tree([t EXCEPT !.conns[c] = r], E)
           /\ [t EXCEPT !.conns[c] = r].node = t.node
           /\ [t EXCEPT !.conns[c] = r].conns = [t.conns EXCEPT ![c] = r]
           /\ \A d \in Conn : [t EXCEPT !.conns[c] = r].conns[d] = IF d = c THEN r ELSE t.conns[d]
<1> DEFINE u == [t EXCEPT !.conns[c] = r]
<1>1. IsFcn(t, {"node", "conns", "dev", "ghost"}) /\ IsFcn(t.conns, Conn)
  BY DEF Tree
<1>2. u.conns = [t.conns EXCEPT ![c] = r] /\ u.node = t.node
      /\ IsFcn(u, {"node", "conns", "dev", "ghost"})
  BY <1>1 DEF IsFcn
<1>3. \A d \in Conn : u.conns[d] = IF d = c THEN r ELSE t.conns[d]
  BY <1>1, <1>2 DEF IsFcn
<1>4. IsFcn(u.conns, Conn)
  BY <1>1, <1>2 DEF IsFcn
<1> HIDE DEF u
<1>5. Tree(u, E)
  BY <1>2, <1>3, <1>4 DEF Tree
<1> QED BY <1>2, <1>3, <1>5 DEF u

\* All connections have.
LEMMA AllConns ==
    ASSUME NEW t, NEW E, Tree(t, E), NEW g,
           IsFcn(g, Conn), \A c \in Conn : IsConn(g[c]) /\ (g[c].managed => c \in E)
    PROVE  Tree([t EXCEPT !.conns = g], E) /\ [t EXCEPT !.conns = g].conns = g
BY DEF Tree, IsFcn

\* Steps that change nothing but Run.
LEMMA RunOnly ==
    ASSUME Inv, RunShape(run'), UNCHANGED <<nm, tree, cfg, gone, queue, events, ever>>
    PROVE  Inv' /\ Spares
BY DEF Inv, Spares, Tree, NMShape, RunShape, Queue, Knows

\* NoConn is a connection's record.
LEMMA NoConnShape == IsConn(NoConn) /\ ~NoConn.managed /\ NoConn.st = "none"
BY DEF NoConn, IsConn, IsFcn, ConnFields

\* NoNMConn is a connection of NetworkManager.
LEMMA NoNMConnShape == IsNMConn(NoNMConn) /\ NoNMConn.there = FALSE
BY DEF NoNMConn, IsNMConn, IsFcn

\* Some of NetworkManager's connections have changed.
LEMMA NMConns ==
    ASSUME NEW n, NMShape(n), NEW g, IsNMConns(g)
    PROVE  NMShape([n EXCEPT !.conns = g]) /\ [n EXCEPT !.conns = g].conns = g
BY DEF NMShape, IsFcn

-----------------------------------------------------------------------------
(* The steps *)

\* A new client knows of what is deleted.
LEMMA StartStep ==
    ASSUME Inv, StartClient
    PROVE  Inv' /\ Spares
<1>1. Tree(cfg', ever') /\ cfg'.node = tree.node
  <2> DEFINE g == [c \in Conn |-> IF tree.conns[c].st = "live" THEN tree.conns[c] ELSE NoConn]
  <2>1. cfg' = Loaded /\ ever' = ever
    BY DEF StartClient
  <2>2. IsFcn(Loaded, {"node", "conns", "dev", "ghost"}) /\ Loaded.node = tree.node
        /\ Loaded.conns = g
    BY DEF Loaded, IsFcn
  <2>3. IsFcn(g, Conn)
    BY DEF IsFcn
  <2>4. \A c \in Conn : IsConn(g[c]) /\ (g[c].managed => c \in ever)
    BY NoConnShape DEF Inv, Tree
  <2> QED BY <2>1, <2>2, <2>3, <2>4 DEF Inv, Tree
<1>2. RunShape(run')
  <2>1. IsNMConns([c \in Conn |-> NoNMConn])
    BY NoNMConnShape DEF IsNMConns, IsFcn
  <2> QED BY <2>1 DEF StartClient, Idle, RunShape, IsFcn
<1>3. Queue(queue', ever') /\ queue' = <<>>
  BY QueueEdges DEF StartClient
<1>4. gone' \subseteq ever'
  BY DEF StartClient, DeletedConns, Inv, Tree
<1>5. Knows(tree', cfg'.node.disabled, queue', gone')
  BY <1>1 DEF StartClient, DeletedConns, Knows
<1> QED BY <1>1, <1>2, <1>3, <1>4, <1>5 DEF Inv, Spares, StartClient

\* Points of the node, of a connection and of the device are merged.
LEMMA MergedTree ==
    ASSUME Inv, NEW m \in ToSet(queue), m.to # "edge"
    PROVE  Tree(Merged(m), ever)
<1>1. Tree(cfg, ever) /\ IsMsg(m)
      /\ (m.to = "conn" /\ "managed" \in DOMAIN m.f => m.id \in ever)
  BY DEF Inv, Queue
<1>2. CASE m.to = "node"
  <2>1. Merged(m) = [cfg EXCEPT !.node = Merge(m.f, cfg.node)]
    BY <1>2, Zenon DEF Merged
  <2>2. IsNode(Merge(m.f, cfg.node))
    BY <1>1, <1>2, MergeNode DEF IsMsg, Tree
  <2> QED BY <1>1, <2>1, <2>2, SameConns DEF Tree, IsFcn
<1>3. CASE m.to = "conn"
  <2>1. Merged(m) = IF cfg.conns[m.id].st = "live"
                    THEN [cfg EXCEPT !.conns[m.id] = Merge(m.f, cfg.conns[m.id])] ELSE cfg
    BY <1>3, Zenon DEF Merged
  <2> DEFINE r == Merge(m.f, cfg.conns[m.id])
  <2>2. m.id \in Conn /\ IsConn(cfg.conns[m.id]) /\ (cfg.conns[m.id].managed => m.id \in ever)
    BY <1>1, <1>3 DEF IsMsg, Tree
  <2>3. IsConn(r) /\ r.managed = IF "managed" \in DOMAIN m.f THEN m.f.managed
                                 ELSE cfg.conns[m.id].managed
    BY <1>1, <1>3, <2>2, MergeConn DEF IsMsg, ConnFields
  <2>4. r.managed => m.id \in ever
    BY <1>1, <1>3, <2>2, <2>3
  <2> HIDE DEF r
  <2>5. Tree([cfg EXCEPT !.conns[m.id] = r], ever)
    BY <1>1, <2>2, <2>3, <2>4, OneConn
  <2> QED BY <1>1, <2>1, <2>5 DEF r
<1>4. CASE m.to = "dev"
  <2>1. Merged(m) = IF cfg.dev.st = "live"
                    THEN [cfg EXCEPT !.dev.info = Decode(scope.kind, cfg.dev.info, m.f)] ELSE cfg
    BY <1>4, Zenon DEF Merged
  <2> QED BY <1>1, <2>1, SameConns DEF Tree, IsFcn
<1> QED BY <1>1, <1>2, <1>3, <1>4 DEF IsMsg

\* pointsCh
LEMMA ReceiveStep ==
    ASSUME Inv, Receive
    PROVE  Inv' /\ Spares
<1> DEFINE m == Head(queue)
           was == cfg.node.disabled
           now == cfg'.node.disabled
<1>1. queue # <<>> /\ m.to # "edge" /\ queue' = Tail(queue)
      /\ UNCHANGED <<nm, tree, ever, events>>
  BY DEF Receive
<1>2. Queue(queue', ever') /\ ToSet(queue) = {m} \cup ToSet(queue')
  BY <1>1, QueueTail DEF Inv
<1>3. Edge \in ToSet(queue) <=> Edge \in ToSet(queue')
  BY <1>1, <1>2, EdgeMsg
<1>4. /\ cfg' = Merged(m)
      /\ gone' = IF was /\ ~now THEN DeletedConns ELSE gone
      /\ run' = After(CASE now /\ ~was -> [run EXCEPT !.sub = FALSE, !.sig = FALSE]
                       [] now /\ was -> run
                       [] ~now /\ was -> [run EXCEPT !.doSync = TRUE, !.sub = TRUE]
                       [] ~now /\ ~was -> QueueSync(run), cfg'.node)
  BY DEF Receive
<1>5. Tree(cfg', ever')
  BY <1>1, <1>2, <1>4, MergedTree
<1>6. was \in BOOLEAN /\ now \in BOOLEAN
  BY <1>5 DEF Inv, Tree, IsNode
<1>7. RunShape(run')
  <2>1. RunShape(run) /\ RunShape(QueueSync(run))
    BY RunShapes DEF Inv
  <2>2. RunShape([run EXCEPT !.sub = FALSE, !.sig = FALSE])
        /\ RunShape([run EXCEPT !.doSync = TRUE, !.sub = TRUE])
    BY <2>1 DEF RunShape, IsFcn
  <2>3. PICK r : RunShape(r) /\ run' = After(r, cfg'.node)
    <3> HIDE DEF was, now
    <3>1. CASE now /\ ~was
      BY <1>4, <2>2, <3>1, Zenon
    <3>2. CASE now /\ was
      BY <1>4, <2>1, <3>2, Zenon
    <3>3. CASE ~now /\ was
      BY <1>4, <2>2, <3>3, Zenon
    <3>4. CASE ~now /\ ~was
      BY <1>4, <2>1, <3>4, Zenon
    <3> QED BY <1>6, <3>1, <3>2, <3>3, <3>4
  <2> QED BY <2>3, RunShapes
<1>8. gone' \subseteq ever'
  BY <1>1, <1>4 DEF DeletedConns, Inv, Tree
<1>9. Knows(tree', now, queue', gone')
  <2>1. CASE was /\ ~now
    BY <1>1, <1>4, <2>1 DEF DeletedConns, Knows
  <2>2. CASE ~(was /\ ~now)
    BY <1>1, <1>3, <1>4, <1>6, <2>2 DEF Inv, Knows
  <2> QED BY <2>1, <2>2
<1> QED BY <1>1, <1>2, <1>5, <1>7, <1>8, <1>9 DEF Inv, Spares

\* Restart and Respawn; the ticks and the signal
LEMMA SelectStep ==
    ASSUME Inv, Restart \/ Respawn \/ SyncTick \/ Signal \/ DelayOver
    PROVE  Inv' /\ Spares
<1>0. RunShape(run)
  BY DEF Inv
<1>1. CASE StartClient
  BY <1>1, StartStep
<1>2. CASE run' = [run EXCEPT !.pc = "panic"] /\ UNCHANGED <<nm, tree, cfg, gone, queue, events, ever>>
  BY <1>0, <1>2, RunShapes, RunOnly
<1>3. CASE SyncTick
  BY <1>0, <1>3, RunShapes, RunOnly DEF SyncTick
<1>4. CASE Signal
  <2>1. RunShape([run EXCEPT !.sig = FALSE])
    BY <1>0, RunShapes
  <2>2. RunShape(QueueSync([run EXCEPT !.sig = FALSE]))
    BY <2>1, RunShapes
  <2>3. RunShape(run')
    BY <1>4, <2>2, RunShapes DEF Signal
  <2> QED BY <1>4, <2>3, RunOnly DEF Signal
<1>5. CASE DelayOver
  BY <1>0, <1>5, RunOnly DEF DelayOver, RunShape, IsFcn
<1> QED BY <1>1, <1>2, <1>3, <1>4, <1>5 DEF Restart, Respawn

\* Die: Run ends with an error.
LEMMA DieStep ==
    ASSUME Inv, Die
    PROVE  Inv' /\ Spares
<1>1. RunShape(run')
  BY DEF Die, Inv, RunShape, IsFcn
<1> QED BY <1>1, RunOnly DEF Die

-----------------------------------------------------------------------------
(* SyncConnections *)

\* A connection that is detected is not managed.
LEMMA DetectedShape ==
    ASSUME NEW c
    PROVE  IsConn(Detected(c)) /\ Detected(c).managed = FALSE
BY DEF Detected, NoConn, IsConn, IsFcn, ConnFields

\* The list of connections
LEMMA SyncListStep ==
    ASSUME Inv, SyncList
    PROVE  Inv' /\ Spares
<1>0. cfg.node.disabled \in BOOLEAN /\ RunShape(run)
  BY DEF Inv, Tree, IsNode
<1>1. CASE cfg.node.disabled
  <2>1. run' = [run EXCEPT !.pc = "panic"] /\ UNCHANGED <<nm, tree, cfg, gone, queue, events, ever>>
    BY <1>1, Zenon DEF SyncList
  <2> QED BY <1>0, <2>1, RunShapes, RunOnly
<1>2. CASE ~cfg.node.disabled /\ ~nm.up
  <2>1. Die
    BY <1>2, Zenon DEF SyncList
  <2> QED BY <2>1, DieStep
<1>3. CASE ~cfg.node.disabled /\ nm.up
  <2> DEFINE new == Unknown \ gone
             old == Unknown \cap gone
             found == [c \in Conn |-> IF cfg.conns[c].st = "live" THEN nm.conns[c] ELSE NoNMConn]
             nmc == [c \in Conn |-> IF c \in old THEN NoNMConn ELSE nm.conns[c]]
             trc == [c \in Conn |-> IF c \in new THEN Detected(c) ELSE tree.conns[c]]
             todo == {c \in Conn : cfg.conns[c].st = "live"}
             r == [run EXCEPT !.pc = "conns", !.doSync = FALSE, !.todo = todo, !.found = found]
  <2>1. /\ run' = Noted(r, old # {})
        /\ nm' = [nm EXCEPT !.conns = nmc]
        /\ tree' = [tree EXCEPT !.conns = trc]
        /\ queue' = queue \o [i \in 1 .. Cardinality(new) |-> Edge]
        /\ UNCHANGED <<scope, cfg, gone, events, ever, raced>>
    BY <1>3, Zenon DEF SyncList
  <2>2. new \subseteq Conn /\ old \subseteq ever
    BY DEF Unknown, Inv
  <2>3. Cardinality(new) \in Nat
    BY <2>2, ConnAssumption, FS_Subset, FS_CardinalityType
  <2>4. IsNMConns(found) /\ IsNMConns(nmc)
    BY NoNMConnShape DEF IsNMConns, IsFcn, Inv, NMShape
  <2>5. RunShape(r)
    BY <1>0, <2>4 DEF RunShape, IsFcn
  <2>6. NMShape(nm') /\ nm'.conns = nmc
    BY <2>1, <2>4, NMConns DEF Inv
  <2>7. IsFcn(trc, Conn) /\ \A c \in Conn : IsConn(trc[c]) /\ (trc[c].managed => c \in ever)
    BY DetectedShape DEF Inv, Tree, IsFcn
  <2>8. Tree(tree', ever') /\ tree'.conns = trc
    <3> HIDE DEF trc
    <3> QED BY <2>1, <2>7, AllConns DEF Inv
  <2>9. Queue(queue', ever') /\ ToSet(queue) \subseteq ToSet(queue')
    <3> HIDE DEF new
    <3>1. Queue([i \in 1 .. Cardinality(new) |-> Edge], ever)
      BY <2>3, QueueEdges
    <3> DEFINE p == [i \in 1 .. Cardinality(new) |-> Edge]
    <3> HIDE DEF p
    <3>2. Queue(queue \o p, ever) /\ ToSet(queue) \subseteq ToSet(queue \o p)
      BY <3>1, QueueConcat DEF Inv, p
    <3> QED BY <2>1, <3>2 DEF p
  <2>10. RunShape(run')
    <3> HIDE DEF r
    <3> QED BY <2>1, <2>5, RunShapes
  <2>11. ASSUME NEW c \in Conn, tree.conns[c].st = "deleted", tree.conns[c].managed,
                Edge \notin ToSet(queue)
         PROVE  c \in gone /\ tree'.conns[c] = tree.conns[c]
    BY <1>3, <2>8, <2>11 DEF Inv, Knows
  <2>12. Knows(tree', cfg'.node.disabled, queue', gone')
    <3>1. SUFFICES ASSUME NEW c \in Conn, tree'.conns[c].st = "deleted",
                          tree'.conns[c].managed, Edge \notin ToSet(queue')
                   PROVE  c \in gone
      BY <2>1 DEF Knows
    <3>2. c \notin new
      BY <2>8, <3>1, DetectedShape
    <3>3. tree'.conns[c] = tree.conns[c]
      BY <2>8, <3>2
    <3> QED BY <1>3, <2>9, <3>1, <3>3 DEF Inv, Knows
  <2>13. Spares
    <3>1. ASSUME NEW c \in Conn, c \notin ever PROVE nm'.conns[c] = nm.conns[c]
      BY <2>2, <2>6, <3>1
    <3>2. ASSUME NEW c \in Conn, tree.conns[c].st = "deleted", tree.conns[c].managed,
                 Edge \notin ToSet(queue)
          PROVE  tree'.conns[c].st = "deleted"
      BY <2>11, <3>2
    <3> QED BY <3>1, <3>2 DEF Spares
  <2> QED BY <2>1, <2>6, <2>8, <2>9, <2>10, <2>12, <2>13 DEF Inv
<1> QED BY <1>0, <1>1, <1>2, <1>3

\* A step that leaves it to the queue to tell what was deleted.
LEMMA ConnKeeps ==
    ASSUME Inv, Tree(tree', ever), Tree(cfg', ever), cfg'.node.disabled = cfg.node.disabled,
           NMShape(nm'), RunShape(run'), Queue(queue', ever), ToSet(queue) \subseteq ToSet(queue'),
           UNCHANGED <<gone, ever>>, events' \in Int,
           \A d \in Conn : d \notin ever => nm'.conns[d] = nm.conns[d],
           \A d \in Conn :
               /\ tree'.conns[d].managed = tree.conns[d].managed
               /\ \/ tree'.conns[d].st = tree.conns[d].st
                  \/ tree.conns[d].st # "deleted" /\ Edge \in ToSet(queue')
    PROVE  Inv' /\ Spares
<1>1. Knows(tree', cfg'.node.disabled, queue', gone')
  BY DEF Inv, Knows
<1>2. Spares
  BY DEF Spares
<1> QED BY <1>1, <1>2 DEF Inv

\* A record whose fields other than st and managed are set.
LEMMA SetField ==
    ASSUME NEW r, IsConn(r), NEW x
    PROVE  /\ IsConn([r EXCEPT !.error = x]) /\ IsConn([r EXCEPT !.last = x])
           /\ IsConn([r EXCEPT !.st = x])
           /\ [r EXCEPT !.error = x].managed = r.managed /\ [r EXCEPT !.error = x].st = r.st
           /\ [r EXCEPT !.last = x].managed = r.managed /\ [r EXCEPT !.last = x].st = r.st
           /\ [r EXCEPT !.st = x].managed = r.managed /\ [r EXCEPT !.st = x].st = x
BY DEF IsConn, IsFcn, ConnFields

\* A connection of NetworkManager's that is managed is replaced.
LEMMA NMReplaced ==
    ASSUME NEW n, NMShape(n), NEW c \in Conn, NEW r, IsNMConn(r)
    PROVE  /\ IsNMConns([n.conns EXCEPT ![c] = r])
           /\ \A d \in Conn : d # c => [n.conns EXCEPT ![c] = r][d] = n.conns[d]
BY DEF NMShape, IsNMConns, IsFcn

\* An error of a managed connection is shown.
LEMMA FailedStep ==
    ASSUME Inv, NEW c \in Conn, NEW conn, NEW g, NEW x, IsConn(conn), conn.managed => c \in ever,
           IsNMConns(g), \A d \in Conn : d \notin ever => g[d] = nm.conns[d],
           Failed(c, conn, g, x), UNCHANGED <<gone, events, ever>>
    PROVE  Inv' /\ Spares
<1>1. Tree(tree, ever) /\ Tree(cfg, ever) /\ IsConn(tree.conns[c])
      /\ (tree.conns[c].managed => c \in ever)
  BY DEF Inv, Tree
<1> DEFINE r == [conn EXCEPT !.error = TRUE]
           s == [tree.conns[c] EXCEPT !.error = TRUE]
<1>2. IsConn(r) /\ r.managed = conn.managed
  BY SetField
<1>3. IsConn(s) /\ s.managed = tree.conns[c].managed /\ s.st = tree.conns[c].st
  BY <1>1, SetField
<1>4. cfg' = [cfg EXCEPT !.conns[c] = r] /\ tree' = [tree EXCEPT !.conns[c] = s]
      /\ nm' = [nm EXCEPT !.conns = g] /\ run' = Noted([run EXCEPT !.todo = @ \ {c}], x)
      /\ queue' = queue
  BY <1>1 DEF Failed, Tree, IsFcn
<1> HIDE DEF r, s
<1>5. Tree(cfg', ever) /\ cfg'.node = cfg.node
  BY <1>1, <1>2, <1>4, OneConn
<1>6. Tree(tree', ever) /\ \A d \in Conn : tree'.conns[d] = IF d = c THEN s ELSE tree.conns[d]
  BY <1>1, <1>3, <1>4, OneConn
<1>7. NMShape(nm') /\ nm'.conns = g
  BY <1>4, NMConns DEF Inv
<1>8. RunShape([run EXCEPT !.todo = @ \ {c}])
  BY RunShapes DEF Inv
<1>9. RunShape(run')
  BY <1>4, <1>8, RunShapes
<1> QED BY <1>3, <1>4, <1>5, <1>6, <1>7, <1>9, ConnKeeps DEF Inv

\* What holds of the client's copy of a connection and of its node.
LEMMA OfConn ==
    ASSUME Inv, NEW c \in Conn
    PROVE  /\ Tree(tree, ever) /\ Tree(cfg, ever) /\ NMShape(nm) /\ RunShape(run)
           /\ Queue(queue, ever) /\ events \in Int
           /\ IsConn(tree.conns[c]) /\ (tree.conns[c].managed => c \in ever)
           /\ IsConn(cfg.conns[c]) /\ (cfg.conns[c].managed => c \in ever)
           /\ IsNMConn(nm.conns[c])
           /\ RunShape([run EXCEPT !.todo = @ \ {c}])
           /\ \A x : RunShape(Noted([run EXCEPT !.todo = @ \ {c}], x))
<1>1. RunShape([run EXCEPT !.todo = @ \ {c}])
  BY RunShapes DEF Inv
<1>2. \A x : RunShape(Noted([run EXCEPT !.todo = @ \ {c}], x))
  BY <1>1, RunShapes
<1> QED BY <1>1, <1>2 DEF Inv, Tree, NMShape, IsNMConns

\* SyncConnections at a managed connection.
LEMMA SyncManagedStep ==
    ASSUME Inv, NEW c \in Conn, cfg.conns[c].managed, SyncManaged(c), UNCHANGED <<gone, events, ever>>
    PROVE  Inv' /\ Spares
<1>a. /\ Tree(tree, ever) /\ Tree(cfg, ever) /\ NMShape(nm)
      /\ Queue(queue, ever) /\ events \in Int
  BY OfConn
<1>b. /\ IsConn(tree.conns[c]) /\ (tree.conns[c].managed => c \in ever)
      /\ IsConn(cfg.conns[c]) /\ (cfg.conns[c].managed => c \in ever)
      /\ IsNMConn(nm.conns[c])
  BY OfConn
<1>c. /\ RunShape([run EXCEPT !.todo = @ \ {c}])
      /\ RunShape(Noted([run EXCEPT !.todo = @ \ {c}], TRUE))
      /\ \A x : RunShape(Noted([run EXCEPT !.todo = @ \ {c}], x))
  BY OfConn
<1> DEFINE n == run.found[c]
           conn == [cfg.conns[c] EXCEPT !.last = n.last]
           there == nm.up /\ nm.conns[c].there
           refused == n.dbus.key = "wpa-psk" /\ ~there
           same == ConnEqual(conn.set, WithSecrets(n.dbus))
           accepted == Accepted(ConnDBus(conn.set))
<1>0. c \in ever
  BY <1>a, <1>b
<1>1. IsConn(conn) /\ conn.managed = cfg.conns[c].managed
  <2> HIDE DEF n
  <2> QED BY <1>b DEF IsConn, IsFcn, ConnFields
<1>2. CASE refused
  <2>1. Failed(c, conn, nm.conns, FALSE)
    BY <1>2 DEF SyncManaged
  <2>2. IsNMConns(nm.conns)
    BY <1>a, <1>b DEF NMShape
  <2> HIDE DEF conn
  <2> QED BY <1>0, <1>1, <2>1, <2>2, FailedStep
<1>3. CASE ~refused /\ ~same /\ (~there \/ ~accepted)
  <2>1. Failed(c, conn, Refused(c, there), there)
    BY <1>3 DEF SyncManaged
  <2>2. /\ IsNMConns(Refused(c, there))
        /\ \A d \in Conn : d \notin ever => Refused(c, there)[d] = nm.conns[d]
    <3>1. CASE there
      <4>1. Refused(c, there) = [nm.conns EXCEPT ![c] = NoNMConn]
        BY <3>1 DEF Refused
      <4>2. /\ IsNMConns([nm.conns EXCEPT ![c] = NoNMConn])
            /\ \A d \in Conn : d # c => [nm.conns EXCEPT ![c] = NoNMConn][d] = nm.conns[d]
        BY <1>a, NoNMConnShape, NMReplaced
      <4> QED BY <1>0, <4>1, <4>2
    <3>2. CASE ~there
      <4>1. Refused(c, there) = nm.conns
        BY <3>2 DEF Refused
      <4> QED BY <4>1, <1>a, <1>b DEF NMShape
    <3> QED BY <3>1, <3>2
  <2> HIDE DEF conn, there
  <2> QED BY <1>0, <1>1, <2>1, <2>2, FailedStep
<1>4. CASE ~refused /\ ~(~same /\ (~there \/ ~accepted))
  <2>1. /\ cfg' = [cfg EXCEPT !.conns[c] = conn]
        /\ tree' = [tree EXCEPT !.conns[c].last = IF cfg.conns[c].last # n.last THEN n.last ELSE @]
        /\ nm' = IF same THEN nm ELSE [nm EXCEPT !.conns = Updated(c, conn.set)]
        /\ run' = Noted([run EXCEPT !.todo = @ \ {c}], ~same)
        /\ UNCHANGED queue
    BY <1>4 DEF SyncManaged
  <2> DEFINE x == IF cfg.conns[c].last # n.last THEN n.last ELSE tree.conns[c].last
             s == [tree.conns[c] EXCEPT !.last = x]
             u == [nm.conns[c] EXCEPT !.dbus = ConnDBus(conn.set),
                                      !.last = IF nm.conns[c].active THEN 1 - @ ELSE @]
  <2>2. tree' = [tree EXCEPT !.conns[c] = s]
    BY <2>1, <1>a, <1>b DEF Tree, IsFcn
  <2>3. IsConn(s) /\ s.managed = tree.conns[c].managed /\ s.st = tree.conns[c].st
    <3> HIDE DEF x
    <3> QED BY <1>a, <1>b, SetField
  <2>4. Updated(c, conn.set) = [nm.conns EXCEPT ![c] = u] /\ IsNMConn(u)
    <3> HIDE DEF conn
    <3>1. IsFcn(nm.conns, Conn)
      BY <1>a DEF NMShape, IsNMConns
    <3>2. Updated(c, conn.set) = [nm.conns EXCEPT ![c] = u]
      BY <3>1 DEF Updated, IsFcn
    <3>3. IsNMConn(u)
      BY <1>b DEF IsNMConn, IsFcn
    <3> QED BY <3>2, <3>3
  <2>5. IsNMConns(Updated(c, conn.set))
        /\ \A d \in Conn : d # c => Updated(c, conn.set)[d] = nm.conns[d]
    <3> HIDE DEF u, conn
    <3> QED BY <2>4, <1>a, <1>b, NMReplaced
  <2>6. NMShape(nm') /\ \A d \in Conn : d # c => nm'.conns[d] = nm.conns[d]
    <3> HIDE DEF conn, same
    <3> QED BY <2>1, <2>5, <1>a, <1>b, NMConns
  <2> HIDE DEF s, conn, same
  <2>7. Tree(cfg', ever) /\ cfg'.node = cfg.node
    BY <1>0, <1>1, <2>1, <1>a, <1>b, OneConn
  <2>8. Tree(tree', ever) /\ \A d \in Conn : tree'.conns[d] = IF d = c THEN s ELSE tree.conns[d]
    BY <1>0, <2>2, <2>3, <1>a, <1>b, OneConn
  <2>9. RunShape(run')
    BY <2>1, <1>c
  <2> QED BY <1>0, <2>1, <2>3, <2>6, <2>7, <2>8, <2>9, <1>a, <1>c, ConnKeeps
<1> QED BY <1>2, <1>3, <1>4

\* SyncConnections at a connection that is not managed.
LEMMA SyncUnmanagedStep ==
    ASSUME Inv, NEW c \in Conn, SyncUnmanaged(c), UNCHANGED <<gone, events, ever>>
    PROVE  Inv' /\ Spares
<1>a. /\ Tree(tree, ever) /\ Tree(cfg, ever) /\ NMShape(nm)
      /\ Queue(queue, ever) /\ events \in Int
  BY OfConn
<1>b. /\ IsConn(tree.conns[c]) /\ (tree.conns[c].managed => c \in ever)
      /\ IsConn(cfg.conns[c]) /\ (cfg.conns[c].managed => c \in ever)
      /\ IsNMConn(nm.conns[c])
  BY OfConn
<1>c. /\ RunShape([run EXCEPT !.todo = @ \ {c}])
      /\ RunShape(Noted([run EXCEPT !.todo = @ \ {c}], TRUE))
      /\ \A x : RunShape(Noted([run EXCEPT !.todo = @ \ {c}], x))
  BY OfConn
<1> DEFINE n == run.found[c]
           new == [set |-> ResolveConn(n.dbus), last |-> n.last, error |-> FALSE]
           f == [k \in {k \in DOMAIN new : cfg.conns[c][k] # new[k]} |-> new[k]]
           m == [to |-> "conn", id |-> c, f |-> f]
           r == Merge(f, tree.conns[c])
<1>1. /\ tree' = [tree EXCEPT !.conns[c] = Merge(f, @)]
      /\ queue' = IF DOMAIN f = {} THEN queue ELSE Append(queue, m)
      /\ run' = [run EXCEPT !.todo = @ \ {c}]
      /\ UNCHANGED <<nm, cfg>>
  BY DEF SyncUnmanaged
<1>2. DOMAIN f \subseteq {"set", "last", "error"} /\ IsFcn(f, DOMAIN f)
  <2>1. DOMAIN new = {"set", "last", "error"}
    OBVIOUS
  <2> HIDE DEF new
  <2> QED BY <2>1 DEF IsFcn
<1> HIDE DEF f
<1>3. DOMAIN f \subseteq ConnFields \ {"st", "managed"}
  BY <1>2 DEF ConnFields
<1>4. IsMsg(m) /\ "managed" \notin DOMAIN m.f
  BY <1>2, <1>3 DEF IsMsg, IsFcn
<1>5. tree' = [tree EXCEPT !.conns[c] = r]
  BY <1>1, <1>a, <1>b DEF Tree, IsFcn
<1>6. IsConn(r) /\ r.managed = tree.conns[c].managed /\ r.st = tree.conns[c].st
  <2>1. "managed" \in ConnFields /\ "st" \in ConnFields
    BY DEF ConnFields
  <2> QED BY <1>2, <1>3, <2>1, <1>a, <1>b, MergeConn
<1> HIDE DEF r, m
<1>7. Tree(tree', ever) /\ \A d \in Conn : tree'.conns[d] = IF d = c THEN r ELSE tree.conns[d]
  <2>1. r.managed => c \in ever
    BY <1>6, <1>b
  <2>2. /\ Tree([tree EXCEPT !.conns[c] = r], ever)
        /\ \A d \in Conn : [tree EXCEPT !.conns[c] = r].conns[d] = IF d = c THEN r ELSE tree.conns[d]
    BY <1>6, <1>a, <2>1, OneConn
  <2> QED BY <1>5, <2>2
<1>8. Queue(queue', ever) /\ ToSet(queue) \subseteq ToSet(queue')
  BY <1>1, <1>4, <1>a, <1>b, QueueAppend
<1> QED BY <1>1, <1>6, <1>7, <1>8, <1>a, <1>c, ConnKeeps

\* SyncConnections at a connection of the tree that NetworkManager does not have.
LEMMA SyncAddStep ==
    ASSUME Inv, NEW c \in Conn, cfg.conns[c].managed, SyncAdd(c), UNCHANGED <<gone, events, ever>>
    PROVE  Inv' /\ Spares
<1>a. /\ Tree(tree, ever) /\ Tree(cfg, ever) /\ NMShape(nm)
      /\ Queue(queue, ever) /\ events \in Int
  BY OfConn
<1>b. /\ IsConn(tree.conns[c]) /\ (tree.conns[c].managed => c \in ever)
      /\ IsConn(cfg.conns[c]) /\ (cfg.conns[c].managed => c \in ever)
      /\ IsNMConn(nm.conns[c])
  BY OfConn
<1>c. /\ RunShape([run EXCEPT !.todo = @ \ {c}])
      /\ RunShape(Noted([run EXCEPT !.todo = @ \ {c}], TRUE))
      /\ \A x : RunShape(Noted([run EXCEPT !.todo = @ \ {c}], x))
  BY OfConn
<1>0. c \in ever
  BY <1>a, <1>b
<1> DEFINE conn == cfg.conns[c]
           ok == nm.up /\ ~nm.conns[c].there /\ Accepted(ConnDBus(conn.set))
           u == [NoNMConn EXCEPT !.there = TRUE, !.dbus = ConnDBus(conn.set)]
<1>1. CASE ok
  <2>1. /\ nm' = [nm EXCEPT !.conns[c] = u]
        /\ run' = Noted([run EXCEPT !.todo = @ \ {c}], TRUE)
        /\ UNCHANGED <<tree, cfg, queue>>
    BY <1>1 DEF SyncAdd
  <2>2. IsNMConn(u)
    BY DEF NoNMConn, IsNMConn, IsFcn
  <2> HIDE DEF u
  <2>3. nm' = [nm EXCEPT !.conns = [nm.conns EXCEPT ![c] = u]]
    BY <2>1
  <2>4. NMShape(nm') /\ \A d \in Conn : d # c => nm'.conns[d] = nm.conns[d]
    <3> DEFINE g == [nm.conns EXCEPT ![c] = u]
    <3>1. IsNMConns(g) /\ \A d \in Conn : d # c => g[d] = nm.conns[d]
      BY <2>2, <1>a, NMReplaced
    <3> HIDE DEF g
    <3>2. NMShape([nm EXCEPT !.conns = g]) /\ [nm EXCEPT !.conns = g].conns = g
      BY <1>a, <3>1, NMConns
    <3> QED BY <2>3, <3>1, <3>2 DEF g
  <2> QED BY <1>0, <2>1, <2>4, <1>a, <1>c, ConnKeeps
<1>2. CASE ~ok
  <2>1. Failed(c, conn, nm.conns, FALSE)
    BY <1>2 DEF SyncAdd
  <2>2. IsNMConns(nm.conns)
    BY <1>a, <1>b DEF NMShape
  <2> QED BY <2>1, <2>2, <1>a, <1>b, FailedStep
<1> QED BY <1>1, <1>2

\* SyncConnections at a deleted connection.
LEMMA SyncDeleteStep ==
    ASSUME Inv, NEW c \in Conn, SyncDelete(c), UNCHANGED <<gone, events, ever>>
    PROVE  Inv' /\ Spares
<1>a. /\ Tree(tree, ever) /\ Tree(cfg, ever) /\ NMShape(nm)
      /\ Queue(queue, ever) /\ events \in Int
  BY OfConn
<1>b. /\ IsConn(tree.conns[c]) /\ (tree.conns[c].managed => c \in ever)
      /\ IsConn(cfg.conns[c]) /\ (cfg.conns[c].managed => c \in ever)
      /\ IsNMConn(nm.conns[c])
  BY OfConn
<1>c. /\ RunShape([run EXCEPT !.todo = @ \ {c}])
      /\ RunShape(Noted([run EXCEPT !.todo = @ \ {c}], TRUE))
      /\ \A x : RunShape(Noted([run EXCEPT !.todo = @ \ {c}], x))
  BY OfConn
<1> DEFINE x == IF tree.conns[c].st = "live" THEN "deleted" ELSE tree.conns[c].st
           s == [tree.conns[c] EXCEPT !.st = x]
<1>1. /\ tree' = [tree EXCEPT !.conns[c] = s]
      /\ queue' = Append(queue, Edge)
      /\ run' = [run EXCEPT !.todo = @ \ {c}]
      /\ UNCHANGED <<nm, cfg>>
  BY <1>a, <1>b DEF SyncDelete, Tree, IsFcn
<1>2. IsConn(s) /\ s.managed = tree.conns[c].managed /\ s.st = x
  <2> HIDE DEF x
  <2> QED BY <1>b DEF IsConn, IsFcn, ConnFields
<1>3. Tree(tree', ever) /\ \A d \in Conn : tree'.conns[d] = IF d = c THEN s ELSE tree.conns[d]
  <2> HIDE DEF s, x
  <2>1. s.managed => c \in ever
    BY <1>2, <1>b
  <2>2. /\ Tree([tree EXCEPT !.conns[c] = s], ever)
        /\ \A d \in Conn : [tree EXCEPT !.conns[c] = s].conns[d] = IF d = c THEN s ELSE tree.conns[d]
    BY <1>2, <1>a, <2>1, OneConn
  <2> QED BY <1>1, <2>2
<1>4. Queue(queue', ever) /\ ToSet(queue') = ToSet(queue) \cup {Edge}
  BY <1>1, EdgeMsg, <1>a, <1>b, QueueAppend
<1> HIDE DEF s
<1> QED BY <1>1, <1>2, <1>3, <1>4, <1>a, <1>c, ConnKeeps

\* One connection
LEMMA SyncConnStep ==
    ASSUME Inv, SyncConn
    PROVE  Inv' /\ Spares
<1>1. PICK c \in run.todo :
        CASE run.found[c].there /\ cfg.conns[c].managed -> SyncManaged(c)
          [] run.found[c].there /\ ~cfg.conns[c].managed -> SyncUnmanaged(c)
          [] ~run.found[c].there /\ cfg.conns[c].managed -> SyncAdd(c)
          [] ~run.found[c].there /\ ~cfg.conns[c].managed -> SyncDelete(c)
  BY DEF SyncConn
<1>2. c \in Conn /\ UNCHANGED <<gone, events, ever>>
  BY DEF SyncConn, Inv, RunShape
<1>3. CASE run.found[c].there /\ cfg.conns[c].managed
  <2>1. SyncManaged(c)
    BY <1>1, <1>3, Zenon
  <2> QED BY <1>2, <1>3, <2>1, SyncManagedStep
<1>4. CASE run.found[c].there /\ ~cfg.conns[c].managed
  <2>1. SyncUnmanaged(c)
    BY <1>1, <1>4, Zenon
  <2> QED BY <1>2, <2>1, SyncUnmanagedStep
<1>5. CASE ~run.found[c].there /\ cfg.conns[c].managed
  <2>1. SyncAdd(c)
    BY <1>1, <1>5, Zenon
  <2> QED BY <1>2, <1>5, <2>1, SyncAddStep
<1>6. CASE ~run.found[c].there /\ ~cfg.conns[c].managed
  <2>1. SyncDelete(c)
    BY <1>1, <1>6, Zenon
  <2> QED BY <1>2, <2>1, SyncDeleteStep
<1> QED BY <1>3, <1>4, <1>5, <1>6

-----------------------------------------------------------------------------
(* SyncDevices, SyncHostname, WifiScan *)

\* A node's record some of whose fields other than disabled are set.
LEMMA SetNode ==
    ASSUME NEW r, IsNode(r), NEW x, NEW y
    PROVE  /\ IsNode([r EXCEPT !.net = x, !.wifi = y])
           /\ [r EXCEPT !.net = x, !.wifi = y].disabled = r.disabled
           /\ IsNode([r EXCEPT !.host = x]) /\ [r EXCEPT !.host = x].disabled = r.disabled
           /\ IsNode([r EXCEPT !.scan = x]) /\ [r EXCEPT !.scan = x].disabled = r.disabled
BY DEF IsNode, IsFcn, NodeFields

\* A step that leaves the connections alone.
LEMMA OtherParts ==
    ASSUME Inv, IsFcn(tree', {"node", "conns", "dev", "ghost"}), tree'.conns = tree.conns,
           IsNode(tree'.node),
           IsFcn(cfg', {"node", "conns", "dev", "ghost"}), cfg'.conns = cfg.conns,
           IsNode(cfg'.node), cfg'.node.disabled = cfg.node.disabled,
           IsFcn(nm', {"up", "conns", "dev", "aps", "host", "wifi", "net"}), nm'.conns = nm.conns,
           RunShape(run'), Queue(queue', ever), ToSet(queue) \subseteq ToSet(queue'),
           UNCHANGED <<gone, ever>>, events' \in Int
    PROVE  Inv' /\ Spares
<1>1. Tree(tree', ever) /\ Tree(cfg', ever)
  BY SameConns DEF Inv
<1>2. NMShape(nm')
  BY DEF Inv, NMShape
<1> QED BY <1>1, <1>2, ConnKeeps

\* SyncDevices
LEMMA SyncDevicesStep ==
    ASSUME Inv, SyncDevices
    PROVE  Inv' /\ Spares
<1>1. CASE Die
  BY <1>1, DieStep
<1>2. CASE ~Die
  <2> DEFINE known == cfg.dev.st = "live"
             nilWifi == cfg.node.wifi = "nil"
             x == IF cfg.node.net # nm.net THEN nm.net ELSE tree.node.net
             y == IF nilWifi THEN nm.wifi ELSE tree.node.wifi
             Dev(ps, found) ==
                CASE known /\ found -> [tree.dev EXCEPT !.info = Put(@, ps)]
                  [] known /\ ~found -> [tree.dev EXCEPT !.st = "deleted"]
                  [] ~known /\ found ->
                        [tree.dev EXCEPT !.st = "live",
                                         !.info = Put(@, Encode(scope.kind, nm.dev.info))]
                  [] ~known /\ ~found -> tree.dev
             Ghost(ghost) == IF cfg.ghost # ghost THEN ghost ELSE tree.ghost
             Info(ps, found) ==
                IF known /\ found THEN Decode(scope.kind, cfg.dev.info, ps) ELSE cfg.dev.info
             Points(ps, found) ==
                IF known /\ found /\ ps # <<>> THEN <<[to |-> "dev", id |-> "", f |-> ps]>> ELSE <<>>
             Edges(found, ghost) ==
                {k \in {"dev", "ghost"} : IF k = "dev" THEN known # found ELSE cfg.ghost # ghost}
  <2>1. PICK ps \in {DiffPoints(scope.kind, cfg.dev.info, nm.dev.info)},
             d \in {"dev", "ghost", "none"} :
          /\ ResolveDevice(d)
          /\ tree' = [tree EXCEPT !.node = [tree.node EXCEPT !.net = x, !.wifi = y],
                                  !.dev = Dev(ps, d = "dev"), !.ghost = Ghost(d = "ghost")]
          /\ cfg' = [cfg EXCEPT !.node = SyncFlags(@), !.dev.info = Info(ps, d = "dev")]
          /\ queue' = queue \o Points(ps, d = "dev")
                            \o [i \in 1 .. Cardinality(Edges(d = "dev", d = "ghost")) |-> Edge]
    BY <1>2, ZenonT(40) DEF SyncDevices
  <2> DEFINE dev == Dev(ps, d = "dev")
             ghost == Ghost(d = "ghost")
             info == Info(ps, d = "dev")
             points == Points(ps, d = "dev")
             edges == Edges(d = "dev", d = "ghost")
  <2>a. /\ tree' = [tree EXCEPT !.node = [tree.node EXCEPT !.net = x, !.wifi = y],
                                !.dev = dev, !.ghost = ghost]
        /\ cfg' = [cfg EXCEPT !.node = SyncFlags(@), !.dev.info = info]
        /\ queue' = queue \o points \o [i \in 1 .. Cardinality(edges) |-> Edge]
    BY <2>1, Zenon
  <2>b. points \in {<<>>, <<[to |-> "dev", id |-> "", f |-> ps]>>} /\ edges \subseteq {"dev", "ghost"}
    BY Zenon
  <2> HIDE DEF dev, ghost, info, points, edges, x, y
  <2>2. /\ nm' = [nm EXCEPT !.wifi = IF cfg.node.wifi = "nil" THEN @ ELSE cfg.node.wifi]
        /\ run' = Noted([run EXCEPT !.pc = "host"], nm'.wifi # nm.wifi)
        /\ UNCHANGED <<scope, gone, ever>>
    BY <1>2 DEF SyncDevices
  <2>3. events' \in Int
    <3>1. ResolveDevice(d)
      BY <2>1
    <3>2. events' = events \/ events' = events + 1
      BY <3>1 DEF ResolveDevice, Change
    <3> QED BY <3>2 DEF Inv
  <2>4. /\ IsFcn(tree, {"node", "conns", "dev", "ghost"}) /\ IsNode(tree.node)
        /\ IsFcn(cfg, {"node", "conns", "dev", "ghost"}) /\ IsNode(cfg.node)
        /\ IsFcn(nm, {"up", "conns", "dev", "aps", "host", "wifi", "net"})
        /\ RunShape(run) /\ Queue(queue, ever)
    BY DEF Inv, Tree, NMShape
  <2>5. IsFcn(tree', {"node", "conns", "dev", "ghost"}) /\ tree'.conns = tree.conns
        /\ IsNode(tree'.node)
    <3> DEFINE r == [tree.node EXCEPT !.net = x, !.wifi = y]
    <3>2. IsNode(r)
      BY <2>4, SetNode
    <3> HIDE DEF r
    <3>3. tree' = [tree EXCEPT !.node = r, !.dev = dev, !.ghost = ghost]
      BY <2>a DEF r
    <3> QED BY <2>4, <3>2, <3>3 DEF IsFcn
  <2>6. IsFcn(cfg', {"node", "conns", "dev", "ghost"}) /\ cfg'.conns = cfg.conns
        /\ IsNode(cfg'.node) /\ cfg'.node.disabled = cfg.node.disabled
    <3> DEFINE z == IF cfg.node.wifi = "nil" THEN nm.wifi ELSE cfg.node.wifi
               r == [cfg.node EXCEPT !.net = nm.net, !.wifi = z]
    <3>1. IsNode(r) /\ r.disabled = cfg.node.disabled
      <4> HIDE DEF z
      <4> QED BY <2>4 DEF IsNode, IsFcn, NodeFields
    <3>2. SyncFlags(cfg.node) = r
      BY <2>4 DEF SyncFlags, IsNode, IsFcn, NodeFields
    <3> HIDE DEF r
    <3>3. cfg' = [cfg EXCEPT !.node = r, !.dev.info = info]
      BY <2>4, <2>a, <3>2 DEF IsFcn
    <3> QED BY <2>4, <3>1, <3>3 DEF IsFcn
  <2>7. IsFcn(nm', {"up", "conns", "dev", "aps", "host", "wifi", "net"}) /\ nm'.conns = nm.conns
    BY <2>2, <2>4 DEF IsFcn
  <2>8. RunShape(run')
    <3>1. RunShape([run EXCEPT !.pc = "host"])
      BY <2>4, RunShapes
    <3> QED BY <2>2, <3>1, RunShapes
  <2>9. Queue(queue', ever) /\ ToSet(queue) \subseteq ToSet(queue')
    <3>2. Cardinality(edges) \in Nat
      <4>1. IsFiniteSet({"dev", "ghost"})
        <5>1. IsFiniteSet({"dev"}) /\ IsFiniteSet({"ghost"})
          BY FS_Singleton
        <5>2. IsFiniteSet({"dev"} \cup {"ghost"})
          BY <5>1, FS_Union
        <5>3. {"dev"} \cup {"ghost"} = {"dev", "ghost"}
          OBVIOUS
        <5> QED BY <5>2, <5>3
      <4>2. IsFiniteSet(edges)
        BY <2>b, <4>1, FS_Subset
      <4> QED BY <4>2, FS_CardinalityType
    <3> DEFINE n == Cardinality(edges)
               p == [i \in 1 .. n |-> Edge]
               m == [to |-> "dev", id |-> "", f |-> ps]
    <3>3. Queue(p, ever)
      <4> HIDE DEF n
      <4> QED BY <3>2, QueueEdges DEF n
    <3>4. IsMsg(m) /\ m.to # "conn"
      BY DEF IsMsg, IsFcn
    <3>5. Queue(points, ever)
      <4> HIDE DEF m
      <4>1. Queue(<<>>, ever) /\ Queue(<<m>>, ever)
        BY <3>2, <3>4, QueueEdges, QueueOne
      <4> QED BY <2>b, <4>1 DEF m
    <3> HIDE DEF p
    <3>6. Queue(queue \o points, ever) /\ ToSet(queue) \subseteq ToSet(queue \o points)
      BY <2>4, <3>5, QueueConcat
    <3> DEFINE q == queue \o points
    <3> HIDE DEF q
    <3>7. Queue(q \o p, ever) /\ ToSet(q) \subseteq ToSet(q \o p)
      BY <3>3, <3>6, QueueConcat DEF q
    <3> QED BY <2>a, <3>6, <3>7 DEF p, q
  <2> QED BY <2>2, <2>3, <2>5, <2>6, <2>7, <2>8, <2>9, OtherParts
<1> QED BY <1>1, <1>2

\* SyncHostname
LEMMA SyncHostnameStep ==
    ASSUME Inv, SyncHostname
    PROVE  Inv' /\ Spares
<1>1. CASE ~nm.up
  <2>1. Die
    BY <1>1 DEF SyncHostname
  <2> QED BY <2>1, DieStep
<1>2. CASE nm.up
  <2> DEFINE blank == cfg.node.host = ""
             x == IF blank THEN nm.host ELSE cfg.node.host
             y == IF blank THEN nm.host ELSE tree.node.host
             r == [cfg.node EXCEPT !.host = x]
             s == [tree.node EXCEPT !.host = y]
  <2>4. /\ IsFcn(tree, {"node", "conns", "dev", "ghost"}) /\ IsNode(tree.node)
        /\ IsFcn(cfg, {"node", "conns", "dev", "ghost"}) /\ IsNode(cfg.node)
        /\ IsFcn(nm, {"up", "conns", "dev", "aps", "host", "wifi", "net"})
        /\ RunShape(run) /\ Queue(queue, ever) /\ events \in Int
    BY DEF Inv, Tree, NMShape
  <2>1. /\ cfg' = [cfg EXCEPT !.node.host = IF blank THEN nm.host ELSE @]
        /\ tree' = [tree EXCEPT !.node.host = IF blank THEN nm.host ELSE @]
        /\ nm' = [nm EXCEPT !.host = IF blank THEN @ ELSE cfg.node.host]
        /\ run' = After(Noted(run, nm'.host # nm.host), cfg.node)
        /\ UNCHANGED <<scope, gone, queue, events, ever>>
    BY <1>2, Zenon DEF SyncHostname
  <2>2. cfg' = [cfg EXCEPT !.node = r] /\ tree' = [tree EXCEPT !.node = s]
    BY <2>1, <2>4 DEF IsFcn, IsNode, NodeFields
  <2>3. IsNode(r) /\ r.disabled = cfg.node.disabled /\ IsNode(s)
    <3> HIDE DEF x, y
    <3> QED BY <2>4, SetNode
  <2> HIDE DEF r, s, x, y
  <2>5. /\ IsFcn(tree', {"node", "conns", "dev", "ghost"}) /\ tree'.conns = tree.conns
        /\ IsNode(tree'.node)
        /\ IsFcn(cfg', {"node", "conns", "dev", "ghost"}) /\ cfg'.conns = cfg.conns
        /\ IsNode(cfg'.node) /\ cfg'.node.disabled = cfg.node.disabled
    BY <2>2, <2>3, <2>4 DEF IsFcn
  <2>6. IsFcn(nm', {"up", "conns", "dev", "aps", "host", "wifi", "net"}) /\ nm'.conns = nm.conns
    BY <2>1, <2>4 DEF IsFcn
  <2>7. RunShape(run')
    <3>1. RunShape(Noted(run, nm'.host # nm.host))
      BY <2>4, RunShapes
    <3> QED BY <2>1, <3>1, RunShapes
  <2> QED BY <2>1, <2>4, <2>5, <2>6, <2>7, OtherParts
<1> QED BY <1>1, <1>2

\* WifiScan
LEMMA ScanStep ==
    ASSUME Inv, Scan
    PROVE  Inv' /\ Spares
<1>1. PICK ps \in {ScanPoints, <<>>}, sub \in {run.sub, FALSE} :
        /\ ResolveAccessPoints(ps)
        /\ tree' = [tree EXCEPT !.dev.aps = Put(@, ps), !.node.scan = FALSE]
        /\ cfg' = [cfg EXCEPT !.dev.aps = Decode("slice", @, ps), !.node.scan = FALSE]
        /\ run' = [run EXCEPT !.pc = "select", !.sub = sub, !.sig = @ /\ sub]
  BY Zenon DEF Scan
<1>2. UNCHANGED <<scope, nm, gone, queue, ever>>
  BY DEF Scan
<1>3. events' \in Int
  <2>1. ResolveAccessPoints(ps)
    BY <1>1
  <2>2. events' = events \/ events' = events + 1
    BY <2>1 DEF ResolveAccessPoints, Change
  <2> QED BY <2>2 DEF Inv
<1>4. /\ IsFcn(tree, {"node", "conns", "dev", "ghost"}) /\ IsNode(tree.node)
      /\ IsFcn(cfg, {"node", "conns", "dev", "ghost"}) /\ IsNode(cfg.node)
      /\ IsFcn(nm, {"up", "conns", "dev", "aps", "host", "wifi", "net"})
      /\ RunShape(run) /\ Queue(queue, ever)
  BY DEF Inv, Tree, NMShape
<1> DEFINE r == [cfg.node EXCEPT !.scan = FALSE]
           s == [tree.node EXCEPT !.scan = FALSE]
           x == [cfg.dev EXCEPT !.aps = Decode("slice", @, ps)]
           y == [tree.dev EXCEPT !.aps = Put(@, ps)]
           z == run.sig /\ sub
<1>5. IsNode(r) /\ r.disabled = cfg.node.disabled /\ IsNode(s)
  BY <1>4, SetNode
<1>6. cfg' = [cfg EXCEPT !.dev = x, !.node = r] /\ tree' = [tree EXCEPT !.dev = y, !.node = s]
  BY <1>1, <1>4 DEF IsFcn
<1> HIDE DEF r, s, x, y
<1>7. /\ IsFcn(tree', {"node", "conns", "dev", "ghost"}) /\ tree'.conns = tree.conns
      /\ IsNode(tree'.node)
      /\ IsFcn(cfg', {"node", "conns", "dev", "ghost"}) /\ cfg'.conns = cfg.conns
      /\ IsNode(cfg'.node) /\ cfg'.node.disabled = cfg.node.disabled
  BY <1>4, <1>5, <1>6 DEF IsFcn
<1>8. RunShape(run')
  <2>1. run' = [run EXCEPT !.pc = "select", !.sub = sub, !.sig = z]
    BY <1>1
  <2> HIDE DEF z
  <2> QED BY <1>4, <2>1 DEF RunShape, IsFcn
<1> QED BY <1>2, <1>3, <1>4, <1>7, <1>8, OtherParts

-----------------------------------------------------------------------------
(* Users and NetworkManager *)

\* A change that is counted, if it spares what the client knows.
LEMMA Counted ==
    ASSUME Inv, events' = events + 1, ever \subseteq ever',
           Tree(tree', ever'), Queue(queue', ever'), UNCHANGED <<nm, cfg, gone, run>>,
           \/ Edge \in ToSet(queue')
           \/ /\ ToSet(queue) \subseteq ToSet(queue')
              /\ \A d \in Conn : tree'.conns[d].st = tree.conns[d].st
              /\ \A d \in Conn : tree.conns[d].st = "deleted" =>
                    tree'.conns[d].managed = tree.conns[d].managed
    PROVE  Inv' /\ Spares
<1>1. Spares
  BY DEF Inv, Spares
<1>2. Tree(cfg', ever')
  BY MoreManaged DEF Inv
<1>3. Knows(tree', cfg'.node.disabled, queue', gone')
  BY DEF Inv, Knows
<1>4. NMShape(nm') /\ RunShape(run')
  BY DEF Inv
<1>5. gone' \subseteq ever' /\ events' \in Int
  BY DEF Inv
<1> QED BY <1>1, <1>2, <1>3, <1>4, <1>5 DEF Inv

\* A user changes points of a connection that is there.
LEMMA TellConn ==
    ASSUME Inv, events' = events + 1, NEW c \in Conn, NEW f, tree.conns[c].st = "live",
           Tell("conn", c, f), ever \subseteq ever',
           IsFcn(f, DOMAIN f), DOMAIN f \subseteq ConnFields \ {"st"},
           "managed" \in DOMAIN f => f.managed \in BOOLEAN /\ c \in ever'
    PROVE  Inv' /\ Spares
<1> DEFINE m == [to |-> "conn", id |-> c, f |-> f]
           r == Merge(f, tree.conns[c])
<1>1. /\ Tree(tree, ever') /\ Queue(queue, ever')
  BY MoreManaged DEF Inv
<1>2. IsConn(tree.conns[c]) /\ (tree.conns[c].managed => c \in ever')
  BY <1>1 DEF Tree
<1>3. /\ tree' = [tree EXCEPT !.conns[c] = r] /\ queue' = Append(queue, m)
      /\ UNCHANGED <<nm, cfg, gone, run>>
  BY <1>1 DEF Tell, Tree, IsFcn
<1>4. IsMsg(m) /\ m.f = f /\ m.id = c
  BY DEF IsMsg, IsFcn
<1>5. /\ IsConn(r) /\ r.managed = (IF "managed" \in DOMAIN f THEN f.managed ELSE tree.conns[c].managed)
      /\ r.st = tree.conns[c].st
  <2>1. "managed" \in ConnFields /\ "st" \in ConnFields
    BY DEF ConnFields
  <2>2. DOMAIN f \subseteq ConnFields /\ "st" \notin DOMAIN f
    OBVIOUS
  <2> QED BY <1>2, <2>1, <2>2, MergeConn
<1> HIDE DEF r, m
<1>6. r.managed => c \in ever'
  BY <1>2, <1>5
<1>7. /\ Tree(tree', ever')
      /\ \A d \in Conn : tree'.conns[d] = IF d = c THEN r ELSE tree.conns[d]
  <2> DEFINE E == ever'
  <2> HIDE DEF E
  <2>1. Tree(tree, E) /\ IsConn(r) /\ (r.managed => c \in E)
    BY <1>1, <1>5, <1>6 DEF E
  <2>2. /\ Tree([tree EXCEPT !.conns[c] = r], E)
        /\ \A d \in Conn : [tree EXCEPT !.conns[c] = r].conns[d] = IF d = c THEN r ELSE tree.conns[d]
    BY <2>1, OneConn
  <2> QED BY <1>3, <2>2 DEF E
<1>8. Queue(queue', ever') /\ ToSet(queue) \subseteq ToSet(queue')
  BY <1>1, <1>3, <1>4, QueueAppend
<1> QED BY <1>3, <1>5, <1>7, <1>8, Counted

\* A user changes points of the node.
LEMMA TellNode ==
    ASSUME Inv, events' = events + 1, NEW f, Tell("node", "", f), UNCHANGED ever,
           IsFcn(f, DOMAIN f), DOMAIN f \subseteq NodeFields,
           "disabled" \in DOMAIN f => f.disabled \in BOOLEAN
    PROVE  Inv' /\ Spares
<1> DEFINE m == [to |-> "node", id |-> "", f |-> f]
           r == Merge(f, tree.node)
<1>1. /\ Tree(tree, ever) /\ Queue(queue, ever) /\ IsNode(tree.node)
      /\ IsFcn(tree, {"node", "conns", "dev", "ghost"})
  BY DEF Inv, Tree
<1>3. /\ tree' = [tree EXCEPT !.node = r] /\ queue' = Append(queue, m)
      /\ UNCHANGED <<nm, cfg, gone, run>>
  BY <1>1 DEF Tell
<1>4. IsMsg(m) /\ m.to = "node"
  BY DEF IsMsg, IsFcn
<1>5. IsNode(r)
  BY <1>1, MergeNode
<1> HIDE DEF r, m
<1>6. IsFcn(tree', {"node", "conns", "dev", "ghost"}) /\ tree'.conns = tree.conns /\ tree'.node = r
  BY <1>1, <1>3 DEF IsFcn
<1>7. Tree(tree', ever')
  BY <1>1, <1>5, <1>6, SameConns
<1>8. Queue(queue', ever') /\ ToSet(queue) \subseteq ToSet(queue')
  BY <1>1, <1>3, <1>4, QueueAppend
<1> QED BY <1>3, <1>6, <1>7, <1>8, Counted

\* Records of one field.
LEMMA OneField ==
    ASSUME NEW x
    PROVE  /\ DOMAIN [set |-> x] = {"set"} /\ IsFcn([set |-> x], {"set"})
           /\ DOMAIN [managed |-> x] = {"managed"} /\ IsFcn([managed |-> x], {"managed"})
           /\ DOMAIN [disabled |-> x] = {"disabled"} /\ IsFcn([disabled |-> x], {"disabled"})
           /\ DOMAIN [scan |-> x] = {"scan"} /\ IsFcn([scan |-> x], {"scan"})
           /\ DOMAIN [host |-> x] = {"host"} /\ IsFcn([host |-> x], {"host"})
           /\ DOMAIN [wifi |-> x] = {"wifi"} /\ IsFcn([wifi |-> x], {"wifi"})
BY DEF IsFcn

\* What users do.
LEMMA UserStep ==
    ASSUME Inv, scope.conns \subseteq Conn,
           UserEdits \/ UserManages \/ UserCreates \/ UserDeletes \/ UserSets
    PROVE  Inv' /\ Spares
<1>0. /\ Tree(tree, ever) /\ Queue(queue, ever)
      /\ IsFcn(tree, {"node", "conns", "dev", "ghost"}) /\ IsFcn(tree.conns, Conn)
      /\ IsNode(tree.node)
      /\ \A c \in Conn : IsConn(tree.conns[c]) /\ (tree.conns[c].managed => c \in ever)
  BY DEF Inv, Tree
<1>1. CASE UserEdits
  <2>1. PICK c \in Conn, s \in scope.sets : tree.conns[c].st = "live" /\ Tell("conn", c, [set |-> s])
    BY <1>1 DEF UserEdits
  <2>2. events' = events + 1 /\ UNCHANGED ever
    BY <1>1 DEF UserEdits, Change
  <2> DEFINE f == [set |-> s]
  <2>3. DOMAIN f = {"set"} /\ IsFcn(f, {"set"})
    BY OneField
  <2> HIDE DEF f
  <2>4. Tell("conn", c, f)
    BY <2>1 DEF f
  <2>5. DOMAIN f \subseteq ConnFields \ {"st"} /\ "managed" \notin DOMAIN f
    BY <2>3 DEF ConnFields
  <2> QED BY <2>1, <2>2, <2>3, <2>4, <2>5, TellConn
<1>2. CASE UserManages
  <2>1. PICK c \in Conn : /\ tree.conns[c].st = "live"
                          /\ Tell("conn", c, [managed |-> ~tree.conns[c].managed])
                          /\ ever' = ever \cup {c}
    BY <1>2 DEF UserManages
  <2>2. events' = events + 1
    BY <1>2 DEF UserManages, Change
  <2> DEFINE b == ~tree.conns[c].managed
             f == [managed |-> b]
  <2>3. DOMAIN f = {"managed"} /\ IsFcn(f, {"managed"})
    BY OneField
  <2>4. f.managed \in BOOLEAN
    OBVIOUS
  <2>5. Tell("conn", c, f)
    BY <2>1
  <2> HIDE DEF f
  <2>6. DOMAIN f \subseteq ConnFields \ {"st"}
    BY <2>3 DEF ConnFields
  <2> QED BY <2>1, <2>2, <2>3, <2>4, <2>5, <2>6, TellConn
<1>3. CASE UserCreates
  <2>1. PICK c \in Conn, s \in scope.sets :
          /\ tree' = [tree EXCEPT !.conns[c] = [NoConn EXCEPT !.st = "live", !.managed = TRUE, !.set = s]]
          /\ ever' = ever \cup {c}
    BY <1>3 DEF UserCreates
  <2>2. events' = events + 1 /\ queue' = Append(queue, Edge) /\ UNCHANGED <<nm, cfg, gone, run>>
    BY <1>3 DEF UserCreates, Change
  <2> DEFINE r == [NoConn EXCEPT !.st = "live", !.managed = TRUE, !.set = s]
  <2>3. IsConn(r)
    BY DEF NoConn, IsConn, IsFcn, ConnFields
  <2> HIDE DEF r
  <2>4. tree' = [tree EXCEPT !.conns[c] = r]
    BY <2>1 DEF r
  <2>5. Tree(tree, ever') /\ Queue(queue, ever') /\ c \in ever'
    BY <1>0, <2>1, MoreManaged
  <2>6. Tree(tree', ever')
    BY <2>3, <2>4, <2>5, OneConn
  <2>7. Queue(queue', ever') /\ Edge \in ToSet(queue')
    BY <2>2, <2>5, EdgeMsg, QueueAppend
  <2> QED BY <2>1, <2>2, <2>6, <2>7, Counted
<1>4. CASE UserDeletes
  <2>1. events' = events + 1 /\ queue' = Append(queue, Edge) /\ UNCHANGED <<nm, cfg, gone, run, ever>>
    BY <1>4 DEF UserDeletes, Change
  <2>2. Queue(queue', ever') /\ Edge \in ToSet(queue')
    BY <1>0, <2>1, EdgeMsg, QueueAppend
  <2>3. Tree(tree', ever')
    <3>1. CASE \E c \in scope.conns : tree' = [tree EXCEPT !.conns[c].st = "deleted"]
      <4>1. PICK c \in Conn : tree' = [tree EXCEPT !.conns[c].st = "deleted"]
        BY <3>1
      <4> DEFINE r == [tree.conns[c] EXCEPT !.st = "deleted"]
      <4>2. IsConn(r) /\ r.managed = tree.conns[c].managed
        BY <1>0, SetField
      <4>3. tree' = [tree EXCEPT !.conns[c] = r]
        BY <1>0, <4>1 DEF IsFcn
      <4> HIDE DEF r
      <4>4. r.managed => c \in ever
        BY <1>0, <4>2
      <4> QED BY <1>0, <2>1, <4>2, <4>3, <4>4, OneConn
    <3>2. CASE tree' = [tree EXCEPT !.dev.st = "deleted"]
      <4>1. IsFcn(tree', {"node", "conns", "dev", "ghost"}) /\ tree'.conns = tree.conns
            /\ tree'.node = tree.node
        BY <1>0, <3>2 DEF IsFcn
      <4> QED BY <1>0, <2>1, <4>1, SameConns
    <3> QED BY <1>4, <3>1, <3>2 DEF UserDeletes
  <2> QED BY <2>1, <2>2, <2>3, Counted
<1>5. CASE UserSets
  <2>1. UNCHANGED ever /\ events' = events + 1
    BY <1>5 DEF UserSets, Change
  <2>2. \E f : /\ Tell("node", "", f) /\ IsFcn(f, DOMAIN f) /\ DOMAIN f \subseteq NodeFields
               /\ "disabled" \in DOMAIN f => f.disabled \in BOOLEAN
    <3>1. CASE Tell("node", "", [disabled |-> ~tree.node.disabled])
      <4> DEFINE b == ~tree.node.disabled
                 f == [disabled |-> b]
      <4>1. DOMAIN f = {"disabled"} /\ IsFcn(f, {"disabled"})
        BY OneField
      <4>2. f.disabled \in BOOLEAN /\ Tell("node", "", f)
        BY <3>1
      <4> HIDE DEF f
      <4> QED BY <4>1, <4>2 DEF NodeFields
    <3>2. CASE Tell("node", "", [scan |-> TRUE])
      <4> DEFINE f == [scan |-> TRUE]
      <4>1. DOMAIN f = {"scan"} /\ IsFcn(f, {"scan"})
        BY OneField
      <4> HIDE DEF f
      <4> QED BY <3>2, <4>1 DEF NodeFields, f
    <3>3. CASE Tell("node", "", [host |-> "user"])
      <4> DEFINE f == [host |-> "user"]
      <4>1. DOMAIN f = {"host"} /\ IsFcn(f, {"host"})
        BY OneField
      <4> HIDE DEF f
      <4> QED BY <3>3, <4>1 DEF NodeFields, f
    <3>4. CASE Tell("node", "", [wifi |-> IF tree.node.wifi = "on" THEN "off" ELSE "on"])
      <4> DEFINE w == IF tree.node.wifi = "on" THEN "off" ELSE "on"
                 f == [wifi |-> w]
      <4>1. DOMAIN f = {"wifi"} /\ IsFcn(f, {"wifi"})
        BY OneField
      <4> HIDE DEF f
      <4> QED BY <3>4, <4>1 DEF NodeFields, f
    <3> QED BY <1>5, <3>1, <3>2, <3>3, <3>4 DEF UserSets
  <2> QED BY <2>1, <2>2, TellNode
<1> QED BY <1>1, <1>2, <1>3, <1>4, <1>5

\* What NetworkManager does by itself.
LEMMA NMStep ==
    ASSUME Inv, scope.conns \subseteq Conn, NMConnection \/ NMDevice \/ NMState
    PROVE  Inv' /\ Spares
<1>0. /\ NMShape(nm) /\ RunShape(run) /\ IsNMConns(nm.conns) /\ IsFcn(nm.conns, Conn)
      /\ \A c \in Conn : IsNMConn(nm.conns[c])
      /\ IsFcn(nm, {"up", "conns", "dev", "aps", "host", "wifi", "net"})
  BY DEF Inv, NMShape, IsNMConns
<1>1. ASSUME NEW sort, NEW new, NMChange(sort, new), NMShape(new)
      PROVE  Inv' /\ Spares
  <2>1. /\ events' = events + 1 /\ nm' = new /\ run' = Noted(run, nm.up /\ new.up)
        /\ UNCHANGED <<tree, cfg, gone, queue, ever>>
    BY <1>1 DEF NMChange, Change
  <2>2. RunShape(run')
    BY <1>0, <2>1, RunShapes
  <2>3. Spares
    BY <2>1 DEF Inv, Spares
  <2> QED BY <1>1, <2>1, <2>2, <2>3 DEF Inv
<1>2. CASE NMConnection
  <2>1. PICK c \in Conn :
          \/ NMChange("nmConn", [nm EXCEPT !.conns[c] = NoNMConn])
          \/ \E s \in scope.sets :
                NMChange("nmConn", [nm EXCEPT !.conns[c].there = TRUE, !.conns[c].dbus = ConnDBus(s)])
          \/ NMChange("nmConn", [nm EXCEPT !.conns[c].active = TRUE, !.conns[c].last = 1 - @])
    BY <1>2 DEF NMConnection
  <2>2. ASSUME NEW r, IsNMConn(r) PROVE NMShape([nm EXCEPT !.conns[c] = r])
    <3> DEFINE g == [nm.conns EXCEPT ![c] = r]
    <3>1. IsNMConns(g)
      BY <1>0, <2>2, NMReplaced
    <3>2. [nm EXCEPT !.conns[c] = r] = [nm EXCEPT !.conns = g]
      BY <1>0
    <3> HIDE DEF g
    <3>3. NMShape([nm EXCEPT !.conns = g])
      BY <1>0, <3>1, NMConns
    <3> QED BY <3>2, <3>3
  <2>3. CASE NMChange("nmConn", [nm EXCEPT !.conns[c] = NoNMConn])
    <3>1. NMShape([nm EXCEPT !.conns[c] = NoNMConn])
      BY <2>2, NoNMConnShape
    <3> QED BY <1>1, <2>3, <3>1
  <2>4. ASSUME NEW s \in scope.sets,
               NMChange("nmConn", [nm EXCEPT !.conns[c].there = TRUE, !.conns[c].dbus = ConnDBus(s)])
        PROVE  Inv' /\ Spares
    <3> DEFINE r == [nm.conns[c] EXCEPT !.there = TRUE, !.dbus = ConnDBus(s)]
    <3>1. IsNMConn(r)
      BY <1>0 DEF IsNMConn, IsFcn
    <3>2. [nm EXCEPT !.conns[c].there = TRUE, !.conns[c].dbus = ConnDBus(s)] = [nm EXCEPT !.conns[c] = r]
      BY <1>0 DEF IsFcn
    <3> HIDE DEF r
    <3>3. NMShape([nm EXCEPT !.conns[c] = r])
      BY <2>2, <3>1
    <3> QED BY <1>1, <2>4, <3>2, <3>3
  <2>5. CASE NMChange("nmConn", [nm EXCEPT !.conns[c].active = TRUE, !.conns[c].last = 1 - @])
    <3> DEFINE l == 1 - nm.conns[c].last
               r == [nm.conns[c] EXCEPT !.active = TRUE, !.last = l]
    <3>1. IsNMConn(r)
      <4> HIDE DEF l
      <4> QED BY <1>0 DEF IsNMConn, IsFcn
    <3>2. [nm EXCEPT !.conns[c].active = TRUE, !.conns[c].last = 1 - @] = [nm EXCEPT !.conns[c] = r]
      BY <1>0 DEF IsFcn
    <3> HIDE DEF r
    <3>3. NMShape([nm EXCEPT !.conns[c] = r])
      BY <2>2, <3>1
    <3> QED BY <1>1, <2>5, <3>2, <3>3
  <2> QED BY <2>1, <2>3, <2>4, <2>5
<1>3. CASE NMDevice
  <2>1. ASSUME NEW v PROVE NMShape([nm EXCEPT !.dev.there = TRUE, !.dev.info = v])
    BY <1>0 DEF NMShape, IsFcn
  <2>2. NMShape([nm EXCEPT !.dev.there = ~@])
    BY <1>0 DEF NMShape, IsFcn
  <2>3. ASSUME NEW v PROVE NMShape([nm EXCEPT !.aps = v])
    BY <1>0 DEF NMShape, IsFcn
  <2> QED BY <1>1, <1>3, <2>1, <2>2, <2>3 DEF NMDevice
<1>4. CASE NMState
  <2>1. NMShape([nm EXCEPT !.host = "nm2"])
    BY <1>0 DEF NMShape, IsFcn
  <2>2. NMShape([nm EXCEPT !.net = IF @ = "on" THEN "off" ELSE "on"])
    BY <1>0 DEF NMShape, IsFcn
  <2>3. NMShape([nm EXCEPT !.up = ~@])
    BY <1>0 DEF NMShape, IsFcn
  <2> QED BY <1>1, <1>4, <2>1, <2>2, <2>3 DEF NMState
<1> QED BY <1>2, <1>3, <1>4

-----------------------------------------------------------------------------
(* The theorem *)

\* At the start there are no connections.
LEMMA InitInv ==
    ASSUME Init
    PROVE  Inv
<1> DEFINE g == [c \in Conn |-> NoConn]
           h == [c \in Conn |-> NoNMConn]
           n == [disabled |-> FALSE, scan |-> FALSE, host |-> "", wifi |-> "nil", net |-> "nil"]
<1>1. IsFcn(g, Conn) /\ \A c \in Conn : IsConn(g[c]) /\ ~g[c].managed
  BY NoConnShape DEF IsFcn
<1>2. IsNMConns(h)
  BY NoNMConnShape DEF IsNMConns, IsFcn
<1>3. IsNode(n)
  BY DEF IsNode, IsFcn, NodeFields
<1>4. tree.node = n /\ tree.conns = g /\ IsFcn(tree, {"node", "conns", "dev", "ghost"})
  BY DEF Init, IsFcn
<1>5. nm.conns = h /\ IsFcn(nm, {"up", "conns", "dev", "aps", "host", "wifi", "net"})
  BY DEF Init, IsFcn
<1>6. cfg.node = tree.node /\ IsFcn(cfg, {"node", "conns", "dev", "ghost"})
      /\ cfg.conns = [c \in Conn |-> IF tree.conns[c].st = "live" THEN tree.conns[c] ELSE NoConn]
  BY DEF Init, Loaded, IsFcn
<1>7. run.todo = {} /\ run.found = h
      /\ IsFcn(run, {"pc", "todo", "found", "doSync", "timer", "sub", "sig"})
  BY DEF Init, Idle, IsFcn
<1>8. \A c \in Conn : tree.conns[c].st = "none"
  BY <1>4, NoConnShape
<1> HIDE DEF g, h, n
<1>9. cfg.conns = g
  BY <1>6, <1>8 DEF g
<1>10. Tree(tree, ever) /\ Tree(cfg, ever)
  BY <1>1, <1>3, <1>4, <1>6, <1>9 DEF Tree
<1>11. NMShape(nm) /\ RunShape(run)
  BY <1>2, <1>5, <1>7 DEF NMShape, RunShape
<1>12. Queue(queue, ever)
  BY QueueEdges DEF Init
<1>13. gone \subseteq ever /\ events \in Int
  <2>1. gone = {} /\ events = 0
    BY Zenon DEF Init
  <2> QED BY <2>1
<1>14. Knows(tree, cfg.node.disabled, queue, gone)
  BY <1>8 DEF Knows
<1> QED BY <1>10, <1>11, <1>12, <1>13, <1>14 DEF Inv

\* No step changes what is explored.
LEMMA ScopeStays ==
    ASSUME Next
    PROVE  scope' = scope
<1>1. ASSUME Receive \/ Restart \/ Respawn \/ SyncTick \/ Signal \/ DelayOver PROVE scope' = scope
  BY <1>1 DEF Receive, Restart, Respawn, StartClient, SyncTick, Signal, DelayOver
<1>2. ASSUME SyncList PROVE scope' = scope
  BY <1>2, Zenon DEF SyncList, Die
<1>3. ASSUME SyncConn PROVE scope' = scope
  BY <1>3 DEF SyncConn
<1>4. ASSUME SyncDevices PROVE scope' = scope
  BY <1>4 DEF SyncDevices, Die
<1>5. ASSUME SyncHostname \/ Scan PROVE scope' = scope
  BY <1>5 DEF SyncHostname, Scan, Die
<1>6. ASSUME UserEdits \/ UserManages \/ UserCreates \/ UserDeletes \/ UserSets PROVE scope' = scope
  BY <1>6 DEF UserEdits, UserManages, UserCreates, UserDeletes, UserSets, Tell
<1>7. ASSUME NMConnection \/ NMDevice \/ NMState PROVE scope' = scope
  BY <1>7 DEF NMConnection, NMDevice, NMState, NMChange
<1> QED BY <1>1, <1>2, <1>3, <1>4, <1>5, <1>6, <1>7 DEF Next

\* Every step keeps the invariant and spares what it must.
LEMMA NextStep ==
    ASSUME Inv, scope \in Scopes, Next
    PROVE  Inv' /\ Spares /\ scope' \in Scopes
<1>1. scope.conns \subseteq Conn
  BY ScopesAssumption
<1>2. scope' \in Scopes
  BY ScopeStays
<1> SUFFICES Inv' /\ Spares
  BY <1>2
<1>3. CASE Receive
  BY <1>3, ReceiveStep
<1>4. CASE Restart \/ Respawn \/ SyncTick \/ Signal \/ DelayOver
  BY <1>4, SelectStep
<1>5. CASE SyncList
  BY <1>5, SyncListStep
<1>6. CASE SyncConn
  BY <1>6, SyncConnStep
<1>7. CASE SyncDevices
  BY <1>7, SyncDevicesStep
<1>8. CASE SyncHostname
  BY <1>8, SyncHostnameStep
<1>9. CASE Scan
  BY <1>9, ScanStep
<1>10. CASE UserEdits \/ UserManages \/ UserCreates \/ UserDeletes \/ UserSets
  BY <1>1, <1>10, UserStep
<1>11. CASE NMConnection \/ NMDevice \/ NMState
  BY <1>1, <1>11, NMStep
<1> QED BY <1>2, <1>3, <1>4, <1>5, <1>6, <1>7, <1>8, <1>9, <1>10, <1>11 DEF Next

\* network-manager.go, "unmanaged NetworkManager connections will not be updated or deleted
\* by SimpleIoT": no step of the client changes a connection that no user has ever had
\* managed; and a managed connection that was deleted in the tree does not come back once
\* the client has started again.
THEOREM UnmanagedUntouched == Spec => Untouched
<1> DEFINE I == Inv /\ scope \in Scopes
<1>1. Init => I
  BY InitInv DEF Init
<1>2. I /\ [Next]_vars => I' /\ [Spares]_vars
  <2>1. ASSUME I, Next PROVE I' /\ Spares
    BY <2>1, NextStep
  <2>2. ASSUME I, UNCHANGED vars PROVE I'
    BY <2>2 DEF vars, Inv, Tree, NMShape, RunShape, Queue, Knows
  <2> QED BY <2>1, <2>2
<1> HIDE DEF I
<1>3. Init /\ [][Next]_vars => [][Spares]_vars
  BY <1>1, <1>2, PTL
<1>4. Spec => [][Spares]_vars
  BY <1>3, PTL DEF Spec
<1>5. Untouched <=> [][Spares]_vars
  BY PTL DEF Untouched, Spares
<1> QED BY <1>4, <1>5, PTL

=============================================================================
