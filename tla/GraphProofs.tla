----------------------------- MODULE GraphProofs -----------------------------
(***************************************************************************)
(* The graph of nodes: what the walks along the edges come to, and that    *)
(* the incrementally updated hashes of a tree are right (HashInv).         *)
(***************************************************************************)
EXTENDS StoreProofs, FiniteSetTheorems

-----------------------------------------------------------------------------
(* Induction, with a set of numbers in place of a predicate *)

\* A set of numbers that has 0 and every successor has all of them.
LEMMA NatSetInduction ==
    ASSUME NEW S \in SUBSET Nat, 0 \in S, \A n \in S : n + 1 \in S
    PROVE  S = Nat
<1> DEFINE T == Nat \ S
           R == {ss \in Nat \X Nat : ss[1] < ss[2]}
<1>1. IsWellFoundedOn(R, Nat)
  BY NatLessThanWellFounded DEF OpToRel
<1>2. SUFFICES ASSUME T # {} PROVE FALSE
  OBVIOUS
<1>3. PICK x \in T : \A y \in T : <<y, x>> \notin R
  <2> HIDE DEF R
  <2>1. T \subseteq Nat
    OBVIOUS
  <2> HIDE DEF T
  <2> QED
    BY <1>1, <1>2, <2>1, WFMin
<1>4. x \in Nat /\ x # 0 /\ x - 1 \in Nat
  OBVIOUS
<1>5. x - 1 \notin T
  <2>1. <<x - 1, x>> \in R
    BY <1>4
  <2> HIDE DEF R, T
  <2> QED
    BY <1>3, <2>1
<1>6. (x - 1) + 1 \in S
  BY <1>4, <1>5
<1> QED
  BY <1>4, <1>6

\* The step from the nodes a walk enters at one depth to those it enters at
\* the next.
Above(E, N) == {u \in Node : \E n \in N : <<u, n>> \in E}

\* The equation of Reach for walks of up to n steps.
IsReach(g, E, id, n) ==
    g = [k \in 0 .. n |-> IF k = 0 THEN {id} ELSE Above(E, g[k-1])]

\* The recursion of updateHashHelper is well founded: for every depth there
\* is a function that satisfies its equation.
LEMMA ReachExists ==
    ASSUME NEW E, NEW id
    PROVE  \A n \in Nat : \E g : IsReach(g, E, id, n)
<1> DEFINE S == {n \in Nat : \E g : IsReach(g, E, id, n)}
<1>1. 0 \in S
  <2>1. IsReach([k \in 0 .. 0 |-> {id}], E, id, 0)
    BY DEF IsReach
  <2> QED
    BY <2>1
<1>2. ASSUME NEW n \in S PROVE n + 1 \in S
  <2>1. PICK g : IsReach(g, E, id, n)
    OBVIOUS
  <2> DEFINE h == [k \in 0 .. n + 1 |-> IF k = n + 1 THEN Above(E, g[n]) ELSE g[k]]
  <2>2. \A k \in 0 .. n : h[k] = g[k]
    OBVIOUS
  <2>3. \A k \in 0 .. n + 1 :
            h[k] = IF k = 0 THEN {id} ELSE Above(E, h[k-1])
    <3> TAKE k \in 0 .. n + 1
    <3>1. CASE k = 0
      BY <2>1, <2>2, <3>1 DEF IsReach
    <3>2. CASE k = n + 1
      <4>1. h[k-1] = g[n]
        BY <2>2, <3>2
      <4> QED
        BY <3>2, <4>1
    <3>3. CASE k \in 1 .. n
      <4>1. k - 1 \in 0 .. n /\ k \in 0 .. n /\ k # 0
        BY <3>3
      <4>2. g[k] = Above(E, g[k-1])
        BY <2>1, <4>1 DEF IsReach
      <4> QED
        BY <2>2, <4>1, <4>2
    <3> QED
      BY <3>1, <3>2, <3>3
  <2>4. IsReach(h, E, id, n + 1)
    <3> DEFINE f == [k \in 0 .. n + 1 |-> IF k = 0 THEN {id} ELSE Above(E, h[k-1])]
    <3>1. h = f
      BY <2>3
    <3> QED
      BY <3>1 DEF IsReach
  <2> QED
    BY <2>4
<1>3. S \in SUBSET Nat
  OBVIOUS
<1> HIDE DEF S
<1>4. S = Nat
  BY <1>1, <1>2, <1>3, NatSetInduction
<1> QED
  BY <1>4 DEF S

\* Reach satisfies its equation.
LEMMA ReachIs ==
    ASSUME NEW E, NEW id, Cardinality(Node) \in Nat
    PROVE  IsReach(Reach(E, id), E, id, Cardinality(Node))
<1>1. \E g : IsReach(g, E, id, Cardinality(Node))
  BY ReachExists
<1> QED
  BY <1>1, Zenon DEF IsReach, Above, Reach

\* What Reach is, depth by depth.
LEMMA ReachDef ==
    ASSUME NEW E, NEW id, Cardinality(Node) \in Nat
    PROVE  /\ Reach(E, id)[0] = {id}
           /\ \A k \in 1 .. Cardinality(Node) :
                  Reach(E, id)[k] = Above(E, Reach(E, id)[k-1])
<1> DEFINE M == Cardinality(Node)
           R == Reach(E, id)
           F == [k \in 0 .. M |-> IF k = 0 THEN {id} ELSE Above(E, R[k-1])]
<1>1. IsReach(R, E, id, M) /\ M \in Nat
  BY ReachIs
<1> HIDE DEF M, R
<1>2. R = F
  BY <1>1, Zenon DEF IsReach
<1>3. F[0] = {id} /\ \A k \in 1 .. M : F[k] = Above(E, R[k-1])
  BY <1>1
<1> HIDE DEF F
<1>4. R[0] = {id} /\ \A k \in 1 .. M : R[k] = Above(E, R[k-1])
  BY <1>2, <1>3
<1> QED
  BY <1>4 DEF R, M

-----------------------------------------------------------------------------
(* Cycles *)

\* Nodes each of which has a parent among them: there is a cycle.
Circle(E, C) ==
    /\ C \in SUBSET Node /\ C # {}
    /\ \A c \in C : \E u \in C : <<u, c>> \in E

\* A walk that starts in a circle never ends.
LEMMA CircleDiverges ==
    ASSUME IsFiniteSet(Node), NEW E, NEW C, Circle(E, C), NEW n \in C
    PROVE  Diverges(E, n)
<1> DEFINE M == Cardinality(Node)
           R == Reach(E, n)
           S == {k \in Nat : k =< M => R[k] \cap C # {}}
<1>1. M \in Nat
  BY FS_CardinalityType
<1>2. R[0] = {n} /\ \A k \in 1 .. M : R[k] = Above(E, R[k-1])
  BY <1>1, ReachDef
<1> HIDE DEF M, R
<1>3. 0 \in S
  BY <1>2
<1>4. ASSUME NEW k \in S PROVE k + 1 \in S
  <2>1. SUFFICES ASSUME k + 1 =< M PROVE R[k+1] \cap C # {}
    OBVIOUS
  <2>2. PICK c : c \in R[k] /\ c \in C
    BY <1>1, <2>1
  <2>3. PICK u \in C : <<u, c>> \in E
    BY <2>2 DEF Circle
  <2>4. R[k+1] = Above(E, R[k])
    BY <1>1, <1>2, <2>1
  <2>5. u \in R[k+1]
    BY <2>2, <2>3, <2>4 DEF Above, Circle
  <2> QED
    BY <2>5
<1>5. S \in SUBSET Nat
  OBVIOUS
<1>6. S = Nat
  <2> HIDE DEF S
  <2> QED BY <1>3, <1>4, <1>5, NatSetInduction
<1>7. M \in S
  BY <1>1, <1>6
<1> QED
  BY <1>1, <1>7 DEF M, R, Diverges

\* A path of k steps up from n, ending at u.
IsPath(p, E, n, k, u) ==
    /\ p \in [0 .. k -> Node] /\ p[0] = n /\ p[k] = u
    /\ \A t \in 0 .. k - 1 : <<p[t+1], p[t]>> \in E

\* Whatever a walk enters at depth k is at the end of a path of k steps.
LEMMA ReachPath ==
    ASSUME IsFiniteSet(Node), NEW E, NEW n \in Node,
           NEW k \in 0 .. Cardinality(Node), NEW u \in Reach(E, n)[k]
    PROVE  \E p : IsPath(p, E, n, k, u)
<1> DEFINE M == Cardinality(Node)
           R == Reach(E, n)
           S == {j \in Nat : j =< M => \A v \in R[j] : \E p : IsPath(p, E, n, j, v)}
<1>1. M \in Nat
  BY FS_CardinalityType
<1>2. R[0] = {n} /\ \A j \in 1 .. M : R[j] = Above(E, R[j-1])
  BY <1>1, ReachDef
<1> HIDE DEF R
<1>3. 0 \in S
  <2>1. IsPath([t \in 0 .. 0 |-> n], E, n, 0, n)
    BY DEF IsPath
  <2> QED
    BY <1>2, <2>1
<1>4. ASSUME NEW j \in S PROVE j + 1 \in S
  <2>1. SUFFICES ASSUME j + 1 =< M, NEW v \in R[j+1]
                 PROVE  \E p : IsPath(p, E, n, j + 1, v)
    OBVIOUS
  <2>2. R[j+1] = Above(E, R[j])
    BY <1>1, <1>2, <2>1
  <2>3. PICK w \in R[j] : <<v, w>> \in E
    BY <2>2 DEF Above
  <2>4. v \in Node
    BY <2>2 DEF Above
  <2>5. PICK p : IsPath(p, E, n, j, w)
    BY <1>1, <2>1, <2>3
  <2> DEFINE q == [t \in 0 .. j + 1 |-> IF t = j + 1 THEN v ELSE p[t]]
  <2>6. q \in [0 .. j + 1 -> Node] /\ q[0] = n /\ q[j+1] = v
    BY <2>4, <2>5 DEF IsPath
  <2>7. \A t \in 0 .. j : q[t] = p[t]
    OBVIOUS
  <2>8. ASSUME NEW t \in 0 .. j PROVE <<q[t+1], q[t]>> \in E
    <3>1. CASE t = j
      <4>1. q[t+1] = v /\ q[t] = w
        BY <2>5, <2>6, <2>7, <3>1 DEF IsPath
      <4> QED
        BY <2>3, <4>1
    <3>2. CASE t # j
      <4>1. t \in 0 .. j - 1 /\ t + 1 \in 0 .. j
        BY <3>2
      <4>2. <<p[t+1], p[t]>> \in E
        BY <2>5, <4>1 DEF IsPath
      <4> QED
        BY <2>7, <4>1, <4>2
    <3> QED
      BY <3>1, <3>2
  <2>9. IsPath(q, E, n, j + 1, v)
    <3> HIDE DEF q
    <3>1. (j + 1) - 1 = j
      OBVIOUS
    <3> QED
      BY <2>6, <2>8, <3>1 DEF IsPath
  <2> QED
    BY <2>9
<1>5. S \in SUBSET Nat
  OBVIOUS
<1>6. S = Nat
  <2> HIDE DEF S
  <2> QED BY <1>3, <1>4, <1>5, NatSetInduction
<1> QED
  BY <1>1, <1>6 DEF R

\* A walk that never ends has met a circle: among more nodes than there are,
\* one comes twice.
LEMMA DivergesCircle ==
    ASSUME IsFiniteSet(Node), NEW E, NEW n \in Node, Diverges(E, n)
    PROVE  \E C : Circle(E, C)
<1> DEFINE M == Cardinality(Node)
<1>1. M \in Nat
  BY FS_CardinalityType
<1>2. PICK u : u \in Reach(E, n)[M]
  BY DEF Diverges
<1>3. PICK p : IsPath(p, E, n, M, u)
  BY <1>1, <1>2, ReachPath
<1>4. IsFiniteSet(0 .. M) /\ Cardinality(0 .. M) = M + 1
  BY <1>1, FS_Interval
<1>5. p \in [0 .. M -> Node] /\ \A t \in 0 .. M - 1 : <<p[t+1], p[t]>> \in E
  BY <1>3 DEF IsPath
<1>6. \E x, y \in 0 .. M : x # y /\ p[x] = p[y]
  BY <1>1, <1>4, <1>5, FS_PigeonHole
<1> HIDE DEF M
<1>7. PICK i \in 0 .. M, j \in 0 .. M : i < j /\ p[i] = p[j]
  BY <1>1, <1>6
<1> DEFINE C == {p[t] : t \in i .. j - 1}
<1>8. C \in SUBSET Node /\ C # {}
  BY <1>1, <1>5, <1>7
<1>9. ASSUME NEW c \in C PROVE \E v \in C : <<v, c>> \in E
  <2>1. PICK t \in i .. j - 1 : c = p[t]
    OBVIOUS
  <2>2. <<p[t+1], p[t]>> \in E
    BY <1>1, <1>5, <1>7, <2>1
  <2>3. p[t+1] \in C
    <3>1. CASE t = j - 1
      <4>1. p[t+1] = p[i] /\ i \in i .. j - 1
        BY <1>1, <1>7, <3>1
      <4> QED
        BY <4>1
    <3>2. CASE t # j - 1
      BY <1>1, <1>7, <3>2
    <3> QED
      BY <3>1, <3>2
  <2> QED
    BY <2>1, <2>2, <2>3
<1>10. Circle(E, C)
  <2> HIDE DEF C
  <2> QED BY <1>8, <1>9 DEF Circle
<1> QED
  BY <1>10

\* Acyclic, which follows walks, says that there is no circle.
LEMMA AcyclicNoCircle ==
    ASSUME IsFiniteSet(Node), NEW E
    PROVE  Acyclic(E) <=> \A C : ~Circle(E, C)
<1>1. ASSUME Acyclic(E), NEW C, Circle(E, C) PROVE FALSE
  <2>1. PICK n \in C : n \in Node
    BY <1>1 DEF Circle
  <2> QED
    BY <1>1, <2>1, CircleDiverges DEF Acyclic
<1>2. ASSUME \A C : ~Circle(E, C) PROVE Acyclic(E)
  BY <1>2, DivergesCircle DEF Acyclic
<1> QED
  BY <1>1, <1>2

-----------------------------------------------------------------------------
(* The graph stays acyclic *)

\* An edge that does not make the walk from its lower end endless closes no
\* circle.
LEMMA AddedEdge ==
    ASSUME IsFiniteSet(Node), NEW E, Acyclic(E), NEW e,
           ~Diverges(E \cup {e}, e[2])
    PROVE  Acyclic(E \cup {e})
<1>1. SUFFICES ASSUME NEW C, Circle(E \cup {e}, C) PROVE FALSE
  BY AcyclicNoCircle
<1>2. CASE e[2] \in C
  BY <1>1, <1>2, CircleDiverges
<1>3. CASE e[2] \notin C
  <2>1. \A u, c : <<u, c>> = e => c = e[2]
    OBVIOUS
  <2>2. Circle(E, C)
    BY <1>1, <1>3, <2>1 DEF Circle
  <2> QED
    BY <2>2, AcyclicNoCircle
<1> QED
  BY <1>2, <1>3

\* What initRoot leaves has no circle: nothing is above the root node.
LEMMA DagInit ==
    ASSUME IsFiniteSet(Node), Init
    PROVE  Dag
<1>1. db.edges = {<<"root", Root>>, <<Root, Admin>>}
  BY InitRootDB DEF Init
<1>2. SUFFICES ASSUME NEW C, Circle(db.edges, C) PROVE FALSE
  BY AcyclicNoCircle DEF Dag
<1>3. "root" \notin C /\ Root # Admin
  BY <1>2, DbAssumption, StoreAssumption DEF Circle
<1>4. Root \notin C
  BY <1>1, <1>2, <1>3 DEF Circle
<1>5. C = {}
  BY <1>1, <1>2, <1>3, <1>4 DEF Circle
<1> QED
  BY <1>2, <1>5 DEF Circle

\* A step of the store leaves the edges alone, or adds the one edge of an
\* edge message for which the hash walk ends.
LEMMA EdgesStep ==
    ASSUME TInv, [Next]_vars
    PROVE  \/ db'.edges = db.edges
           \/ /\ EdgeCommit
              /\ db'.edges = db.edges \cup {PlaceOf(edgeH.msg)}
              /\ ~Diverges(db.edges \cup {PlaceOf(edgeH.msg)}, edgeH.msg.id)
<1>1. CASE db' = db
  BY <1>1
<1>2. ASSUME NEW now \in Time,
             NodeWritten(db, db', nodeH.msg.id, nodeH.msg.pts, now)
      PROVE  db'.edges = db.edges
  BY <1>2 DEF NodeWritten
<1>3. ASSUME EdgeCommit, NEW now \in Time,
             EdgeWritten(db, db', edgeH.msg.id, edgeH.msg.parent, edgeH.msg.pts, now)
      PROVE  /\ db'.edges = db.edges \cup {PlaceOf(edgeH.msg)}
             /\ ~Diverges(db.edges \cup {PlaceOf(edgeH.msg)}, edgeH.msg.id)
  BY <1>3 DEF EdgeWritten, EdgeCommit, EndlessHash, PlaceOf
<1> QED
  BY <1>1, <1>2, <1>3, DbStep

\* No step of the store closes a circle.
LEMMA DagStep ==
    ASSUME IsFiniteSet(Node), TInv, Dag, [Next]_vars
    PROVE  Dag'
<1>1. CASE db'.edges = db.edges
  BY <1>1 DEF Dag
<1>2. CASE /\ db'.edges = db.edges \cup {PlaceOf(edgeH.msg)}
           /\ ~Diverges(db.edges \cup {PlaceOf(edgeH.msg)}, edgeH.msg.id)
  <2>1. PlaceOf(edgeH.msg)[2] = edgeH.msg.id
    BY DEF PlaceOf
  <2> QED
    BY <1>2, <2>1, AddedEdge DEF Dag
<1> QED
  BY <1>1, <1>2, EdgesStep

\* edgePoints, updateHashHelper: however clients mirror and move nodes, the
\* committed edges never form a cycle, for any finite number of nodes.
THEOREM GraphStaysAcyclic ==
    ASSUME IsFiniteSet(Node)
    PROVE  Spec => []Dag
<1>1. TInv /\ Dag /\ [Next]_vars => Dag'
  BY DagStep
<1>2. Init => Dag
  BY DagInit
<1> QED
  BY <1>1, <1>2, TypeInvariant, PTL DEF Spec

-----------------------------------------------------------------------------
(* Ancestors *)

\* The ancestors lie in every set that has the node and, with a node, the
\* parents of it.
LEMMA AncestorsLeast ==
    ASSUME IsFiniteSet(Node), NEW E, NEW n, NEW T, n \in T,
           \A u, x : x \in T /\ <<u, x>> \in E => u \in T,
           E \in SUBSET EdgeId
    PROVE  Ancestors(E, n) \subseteq T
<1> DEFINE M == Cardinality(Node)
           R == Reach(E, n)
           S == {k \in Nat : k =< M => R[k] \subseteq T}
<1>1. M \in Nat
  BY FS_CardinalityType
<1>2. R[0] = {n} /\ \A k \in 1 .. M : R[k] = Above(E, R[k-1])
  BY <1>1, ReachDef
<1> HIDE DEF M, R
<1>3. 0 \in S
  BY <1>2
<1>4. ASSUME NEW k \in S PROVE k + 1 \in S
  <2>1. SUFFICES ASSUME k + 1 =< M PROVE R[k+1] \subseteq T
    OBVIOUS
  <2>2. R[k+1] = Above(E, R[k]) /\ R[k] \subseteq T
    BY <1>1, <1>2, <2>1
  <2> QED
    BY <2>2 DEF Above
<1>5. S \in SUBSET Nat
  OBVIOUS
<1>6. S = Nat
  <2> HIDE DEF S
  <2> QED BY <1>3, <1>4, <1>5, NatSetInduction
<1>7. \A k \in 0 .. M : R[k] \subseteq T
  BY <1>1, <1>6
<1> DEFINE N == UNION {R[k] : k \in 0 .. M}
<1>8. N \subseteq T
  BY <1>7
<1>9. Ancestors(E, n) = N \cup {e[1] : e \in {e \in E : e[2] \in N}}
  BY DEF Ancestors, M, R
<1> HIDE DEF N
<1>10. ASSUME NEW e \in E, e[2] \in N PROVE e[1] \in T
  <2>1. e = <<e[1], e[2]>>
    BY DEF EdgeId
  <2> QED
    BY <1>8, <1>10, <2>1
<1> QED
  BY <1>8, <1>9, <1>10

\* Without cycles the ancestors of a node are the node and, with each one, its
\* parents.
LEMMA AncestorsClosed ==
    ASSUME IsFiniteSet(Node), NEW E \in SUBSET EdgeId, Acyclic(E), NEW n \in Node
    PROVE  /\ n \in Ancestors(E, n)
           /\ \A u, x : x \in Ancestors(E, n) /\ <<u, x>> \in E => u \in Ancestors(E, n)
<1> DEFINE M == Cardinality(Node)
           R == Reach(E, n)
           N == UNION {R[k] : k \in 0 .. M}
<1>1. M \in Nat
  BY FS_CardinalityType
<1>2. R[0] = {n} /\ \A k \in 1 .. M : R[k] = Above(E, R[k-1])
  BY <1>1, ReachDef
<1>3. R[M] = {}
  BY DEF Acyclic, Diverges
<1>4. Ancestors(E, n) = N \cup {e[1] : e \in {e \in E : e[2] \in N}}
  BY DEF Ancestors
<1> HIDE DEF M, R
<1>5. n \in N
  BY <1>1, <1>2
<1>6. ASSUME NEW u \in Node, NEW x \in N, <<u, x>> \in E PROVE u \in N
  <2>1. PICK k \in 0 .. M : x \in R[k]
    OBVIOUS
  <2>2. k + 1 \in 1 .. M /\ (k + 1) - 1 = k
    BY <1>1, <1>3, <2>1
  <2>3. R[k+1] = Above(E, R[k])
    BY <1>2, <2>2
  <2>4. u \in R[k+1] /\ k + 1 \in 0 .. M
    BY <1>1, <1>6, <2>1, <2>2, <2>3 DEF Above
  <2> QED
    BY <2>4
<1> HIDE DEF N
<1>7. ASSUME NEW u, NEW x, x \in Ancestors(E, n), <<u, x>> \in E
      PROVE  u \in Ancestors(E, n)
  <2>1. x \in Node
    BY <1>7 DEF EdgeId
  <2>2. x \in N
    <3>1. CASE x \in N
      BY <3>1
    <3>2. CASE x \notin N
      <4>1. PICK e \in E : e[2] \in N /\ x = e[1]
        BY <1>4, <1>7, <3>2
      <4>2. <<x, e[2]>> \in E
        BY <4>1 DEF EdgeId
      <4> QED
        BY <1>6, <2>1, <4>1, <4>2
    <3> QED
      BY <3>1, <3>2
  <2>3. <<u, x>>[1] = u /\ <<u, x>>[2] = x
    OBVIOUS
  <2> QED
    BY <1>4, <1>7, <2>2, <2>3
<1> QED
  BY <1>4, <1>5, <1>7

\* More edges, more ancestors.
LEMMA AncestorsGrow ==
    ASSUME IsFiniteSet(Node), NEW F \in SUBSET EdgeId, Acyclic(F),
           NEW E \in SUBSET F, NEW n \in Node
    PROVE  Ancestors(E, n) \subseteq Ancestors(F, n)
<1> DEFINE T == Ancestors(F, n)
<1>1. n \in T /\ \A u, x : x \in T /\ <<u, x>> \in F => u \in T
  BY AncestorsClosed
<1> HIDE DEF T
<1>2. E \in SUBSET EdgeId
  OBVIOUS
<1>3. Ancestors(E, n) \subseteq T
  BY <1>1, <1>2, AncestorsLeast
<1> QED
  BY <1>3 DEF T

-----------------------------------------------------------------------------
(* The walk upstream *)

\* The ancestors that wait on the stack of a walk.
Stacked(todo) == UNION {todo[i] : i \in DOMAIN todo}

\* The ancestors a walk has announced to or is going to.
Met(h) == h.told \cup Stacked(h.todo)

\* A walk over the edges E along those in V: it goes on to every parent, along
\* an edge that was there all the time, of a node it has told, and to nobody
\* else than ancestors.
Walks(h, E, V) ==
    /\ h.pc # "walk" => h.told = {}
    /\ h.pc = "walk" =>
           /\ h.live \subseteq V
           /\ h.msg.id \in Met(h)
           /\ \A e \in h.live : e[2] \in h.told => e[1] \in Met(h)
           /\ Met(h) \subseteq Ancestors(E, h.msg.id)

UpstreamInv == /\ Walks(nodeH, db.edges, LiveUp(db))
               /\ Walks(edgeH, db.edges, db.edges)

\* Pushing siblings adds them to those that wait.
LEMMA StackedPush ==
    ASSUME NEW S \in SUBSET Hop, NEW todo \in Seq(SUBSET Hop)
    PROVE  Stacked(Push(S, todo)) = S \cup Stacked(todo)
<1>1. CASE S = {}
  BY <1>1 DEF Push
<1>2. CASE S # {}
  <2> DEFINE p == <<S>> \o todo
  <2>1. /\ p \in Seq(SUBSET Hop) /\ Len(p) = Len(todo) + 1 /\ p[1] = S
        /\ \A i \in 1 .. Len(todo) : p[i+1] = todo[i]
    OBVIOUS
  <2>2. Push(S, todo) = p
    BY <1>2 DEF Push
  <2> HIDE DEF p
  <2>3. ASSUME NEW x \in Stacked(p) PROVE x \in S \cup Stacked(todo)
    <3>1. PICK i \in 1 .. Len(p) : x \in p[i]
      BY <2>1 DEF Stacked
    <3>2. CASE i = 1
      BY <2>1, <3>1, <3>2
    <3>3. CASE i # 1
      <4>1. i - 1 \in 1 .. Len(todo) /\ (i - 1) + 1 = i
        BY <2>1, <3>1, <3>3
      <4>2. i - 1 \in DOMAIN todo /\ x \in todo[i-1]
        BY <2>1, <3>1, <4>1
      <4> QED
        BY <4>2 DEF Stacked
    <3> QED
      BY <3>2, <3>3
  <2>4. ASSUME NEW x \in S \cup Stacked(todo) PROVE x \in Stacked(p)
    <3>1. CASE x \in S
      BY <2>1, <3>1 DEF Stacked
    <3>2. CASE x \in Stacked(todo)
      <4>1. PICK i \in 1 .. Len(todo) : x \in todo[i]
        BY <3>2 DEF Stacked
      <4>2. i + 1 \in DOMAIN p /\ x \in p[i+1]
        BY <2>1, <4>1
      <4> QED
        BY <4>2 DEF Stacked
    <3> QED
      BY <3>1, <3>2
  <2> QED
    BY <2>2, <2>3, <2>4
<1> QED
  BY <1>1, <1>2

\* Those that wait are the siblings on top and those below.
LEMMA StackedSplit ==
    ASSUME NEW todo \in Seq(SUBSET Hop), todo # <<>>
    PROVE  Stacked(todo) = Head(todo) \cup Stacked(Tail(todo))
<1> DEFINE t == Tail(todo)
<1>1. /\ t \in Seq(SUBSET Hop) /\ Len(todo) = Len(t) + 1 /\ todo[1] = Head(todo)
      /\ \A i \in 1 .. Len(t) : todo[i+1] = t[i]
  OBVIOUS
<1> HIDE DEF t
<1>2. ASSUME NEW x \in Stacked(todo) PROVE x \in Head(todo) \cup Stacked(t)
  <2>1. PICK i \in 1 .. Len(todo) : x \in todo[i]
    BY <1>1 DEF Stacked
  <2>2. CASE i = 1
    BY <1>1, <2>1, <2>2
  <2>3. CASE i # 1
    <3>1. i - 1 \in 1 .. Len(t) /\ (i - 1) + 1 = i
      BY <1>1, <2>1, <2>3
    <3>2. i - 1 \in DOMAIN t /\ x \in t[i-1]
      BY <1>1, <2>1, <3>1
    <3> QED
      BY <3>2 DEF Stacked
  <2> QED
    BY <2>2, <2>3
<1>3. ASSUME NEW x \in Head(todo) \cup Stacked(t) PROVE x \in Stacked(todo)
  <2>1. CASE x \in Head(todo)
    BY <1>1, <2>1 DEF Stacked
  <2>2. CASE x \in Stacked(t)
    <3>1. PICK i \in 1 .. Len(t) : x \in t[i]
      BY <1>1, <2>2 DEF Stacked
    <3>2. i + 1 \in DOMAIN todo /\ x \in todo[i+1]
      BY <1>1, <3>1
    <3> QED
      BY <3>2 DEF Stacked
  <2> QED
    BY <2>1, <2>2
<1> QED
  BY <1>2, <1>3 DEF t

\* A visit leaves nobody out and adds nobody but the parents of the visited.
LEMMA VisitMeets ==
    ASSUME db \in DB, NEW h \in Handler, h.todo # <<>>,
           NEW x \in Head(h.todo), NEW b
    PROVE  /\ Visit(h, x, b).told = h.told \cup {x}
           /\ Visit(h, x, b).live = h.live
           /\ Met(Visit(h, x, b)) = Met(h) \cup Up(db, x, b)
<1> DEFINE g == Visit(h, x, b)
           rest == Head(h.todo) \ {x}
<1>1. h.todo \in Seq(SUBSET Hop) /\ h.told \in SUBSET Hop
  BY DEF Handler
<1>2. /\ Head(h.todo) \in SUBSET Hop /\ rest \in SUBSET Hop
      /\ Tail(h.todo) \in Seq(SUBSET Hop)
  BY <1>1
<1>3. /\ g.told = h.told \cup {x} /\ g.live = h.live
      /\ g.todo = Push(Up(db, x, b), Push(rest, Tail(h.todo)))
  BY DEF Visit, Handler
<1>4. Push(rest, Tail(h.todo)) \in Seq(SUBSET Hop)
  BY <1>2, PushType
<1>5. Up(db, x, b) \in SUBSET Hop
  BY UpType
<1> HIDE DEF rest, g
<1>6. Stacked(g.todo) = Up(db, x, b) \cup (rest \cup Stacked(Tail(h.todo)))
  BY <1>2, <1>3, <1>4, <1>5, StackedPush
<1>7. Stacked(h.todo) = Head(h.todo) \cup Stacked(Tail(h.todo))
  BY <1>1, StackedSplit
<1>8. Met(g) = Met(h) \cup Up(db, x, b)
  BY <1>3, <1>6, <1>7 DEF Met, rest
<1> QED
  BY <1>3, <1>8 DEF g

\* A visit keeps the walk on its way, if the parents it reads are those along
\* the edges in V.
LEMMA VisitWalks ==
    ASSUME IsFiniteSet(Node), db \in DB, Dag, NEW h \in Handler, h.msg \in Msg,
           h.pc = "walk", h.todo # <<>>, NEW x \in Head(h.todo), NEW b,
           NEW V \in SUBSET db.edges,
           Up(db, x, b) = {e[1] : e \in {e \in V : e[2] = x}},
           Walks(h, db.edges, V)
    PROVE  Walks(Visit(h, x, b), db.edges, V)
<1> DEFINE g == Visit(h, x, b)
           A == Ancestors(db.edges, h.msg.id)
<1>1. g.pc = "walk" /\ g.msg = h.msg
  BY VisitType
<1>2. /\ g.told = h.told \cup {x} /\ g.live = h.live
      /\ Met(g) = Met(h) \cup Up(db, x, b)
  BY VisitMeets
<1>3. x \in Stacked(h.todo)
  BY StackedSplit DEF Handler
<1>4. x \in Met(h)
  BY <1>3 DEF Met
<1>5. \A u, y : y \in A /\ <<u, y>> \in db.edges => u \in A
  <2>1. h.msg.id \in Node
    BY MsgType
  <2>2. db.edges \in SUBSET EdgeId
    BY DEF DB
  <2> QED
    BY <2>1, <2>2, AncestorsClosed DEF Dag
<1>6. \A e \in db.edges : e = <<e[1], e[2]>>
  BY DEF DB, EdgeId
<1> HIDE DEF g, A
<1>7. /\ h.live \subseteq V /\ h.msg.id \in Met(h)
      /\ \A e \in h.live : e[2] \in h.told => e[1] \in Met(h)
      /\ Met(h) \subseteq A
  BY DEF Walks, A
<1>8. ASSUME NEW e \in g.live, e[2] \in g.told PROVE e[1] \in Met(g)
  <2>1. CASE e[2] \in h.told
    BY <1>2, <1>7, <1>8, <2>1
  <2>2. CASE e[2] = x
    BY <1>2, <1>7, <1>8, <2>2
  <2> QED
    BY <1>2, <1>8, <2>1, <2>2
<1>9. ASSUME NEW u \in Up(db, x, b) PROVE u \in A
  <2>1. PICK e \in V : e[2] = x /\ u = e[1]
    OBVIOUS
  <2>2. <<u, x>> \in db.edges
    BY <1>6, <2>1
  <2> QED
    BY <1>4, <1>5, <1>7, <2>2
<1>10. Met(g) \subseteq A
  BY <1>2, <1>7, <1>9
<1>11. Walks(g, db.edges, V)
  BY <1>1, <1>2, <1>7, <1>8, <1>10 DEF Walks, A
<1> QED
  BY <1>11 DEF g

\* A walk starts out right.
LEMMA StartWalks ==
    ASSUME IsFiniteSet(Node), NEW E \in SUBSET EdgeId, Acyclic(E),
           NEW h, h.told = {}, h.msg.id \in Node, h.pc = "walk",
           h.todo = <<{h.msg.id}>>, NEW V, h.live \subseteq V
    PROVE  Walks(h, E, V)
<1>1. Stacked(h.todo) = {h.msg.id}
  BY DEF Stacked
<1>2. Met(h) = {h.msg.id}
  BY <1>1 DEF Met
<1>3. h.msg.id \in Ancestors(E, h.msg.id)
  BY AncestorsClosed
<1> QED
  BY <1>2, <1>3 DEF Walks

\* A walk that another handler's commit meets on its way goes on: there are
\* only more edges, and the history forgets those that no longer lead up.
LEMMA WalksOn ==
    ASSUME IsFiniteSet(Node), NEW F \in SUBSET EdgeId, Acyclic(F),
           NEW E \in SUBSET F, NEW h, NEW V, Walks(h, E, V),
           h.pc = "walk" => h.msg.id \in Node,
           NEW g, g.pc = h.pc, g.msg = h.msg, g.told = h.told, g.todo = h.todo,
           NEW K, g.live \subseteq h.live, h.live \subseteq V => g.live \subseteq K
    PROVE  Walks(g, F, K)
<1>1. CASE h.pc # "walk"
  BY <1>1 DEF Walks
<1>2. CASE h.pc = "walk"
  <2>1. Ancestors(E, h.msg.id) \subseteq Ancestors(F, h.msg.id)
    BY <1>2, AncestorsGrow
  <2>2. Met(g) = Met(h)
    BY DEF Met
  <2> QED
    BY <1>2, <2>1, <2>2 DEF Walks
<1> QED
  BY <1>1, <1>2

\* What Up reads: the parents along all edges, or along those that lead up.
LEMMA UpAlong ==
    ASSUME NEW x
    PROVE  /\ Up(db, x, TRUE) = {e[1] : e \in {e \in db.edges : e[2] = x}}
           /\ Up(db, x, FALSE) = {e[1] : e \in {e \in LiveUp(db) : e[2] = x}}
BY DEF Up, EdgesDown, LiveUp

\* The steps of the p.* handler keep its walk on its way.
LEMMA NodeWalks ==
    ASSUME IsFiniteSet(Node), TInv, TInv', Dag, Dag', UpstreamInv,
           NodeReceive \/ NodeCommit \/ NodeFail \/ NodeVisit \/ NodeReply
    PROVE  Walks(nodeH', db'.edges, LiveUp(db'))
<1>1. /\ db \in DB /\ nodeH \in Handler
      /\ nodeH.pc # "idle" => nodeH.msg \in Msg
      /\ Walks(nodeH, db.edges, LiveUp(db))
  BY MsgType DEF TInv, TypeOK, Busy, UpstreamInv
<1>2. CASE NodeReceive
  <2>1. PICK m \in NodeMsgs : nodeH' = [nodeH EXCEPT !.pc = "wait", !.msg = m]
    BY <1>2 DEF NodeReceive
  <2>2. nodeH'.pc = "wait" /\ nodeH'.told = nodeH.told /\ nodeH.pc = "idle"
    BY <1>1, <1>2, <2>1 DEF Handler, NodeReceive
  <2> QED
    BY <1>1, <2>2 DEF Walks
<1>3. CASE NodeCommit
  <2>1. PICK now \in Time : NodeWritten(db, db', nodeH.msg.id, nodeH.msg.pts, now)
    <3>1. nodeH.msg.id \in Node /\ nodeH.msg.pts \in Seq(Point)
      BY <1>1, <1>3, MsgType DEF NodeCommit
    <3>2. PICK now \in Time : db' \in NodePoints(db, nodeH.msg.id, nodeH.msg.pts, now)
      BY <1>3, ClockType DEF NodeCommit
    <3> QED
      BY <1>1, <3>1, <3>2, NodePointsStep
  <2>2. db'.edges = db.edges /\ LiveUp(db') = LiveUp(db)
    BY <2>1 DEF NodeWritten, LiveUp
  <2>3. /\ nodeH'.pc = "walk" /\ nodeH'.msg = nodeH.msg /\ nodeH'.told = nodeH.told
        /\ nodeH'.todo = <<{nodeH.msg.id}>> /\ nodeH'.live = LiveUp(db)
    BY <1>1, <1>3 DEF NodeCommit, StartWalk, Handler
  <2>4. nodeH.told = {} /\ nodeH.msg.id \in Node
    BY <1>1, <1>3, MsgType DEF NodeCommit, Walks
  <2>5. db'.edges \in SUBSET EdgeId
    BY DEF TInv, TypeOK, DB
  <2> QED
    BY <2>2, <2>3, <2>4, <2>5, StartWalks DEF Dag
<1>4. CASE NodeFail \/ NodeReply
  BY <1>4 DEF NodeFail, NodeReply, IdleHandler, Walks
<1>5. CASE NodeVisit
  <2>1. PICK x \in Head(nodeH.todo) : nodeH' = Visit(nodeH, x, FALSE)
    BY <1>5 DEF NodeVisit
  <2>2. nodeH.pc = "walk" /\ nodeH.todo # <<>> /\ db' = db
    BY <1>5 DEF NodeVisit
  <2>3. LiveUp(db) \in SUBSET db.edges
    BY DEF LiveUp
  <2>4. Up(db, x, FALSE) = {e[1] : e \in {e \in LiveUp(db) : e[2] = x}}
    BY UpAlong
  <2>5. Walks(Visit(nodeH, x, FALSE), db.edges, LiveUp(db))
    BY <1>1, <2>2, <2>3, <2>4, VisitWalks
  <2> QED
    BY <2>1, <2>2, <2>5
<1> QED
  BY <1>2, <1>3, <1>4, <1>5

\* The steps of the p.*.* handler keep its walk on its way.
LEMMA EdgeWalks ==
    ASSUME IsFiniteSet(Node), TInv, TInv', Dag, Dag', UpstreamInv,
           \/ EdgeReceive \/ EdgeCommit \/ EdgeRefuse \/ EdgeFail
           \/ EdgeDiverge \/ EdgeVisit \/ EdgeReply
    PROVE  Walks(edgeH', db'.edges, db'.edges)
<1>1. /\ db \in DB /\ edgeH \in Handler
      /\ edgeH.pc # "idle" => edgeH.msg \in Msg
      /\ Walks(edgeH, db.edges, db.edges)
  BY MsgType DEF TInv, TypeOK, Busy, UpstreamInv
<1>2. CASE EdgeReceive
  <2>1. PICK m \in EdgeMsgs : edgeH' = [edgeH EXCEPT !.pc = "wait", !.msg = m]
    BY <1>2 DEF EdgeReceive
  <2>2. edgeH'.pc = "wait" /\ edgeH'.told = edgeH.told /\ edgeH.pc = "idle"
    BY <1>1, <1>2, <2>1 DEF Handler, EdgeReceive
  <2> QED
    BY <1>1, <2>2 DEF Walks
<1>3. CASE EdgeCommit \/ EdgeRefuse \/ EdgeFail
  <2>1. edgeH.pc = "wait"
    BY <1>3 DEF EdgeCommit, EdgeRefuse, EdgeFail
  <2>2. \/ edgeH' = StartWalk(edgeH, db'.edges)
        \/ edgeH' = [StartWalk(edgeH, db'.edges) EXCEPT !.err = TRUE]
    BY <1>3 DEF EdgeCommit, EdgeRefuse, EdgeFail
  <2>3. /\ edgeH'.pc = "walk" /\ edgeH'.msg = edgeH.msg /\ edgeH'.told = edgeH.told
        /\ edgeH'.todo = <<{edgeH.msg.id}>> /\ edgeH'.live = db'.edges
    BY <1>1, <2>2 DEF StartWalk, Handler
  <2>4. edgeH.told = {} /\ edgeH.msg.id \in Node
    BY <1>1, <2>1, MsgType DEF Walks
  <2>5. db'.edges \in SUBSET EdgeId
    BY DEF TInv, TypeOK, DB
  <2> QED
    BY <2>3, <2>4, <2>5, StartWalks DEF Dag
<1>4. CASE EdgeDiverge
  <2>1. edgeH'.pc = "diverged" /\ edgeH'.told = edgeH.told /\ edgeH.pc = "wait"
    BY <1>1, <1>4 DEF EdgeDiverge, Handler
  <2> QED
    BY <1>1, <2>1 DEF Walks
<1>5. CASE EdgeVisit
  <2>1. PICK x \in Head(edgeH.todo) : edgeH' = Visit(edgeH, x, TRUE)
    BY <1>5 DEF EdgeVisit
  <2>2. edgeH.pc = "walk" /\ edgeH.todo # <<>> /\ db' = db
    BY <1>5 DEF EdgeVisit
  <2>3. Up(db, x, TRUE) = {e[1] : e \in {e \in db.edges : e[2] = x}}
    BY UpAlong
  <2>4. Walks(Visit(edgeH, x, TRUE), db.edges, db.edges)
    BY <1>1, <2>2, <2>3, VisitWalks
  <2> QED
    BY <2>1, <2>2, <2>4
<1>6. CASE EdgeReply
  BY <1>6 DEF EdgeReply, IdleHandler, Walks
<1> QED
  BY <1>2, <1>3, <1>4, <1>5, <1>6

\* Every step of the store keeps both walks on their way.
LEMMA UpstreamStep ==
    ASSUME IsFiniteSet(Node), TInv, TInv', Dag, Dag', UpstreamInv, [Next]_vars
    PROVE  UpstreamInv'
<1> USE DEF UpstreamInv
<1>1. CASE NodeReceive \/ NodeCommit \/ NodeFail \/ NodeVisit \/ NodeReply
  <2>1. Walks(nodeH', db'.edges, LiveUp(db'))
    BY <1>1, NodeWalks
  <2>2. edgeH' = edgeH /\ ~EdgeCommit
    BY <1>1 DEF NodeReceive, NodeCommit, NodeFail, NodeVisit, NodeReply,
                EdgeCommit, StartWalk, TInv, TypeOK, Handler
  <2>3. db'.edges = db.edges
    BY <2>2, EdgesStep
  <2> QED
    BY <2>1, <2>2, <2>3
<1>2. CASE EdgeReceive \/ EdgeCommit \/ EdgeRefuse \/ EdgeFail
           \/ EdgeDiverge \/ EdgeVisit \/ EdgeReply
  <2>1. Walks(edgeH', db'.edges, db'.edges)
    BY <1>2, EdgeWalks
  <2>2. CASE db' = db /\ nodeH' = nodeH
    BY <2>1, <2>2
  <2>3. CASE EdgeCommit
    <3>1. nodeH' = [nodeH EXCEPT !.live = @ \cap LiveUp(db')]
      BY <2>3 DEF EdgeCommit
    <3>2. /\ nodeH'.pc = nodeH.pc /\ nodeH'.msg = nodeH.msg
          /\ nodeH'.told = nodeH.told /\ nodeH'.todo = nodeH.todo
          /\ nodeH'.live = nodeH.live \cap LiveUp(db')
      BY <3>1 DEF TInv, TypeOK, Handler
    <3>3. nodeH.pc = "walk" => nodeH.msg.id \in Node
      BY MsgType DEF TInv, Busy
    <3>4. db'.edges \in SUBSET EdgeId /\ db.edges \in SUBSET db'.edges
      BY EdgesStep DEF TInv, TypeOK, DB
    <3>5. Walks(nodeH', db'.edges, LiveUp(db'))
      BY <3>2, <3>3, <3>4, WalksOn DEF Dag
    <3> QED
      BY <2>1, <3>5
  <2> QED
    BY <1>2, <2>2, <2>3 DEF EdgeReceive, EdgeRefuse, EdgeFail, EdgeDiverge,
                            EdgeVisit, EdgeReply
<1>3. CASE ReadEdges \/ ReadEdgePoints \/ ReadNodePoints \/ Answer \/ UNCHANGED vars
  BY <1>3 DEF ReadEdges, ReadEdgePoints, ReadNodePoints, Answer, vars
<1>4. CASE Restart
  BY <1>4 DEF Restart, IdleHandler, Walks
<1> QED
  BY <1>1, <1>2, <1>3, <1>4 DEF Next

\* UpstreamInv is an invariant.
LEMMA UpstreamInvariant ==
    ASSUME IsFiniteSet(Node)
    PROVE  Spec => []UpstreamInv
<1>1. Init => UpstreamInv
  BY DEF Init, IdleHandler, UpstreamInv, Walks
<1>2. TInv /\ TInv' /\ Dag /\ Dag' /\ UpstreamInv /\ [Next]_vars => UpstreamInv'
  BY UpstreamStep
<1> QED
  BY <1>1, <1>2, TypeInvariant, GraphStaysAcyclic, PTL DEF Spec

\* processPointsUpstream, processEdgePointsUpstream: a walk that is over has
\* told the node and every ancestor along edges that were there all the time,
\* and nobody else, whatever the other handler committed in between.
THEOREM WalksAreComplete ==
    ASSUME IsFiniteSet(Node)
    PROVE  Spec => []UpstreamComplete
<1>1. ASSUME NEW h, h \in Handler, h.pc = "walk", h.todo = <<>>,
             NEW E \in SUBSET EdgeId, NEW V \in SUBSET E, Walks(h, E, V)
      PROVE  /\ Ancestors(h.live, h.msg.id) \subseteq h.told
             /\ h.told \subseteq Ancestors(E, h.msg.id)
  <2>1. Stacked(h.todo) = {}
    BY <1>1 DEF Stacked
  <2>2. Met(h) = h.told
    BY <2>1 DEF Met
  <2>3. h.live \in SUBSET EdgeId
    BY <1>1 DEF Handler
  <2>4. ASSUME NEW u, NEW x, x \in h.told, <<u, x>> \in h.live
        PROVE  u \in h.told
    <3>1. <<u, x>>[1] = u /\ <<u, x>>[2] = x
      OBVIOUS
    <3> QED
      BY <1>1, <2>2, <2>4, <3>1 DEF Walks
  <2>5. h.msg.id \in h.told /\ h.told \subseteq Ancestors(E, h.msg.id)
    BY <1>1, <2>2 DEF Walks
  <2> QED
    BY <2>3, <2>4, <2>5, AncestorsLeast
<1>2. TInv /\ UpstreamInv => UpstreamComplete
  <2>1. SUFFICES ASSUME TInv, UpstreamInv, NEW h \in {nodeH, edgeH},
                        h.pc = "walk", h.todo = <<>>
                 PROVE  /\ Ancestors(h.live, h.msg.id) \subseteq h.told
                        /\ h.told \subseteq Ancestors(db.edges, h.msg.id)
    BY DEF UpstreamComplete
  <2>2. h \in Handler /\ db.edges \in SUBSET EdgeId /\ LiveUp(db) \in SUBSET db.edges
    BY <2>1 DEF TInv, TypeOK, DB, LiveUp
  <2>3. CASE h = nodeH
    BY <1>1, <2>1, <2>2, <2>3 DEF UpstreamInv
  <2>4. CASE h = edgeH
    BY <1>1, <2>1, <2>2, <2>4 DEF UpstreamInv
  <2> QED
    BY <2>1, <2>3, <2>4
<1> QED
  BY <1>2, TypeInvariant, UpstreamInvariant, PTL

-----------------------------------------------------------------------------
(* Parity *)

\* One is odd and none is not.
LEMMA OddSingle ==
    ASSUME NEW S, NEW c, S \subseteq {c}
    PROVE  Odd(S) <=> S # {}
<1>1. CASE S = {}
  BY <1>1, FS_EmptySet DEF Odd
<1>2. CASE S # {}
  <2>1. S = {c}
    BY <1>2
  <2>2. Cardinality(S) = 1
    BY <2>1, FS_Singleton
  <2> QED
    BY <1>2, <2>2 DEF Odd
<1> QED
  BY <1>1, <1>2

\* One more, and odd turns into even.
LEMMA OddAdd ==
    ASSUME NEW S, IsFiniteSet(S), NEW c, c \notin S
    PROVE  Odd(S \cup {c}) <=> ~Odd(S)
<1> DEFINE n == Cardinality(S)
<1>1. n \in Nat
  BY FS_CardinalityType
<1>2. Cardinality(S \cup {c}) = n + 1
  BY FS_AddElement
<1> HIDE DEF n
<1>3. (n + 1) % 2 = 1 <=> ~(n % 2 = 1)
  BY <1>1
<1> QED
  BY <1>2, <1>3 DEF Odd, n

-----------------------------------------------------------------------------
(* The hash of points *)

\* Point tables as batches that are told apart leave them: one row of an
\* identity, which is a point of that identity.
Tidy(rows) ==
    /\ rows \in Rows
    /\ \A k \in Ident : rows[k] # <<>> =>
           /\ Len(rows[k]) = 1
           /\ rows[k][1].typ = k[1] /\ rows[k][1].key = k[2]

\* The points of a batch have different identities.
Apart(pts) == \A p, q \in pts : IdentOf(p) = IdentOf(q) => p = q

\* The token x is the CRC of the row.
HasToken(r, x) == r # <<>> /\ x \in CRC(r[1])

\* The identity that a token speaks of.
IdentIn(x) == <<x[2], x[3]>>

\* A CRC covers the type and the key.
LEMMA CRCIdent ==
    ASSUME NEW p, NEW x \in CRC(p)
    PROVE  x[2] = p.typ /\ x[3] = p.key
BY DEF CRC

\* In a tidy table no two rows have a token in common.
LEMMA TokenIdent ==
    ASSUME NEW rows, Tidy(rows), NEW k \in Ident, NEW x, HasToken(rows[k], x)
    PROVE  k = IdentIn(x)
<1>1. x[2] = rows[k][1].typ /\ x[3] = rows[k][1].key
  BY CRCIdent DEF HasToken
<1>2. x[2] = k[1] /\ x[3] = k[2]
  BY <1>1 DEF HasToken, Tidy
<1>3. k = <<k[1], k[2]>>
  BY DEF Ident
<1> QED
  BY <1>2, <1>3 DEF IdentIn

\* So the XOR over a tidy table has the tokens of its rows.
LEMMA RowsHashTidy ==
    ASSUME NEW rows, Tidy(rows), NEW x
    PROVE  x \in RowsHash(rows) <=> \E k \in Ident : HasToken(rows[k], x)
<1> DEFINE D == {ki \in Ident \X (1..2) : ki[2] =< Len(rows[ki[1]])}
           T == {ki \in D : x \in CRC(rows[ki[1]][ki[2]])}
           c == <<IdentIn(x), 1>>
<1>1. \A k \in Ident : rows[k] \in Seq(Point)
  BY DEF Tidy, Rows
<1>2. ASSUME NEW ki \in T
      PROVE  ki[1] \in Ident /\ ki = <<ki[1], 1>> /\ HasToken(rows[ki[1]], x)
  <2>1. /\ ki[1] \in Ident /\ ki[2] \in 1..2 /\ ki = <<ki[1], ki[2]>>
        /\ ki[2] =< Len(rows[ki[1]]) /\ x \in CRC(rows[ki[1]][ki[2]])
    OBVIOUS
  <2>2. rows[ki[1]] # <<>>
    BY <1>1, <2>1
  <2>3. ki[2] = 1
    BY <2>1, <2>2 DEF Tidy
  <2> QED
    BY <2>1, <2>2, <2>3 DEF HasToken
<1>3. ASSUME NEW k \in Ident, HasToken(rows[k], x)
      PROVE  <<k, 1>> \in T
  <2>1. rows[k] # <<>> /\ x \in CRC(rows[k][1])
    BY <1>3 DEF HasToken
  <2>2. Len(rows[k]) = 1
    BY <2>1 DEF Tidy
  <2> QED
    BY <2>1, <2>2
<1>4. T \subseteq {c}
  <2> HIDE DEF T
  <2> QED BY <1>2, TokenIdent
<1>5. x \in RowsHash(rows) <=> (\E ki \in D : x \in CRC(rows[ki[1]][ki[2]])) /\ Odd(T)
  BY DEF RowsHash, XorOver
<1>6. Odd(T) <=> T # {}
  <2> HIDE DEF T
  <2> QED BY <1>4, OddSingle
<1>7. T # {} <=> \E k \in Ident : HasToken(rows[k], x)
  <2> HIDE DEF T
  <2> QED BY <1>2, <1>3
<1>8. T # {} <=> \E ki \in D : x \in CRC(rows[ki[1]][ki[2]])
  OBVIOUS
<1> QED
  BY <1>5, <1>6, <1>7, <1>8

\* What a point adds to the hash are tokens of its identity.
LEMMA DeltaIdent ==
    ASSUME NEW rows, Tidy(rows), NEW p \in Point, NEW now \in Time,
           NEW x \in HashDelta(rows, p, now)
    PROVE  IdentOf(p) = IdentIn(x)
<1> DEFINE k == IdentOf(p)
           s == Stamp(p, now)
           old == rows[k]
<1>1. k \in Ident
  BY StampPoint
<1>2. s.typ = k[1] /\ s.key = k[2] /\ k = <<k[1], k[2]>>
  BY DEF Stamp, IdentOf
<1>3. x \in CRC(s) \/ HasToken(old, x)
  BY DEF HashDelta, SymDiff, HasToken
<1> HIDE DEF k, s, old
<1>4. CASE x \in CRC(s)
  <2>1. x[2] = s.typ /\ x[3] = s.key
    BY <1>4, CRCIdent
  <2> QED
    BY <1>2, <2>1 DEF IdentIn, k
<1>5. CASE HasToken(old, x)
  BY <1>1, <1>5, TokenIdent DEF k, old
<1> QED
  BY <1>3, <1>4, <1>5

\* So what a batch adds has the tokens of what its points add.
LEMMA HashUpdateApart ==
    ASSUME NEW rows, Tidy(rows), NEW pts \in SUBSET Point, Apart(pts),
           NEW now \in Time, NEW x
    PROVE  x \in HashUpdate(rows, pts, now) <=>
               \E p \in pts : x \in HashDelta(rows, p, now)
<1> DEFINE T == {p \in pts : x \in HashDelta(rows, p, now)}
<1>1. x \in HashUpdate(rows, pts, now) <=>
          (\E p \in pts : x \in HashDelta(rows, p, now)) /\ Odd(T)
  BY DEF HashUpdate, XorOver
<1>2. \A p, q \in T : p = q
  BY DeltaIdent DEF Apart
<1>3. Odd(T) <=> T # {}
  <2>1. CASE T = {}
    BY <2>1, OddSingle
  <2>2. CASE T # {}
    <3>1. PICK c : c \in T
      BY <2>2
    <3> HIDE DEF T
    <3>2. T \subseteq {c}
      BY <1>2, <3>1
    <3> QED
      BY <3>2, OddSingle
  <2> QED
    BY <2>1, <2>2
<1> QED
  BY <1>1, <1>3

\* What the points of identity k in a batch add to the hash.
Adds(rows, pts, now, k, x) ==
    \E p \in pts : IdentOf(p) = k /\ x \in HashDelta(rows, p, now)

\* The rows of one identity stay tidy, and their token changes by what the
\* batch adds for the identity.
LEMMA RowHash ==
    ASSUME NEW rows, Tidy(rows), NEW pts \in SUBSET Point, Apart(pts),
           NEW now \in Time, NEW k \in Ident, NEW r \in RowOutcomes(rows, pts, now, k)
    PROVE  /\ r # <<>> => Len(r) = 1 /\ r[1].typ = k[1] /\ r[1].key = k[2]
           /\ \A x : HasToken(r, x) <=>
                         ~(HasToken(rows[k], x) <=> Adds(rows, pts, now, k, x))
<1> DEFINE in  == {p \in pts : IdentOf(p) = k}
           acc == {p \in in : Accepts(rows, p, now)}
<1>1. /\ rows[k] \in Seq(Point)
      /\ rows[k] # <<>> => /\ Len(rows[k]) = 1
                           /\ rows[k][1].typ = k[1] /\ rows[k][1].key = k[2]
  BY DEF Tidy, Rows
<1>2. CASE in = {}
  <2>1. r = rows[k]
    BY <1>2 DEF RowOutcomes
  <2>2. \A x : ~Adds(rows, pts, now, k, x)
    BY <1>2 DEF Adds
  <2> QED
    BY <1>1, <2>1, <2>2
<1>3. CASE in # {}
  <2>1. PICK p \in pts : IdentOf(p) = k
    BY <1>3
  <2>2. in = {p}
    BY <2>1 DEF Apart
  <2> DEFINE s == Stamp(p, now)
             Added(x) == x \in HashDelta(rows, p, now)
  <2>3. \A x : Adds(rows, pts, now, k, x) <=> Added(x)
    BY <2>1, <2>2 DEF Adds
  <2>4. s.typ = k[1] /\ s.key = k[2]
    BY <2>1 DEF Stamp, IdentOf
  <2>5. CASE rows[k] = <<>>
    <3>1. Accepts(rows, p, now)
      BY <2>1, <2>5 DEF Accepts
    <3>2. acc = {p}
      BY <2>2, <3>1
    <3>3. r = <<s>>
      BY <2>2, <2>5, <3>2 DEF RowOutcomes
    <3>4. HashDelta(rows, p, now) = CRC(s)
      BY <2>1, <2>5 DEF HashDelta
    <3>5. r # <<>> /\ Len(r) = 1 /\ r[1] = s
      BY <3>3
    <3> HIDE DEF s
    <3>6. \A x : HasToken(r, x) <=> Added(x)
      BY <3>4, <3>5 DEF HasToken
    <3>7. \A x : ~HasToken(rows[k], x)
      BY <2>5 DEF HasToken
    <3> QED
      BY <2>3, <2>4, <3>5, <3>6, <3>7
  <2>6. CASE rows[k] # <<>> /\ ~Accepts(rows, p, now)
    <3>1. acc = {}
      BY <2>2, <2>6
    <3>2. r = rows[k]
      BY <3>1 DEF RowOutcomes
    <3>3. HashDelta(rows, p, now) = {}
      BY <2>1, <2>6 DEF HashDelta
    <3> QED
      BY <1>1, <2>3, <3>2, <3>3
  <2>7. CASE rows[k] # <<>> /\ Accepts(rows, p, now)
    <3>1. acc = {p}
      BY <2>2, <2>7
    <3>2. r = [rows[k] EXCEPT ![1] = s]
      BY <2>7, <3>1 DEF RowOutcomes
    <3>3. HashDelta(rows, p, now) = SymDiff(CRC(rows[k][1]), CRC(s))
      BY <2>1, <2>7 DEF HashDelta
    <3> HIDE DEF s
    <3>4. 1 \in DOMAIN rows[k]
      BY <1>1, <2>7
    <3>5. r # <<>> /\ Len(r) = 1 /\ r[1] = s
      <4>1. s \in Point
        BY StampPoint DEF s
      <4> QED
        BY <1>1, <2>7, <3>2, <3>4, <4>1
    <3>6. \A x : Added(x) <=> ~(x \in CRC(rows[k][1]) <=> x \in CRC(s))
      BY <3>3 DEF SymDiff
    <3>7. \A x : HasToken(r, x) <=> x \in CRC(s)
      BY <3>5 DEF HasToken
    <3>8. \A x : HasToken(rows[k], x) <=> x \in CRC(rows[k][1])
      BY <2>7 DEF HasToken
    <3> QED
      BY <2>3, <2>4, <3>5, <3>6, <3>7, <3>8
  <2> QED
    BY <2>5, <2>6, <2>7
<1> QED
  BY <1>2, <1>3

\* nodePoints, edgePoints: merging a batch changes the hash of the points by
\* exactly the hash update that is collected while merging.
LEMMA MergeHash ==
    ASSUME NEW rows, Tidy(rows), NEW pts \in SUBSET Point, Apart(pts),
           NEW now \in Time, NEW r \in MergeRows(rows, pts, now)
    PROVE  /\ Tidy(r)
           /\ RowsHash(r) = SymDiff(RowsHash(rows), HashUpdate(rows, pts, now))
<1>1. r \in Rows /\ \A k \in Ident : r[k] \in RowOutcomes(rows, pts, now, k)
  BY MergeRowsPointwise DEF Tidy
<1>2. Tidy(r)
  BY <1>1, RowHash DEF Tidy
<1>3. ASSUME NEW x
      PROVE  x \in RowsHash(r) <=>
                 ~(x \in RowsHash(rows) <=> x \in HashUpdate(rows, pts, now))
  <2> DEFINE k == IdentIn(x)
  <2>1. x \in RowsHash(r) <=> k \in Ident /\ HasToken(r[k], x)
    BY <1>2, RowsHashTidy, TokenIdent
  <2>2. x \in RowsHash(rows) <=> k \in Ident /\ HasToken(rows[k], x)
    BY RowsHashTidy, TokenIdent
  <2>3. x \in HashUpdate(rows, pts, now) <=> k \in Ident /\ Adds(rows, pts, now, k, x)
    <3>1. \A p \in pts : IdentOf(p) \in Ident
      BY StampPoint
    <3>2. \A p \in pts : x \in HashDelta(rows, p, now) => IdentOf(p) = k
      BY DeltaIdent
    <3>3. x \in HashUpdate(rows, pts, now) <=>
              \E p \in pts : x \in HashDelta(rows, p, now)
      BY HashUpdateApart
    <3> HIDE DEF k
    <3> QED
      BY <3>1, <3>2, <3>3 DEF Adds
  <2> HIDE DEF k
  <2>4. k \in Ident =>
            (HasToken(r[k], x) <=>
                ~(HasToken(rows[k], x) <=> Adds(rows, pts, now, k, x)))
    BY <1>1, RowHash
  <2> QED
    BY <2>1, <2>2, <2>3, <2>4
<1>4. RowsHash(r) = SymDiff(RowsHash(rows), HashUpdate(rows, pts, now))
  BY <1>3 DEF SymDiff
<1> QED
  BY <1>2, <1>4

\* An empty table is tidy and has an empty hash.
LEMMA NoRowsHash == Tidy(NoRows) /\ RowsHash(NoRows) = {}
<1>1. Tidy(NoRows)
  BY DEF Tidy, NoRows, Rows
<1>2. \A x : x \notin RowsHash(NoRows)
  BY <1>1, RowsHashTidy DEF HasToken, NoRows
<1> QED
  BY <1>1, <1>2

\* No two points of a batch have one identity.
IdentsApart(points) ==
    \A i, j \in DOMAIN points : i # j => IdentOf(points[i]) # IdentOf(points[j])

\* Then neither have two of those that Collapse leaves.
LEMMA CollapseApart ==
    ASSUME NEW points \in Seq(Point), IdentsApart(points),
           NEW pts \in SUBSET Collapse(points)
    PROVE  pts \in SUBSET Point /\ Apart(pts)
<1>1. pts \in SUBSET Point
  BY CollapseSubset
<1>2. ASSUME NEW p \in pts, NEW q \in pts, IdentOf(p) = IdentOf(q)
      PROVE  p = q
  <2>1. PICK i \in DOMAIN points, j \in DOMAIN points :
            p = points[i] /\ q = points[j]
    BY DEF Collapse
  <2> QED
    BY <1>2, <2>1 DEF IdentsApart
<1> QED
  BY <1>1, <1>2 DEF Apart

-----------------------------------------------------------------------------
(* The walk of the hash in a tree *)

\* No node has two parents.
Forest(E) == E \in SUBSET EdgeId /\ \A e, f \in E : e[2] = f[2] => e = f

\* The step of OddReach, and its equation.
OddAbove(E, N) == {u \in Node : Odd({n \in N : <<u, n>> \in E})}

IsOddReach(g, E, id) ==
    g = [k \in 0 .. Cardinality(Node) |->
            IF k = 0 THEN {id} ELSE OddAbove(E, g[k-1])]

\* In a tree the walk enters at most one node at each depth.
LEMMA ReachSingle ==
    ASSUME IsFiniteSet(Node), NEW E, Forest(E), NEW id,
           NEW k \in 0 .. Cardinality(Node)
    PROVE  \E c : Reach(E, id)[k] \subseteq {c}
<1> DEFINE M == Cardinality(Node)
           R == Reach(E, id)
           S == {j \in Nat : j =< M => \E c : R[j] \subseteq {c}}
<1>1. M \in Nat
  BY FS_CardinalityType
<1>2. R[0] = {id} /\ \A j \in 1 .. M : R[j] = Above(E, R[j-1])
  BY <1>1, ReachDef
<1> HIDE DEF R
<1>3. 0 \in S
  BY <1>2
<1>4. ASSUME NEW j \in S PROVE j + 1 \in S
  <2>1. SUFFICES ASSUME j + 1 =< M PROVE \E c : R[j+1] \subseteq {c}
    OBVIOUS
  <2>2. PICK c : R[j] \subseteq {c}
    BY <1>1, <2>1
  <2>3. R[j+1] = Above(E, R[j])
    BY <1>1, <1>2, <2>1
  <2>4. ASSUME NEW u \in R[j+1], NEW v \in R[j+1] PROVE u = v
    <3>1. <<u, c>> \in E /\ <<v, c>> \in E
      BY <2>2, <2>3 DEF Above
    <3>2. <<u, c>>[2] = <<v, c>>[2]
      OBVIOUS
    <3>3. <<u, c>> = <<v, c>>
      BY <3>1, <3>2 DEF Forest
    <3> QED
      BY <3>3
  <2>5. CASE R[j+1] = {}
    BY <2>5
  <2>6. CASE R[j+1] # {}
    <3>1. PICK u : u \in R[j+1]
      BY <2>6
    <3>2. R[j+1] \subseteq {u}
      BY <2>4, <3>1
    <3> QED
      BY <3>2
  <2> QED
    BY <2>5, <2>6
<1>5. S \in SUBSET Nat
  OBVIOUS
<1>6. S = Nat
  <2> HIDE DEF S
  <2> QED BY <1>3, <1>4, <1>5, NatSetInduction
<1> QED
  BY <1>1, <1>6 DEF R

\* So no node is entered an even number of times, and what updateHashHelper
\* XORs in twice does not come up.
LEMMA OddReachTree ==
    ASSUME IsFiniteSet(Node), NEW E, Forest(E), NEW id
    PROVE  OddReach(E, id) = Reach(E, id)
<1> DEFINE M == Cardinality(Node)
           R == Reach(E, id)
           O == OddReach(E, id)
<1>1. M \in Nat
  BY FS_CardinalityType
<1>2. IsReach(R, E, id, M)
  BY <1>1, ReachIs
<1>3. ASSUME NEW k \in 0 .. M PROVE OddAbove(E, R[k]) = Above(E, R[k])
  <2>1. PICK c : R[k] \subseteq {c}
    BY ReachSingle
  <2> HIDE DEF R
  <2>2. ASSUME NEW u PROVE Odd({n \in R[k] : <<u, n>> \in E}) <=>
                               \E n \in R[k] : <<u, n>> \in E
    <3>1. {n \in R[k] : <<u, n>> \in E} \subseteq {c}
      BY <2>1
    <3>2. Odd({n \in R[k] : <<u, n>> \in E}) <=> {n \in R[k] : <<u, n>> \in E} # {}
      BY <3>1, OddSingle
    <3> QED
      BY <3>2
  <2> QED
    BY <2>2 DEF OddAbove, Above
<1> HIDE DEF R, M
<1> DEFINE F == [k \in 0 .. M |-> IF k = 0 THEN {id} ELSE Above(E, R[k-1])]
           G == [k \in 0 .. M |-> IF k = 0 THEN {id} ELSE OddAbove(E, R[k-1])]
<1>4. R = F
  BY <1>2, Zenon DEF IsReach
<1>5. F = G
  BY <1>1, <1>3
<1>6. R = G
  BY <1>4, <1>5
<1>7. IsOddReach(R, E, id)
  BY <1>6, Zenon DEF IsOddReach, M
<1>8. IsOddReach(O, E, id)
  <2>1. \E g : IsOddReach(g, E, id)
    BY <1>7
  <2> QED
    BY <2>1, Zenon DEF IsOddReach, OddAbove, OddReach
<1> HIDE DEF O
<1> DEFINE H == [k \in 0 .. M |-> IF k = 0 THEN {id} ELSE OddAbove(E, O[k-1])]
           S == {j \in Nat : j =< M => O[j] = R[j]}
<1>9. O = H
  BY <1>8, Zenon DEF IsOddReach, M
<1>10. \A k \in 0 .. M : /\ R[k] = IF k = 0 THEN {id} ELSE OddAbove(E, R[k-1])
                         /\ H[k] = IF k = 0 THEN {id} ELSE OddAbove(E, O[k-1])
  <2> HIDE DEF F
  <2> QED BY <1>6
<1>11. DOMAIN R = 0 .. M /\ DOMAIN H = 0 .. M
  <2> HIDE DEF F
  <2> QED BY <1>6
<1> HIDE DEF F, G, H
<1>12. 0 \in S
  BY <1>1, <1>9, <1>10
<1>13. ASSUME NEW j \in S PROVE j + 1 \in S
  <2>1. SUFFICES ASSUME j + 1 =< M PROVE O[j+1] = R[j+1]
    OBVIOUS
  <2>2. j + 1 \in 0 .. M /\ j + 1 # 0 /\ (j + 1) - 1 = j /\ O[j] = R[j]
    BY <1>1, <2>1
  <2>3. O[j+1] = OddAbove(E, O[j]) /\ R[j+1] = OddAbove(E, R[j])
    BY <1>9, <1>10, <2>2
  <2> QED
    BY <2>2, <2>3
<1>14. S \in SUBSET Nat
  OBVIOUS
<1>15. S = Nat
  <2> HIDE DEF S
  <2> QED BY <1>12, <1>13, <1>14, NatSetInduction
<1>16. \A k \in 0 .. M : H[k] = R[k]
  BY <1>1, <1>9, <1>15
<1>17. H = R
  BY <1>6, <1>11, <1>16 DEF H, G
<1> QED
  BY <1>9, <1>17 DEF O, R

\* A walk that gets to depth j has been at every depth before.
LEMMA ReachUnbroken ==
    ASSUME IsFiniteSet(Node), NEW E, NEW id,
           NEW j \in 0 .. Cardinality(Node), Reach(E, id)[j] # {},
           NEW i \in 0 .. j
    PROVE  Reach(E, id)[i] # {}
<1> DEFINE M == Cardinality(Node)
           R == Reach(E, id)
           S == {d \in Nat : d =< j => R[j-d] # {}}
<1>1. M \in Nat
  BY FS_CardinalityType
<1>2. \A k \in 1 .. M : R[k] = Above(E, R[k-1])
  BY <1>1, ReachDef
<1> HIDE DEF R
<1>3. 0 \in S
  BY <1>1 DEF R
<1>4. ASSUME NEW d \in S PROVE d + 1 \in S
  <2>1. SUFFICES ASSUME d + 1 =< j PROVE R[j-(d+1)] # {}
    OBVIOUS
  <2>2. j - d \in 1 .. M /\ (j - d) - 1 = j - (d + 1) /\ R[j-d] # {}
    BY <1>1, <2>1
  <2>3. R[j-d] = Above(E, R[j-(d+1)])
    BY <1>2, <2>2
  <2> QED
    BY <2>2, <2>3 DEF Above
<1>5. S \in SUBSET Nat
  OBVIOUS
<1>6. S = Nat
  <2> HIDE DEF S
  <2> QED BY <1>3, <1>4, <1>5, NatSetInduction
<1>7. j - i \in S /\ j - i =< j /\ j - (j - i) = i
  <2>1. j - i \in Nat /\ j - i =< j /\ j - (j - i) = i
    BY <1>1
  <2> HIDE DEF S
  <2> QED BY <1>6, <2>1
<1>8. R[i] # {}
  BY <1>7
<1> QED
  BY <1>8 DEF R

\* In a tree the walk enters a node at one depth only.
LEMMA ReachDepth ==
    ASSUME IsFiniteSet(Node), NEW E, Forest(E), Acyclic(E), NEW id \in Node, NEW u,
           NEW i \in 0 .. Cardinality(Node), NEW j \in 0 .. Cardinality(Node),
           u \in Reach(E, id)[i], u \in Reach(E, id)[j]
    PROVE  i = j
<1> DEFINE M == Cardinality(Node)
           R == Reach(E, id)
<1>1. M \in Nat
  BY FS_CardinalityType
<1>2. R[0] = {id} /\ \A k \in 1 .. M : R[k] = Above(E, R[k-1])
  BY <1>1, ReachDef
<1>3. \A k \in 0 .. M : \A v, w \in R[k] : v = w
  <2> TAKE k \in 0 .. M
  <2>1. PICK c : R[k] \subseteq {c}
    BY ReachSingle
  <2> QED
    BY <2>1
<1>4. \A k \in 0 .. M : R[k] \subseteq Node
  BY <1>1, <1>2 DEF Above
<1>5. ASSUME NEW a \in 0 .. M, NEW b \in 0 .. M, a < b, u \in R[a], u \in R[b]
      PROVE  FALSE
  <2>1. \A t \in 0 .. b : R[t] # {}
    <3> TAKE t \in 0 .. b
    <3>1. R[b] # {}
      BY <1>5
    <3> QED
      BY <3>1, ReachUnbroken
  <2> HIDE DEF R
  <2> DEFINE C == UNION {R[t] : t \in a .. b - 1}
  <2>2. C \in SUBSET Node
    BY <1>1, <1>4
  <2>3. u \in C
    BY <1>1, <1>5
  <2>4. ASSUME NEW c \in C PROVE \E v \in C : <<v, c>> \in E
    <3>1. PICK t \in a .. b - 1 : c \in R[t]
      OBVIOUS
    <3>2. t \in 0 .. M /\ t + 1 \in 1 .. M /\ t + 1 \in 0 .. b /\ (t + 1) - 1 = t
      BY <1>1, <1>5, <3>1
    <3>3. PICK v : v \in R[t+1]
      BY <2>1, <3>2
    <3>4. R[t+1] = Above(E, R[t])
      BY <1>2, <3>2
    <3>5. <<v, c>> \in E
      BY <1>3, <3>1, <3>2, <3>3, <3>4 DEF Above
    <3>6. v \in C
      <4>1. CASE t + 1 = b
        <5>1. v = u
          BY <1>3, <1>5, <3>2, <3>3, <4>1
        <5> QED
          BY <2>3, <5>1
      <4>2. CASE t + 1 # b
        <5>1. t + 1 \in a .. b - 1
          BY <1>1, <1>5, <3>1, <4>2
        <5> QED
          BY <3>3, <5>1
      <4> QED
        BY <4>1, <4>2
    <3> QED
      BY <3>5, <3>6
  <2>5. Circle(E, C)
    <3> HIDE DEF C
    <3> QED BY <2>2, <2>3, <2>4 DEF Circle
  <2> QED
    BY <2>5, AcyclicNoCircle
<1> HIDE DEF M, R
<1>6. i \in 0 .. M /\ j \in 0 .. M /\ u \in R[i] /\ u \in R[j]
  BY DEF M, R
<1> QED
  BY <1>1, <1>5, <1>6

\* The nodes on the way up from id.
OnWay(E, id) == UNION {Reach(E, id)[k] : k \in 0 .. Cardinality(Node)}

\* In a tree the way up is a chain: it starts with id, every other node on it
\* has exactly one child on it, id has none, and it goes on to every parent.
LEMMA WayUp ==
    ASSUME IsFiniteSet(Node), NEW E, Forest(E), Acyclic(E), NEW id \in Node
    PROVE  /\ id \in OnWay(E, id)
           /\ \A x \in OnWay(E, id) : <<id, x>> \notin E
           /\ \A y \in OnWay(E, id) \ {id} : \E x \in OnWay(E, id) :
                  /\ <<y, x>> \in E
                  /\ \A z \in OnWay(E, id) : <<y, z>> \in E => z = x
           /\ \A x \in OnWay(E, id), y \in Node : <<y, x>> \in E => y \in OnWay(E, id)
<1> DEFINE M == Cardinality(Node)
           R == Reach(E, id)
           N == UNION {R[k] : k \in 0 .. M}
<1>1. M \in Nat
  BY FS_CardinalityType
<1>2. R[0] = {id} /\ \A k \in 1 .. M : R[k] = Above(E, R[k-1])
  BY <1>1, ReachDef
<1>3. \A k \in 0 .. M : \A v, w \in R[k] : v = w
  <2> TAKE k \in 0 .. M
  <2>1. PICK c : R[k] \subseteq {c}
    BY ReachSingle
  <2> QED
    BY <2>1
<1>4. \A a, b \in 0 .. M : \A u : u \in R[a] /\ u \in R[b] => a = b
  BY ReachDepth
<1>5. R[M] = {}
  BY DEF Acyclic, Diverges
<1>6. OnWay(E, id) = N
  BY DEF OnWay
<1> HIDE DEF R, M
<1>7. \A x \in N : \E k \in 0 .. M : x \in R[k]
  OBVIOUS
<1>8. \A k \in 0 .. M : R[k] \subseteq N
  OBVIOUS
<1> HIDE DEF N
<1>9. ASSUME NEW k \in 0 .. M, NEW x \in R[k], NEW y \in Node, <<y, x>> \in E
      PROVE  k + 1 \in 0 .. M /\ y \in R[k+1]
  <2>1. k + 1 \in 1 .. M /\ (k + 1) - 1 = k
    BY <1>1, <1>5, <1>9
  <2>2. R[k+1] = Above(E, R[k])
    BY <1>2, <2>1
  <2> QED
    BY <1>1, <1>9, <2>1, <2>2 DEF Above
<1>10. id \in N
  BY <1>1, <1>2, <1>8
<1>11. ASSUME NEW x \in N, NEW y \in Node, <<y, x>> \in E PROVE y \in N
  BY <1>7, <1>8, <1>9, <1>11
<1>12. ASSUME NEW x \in N, <<id, x>> \in E PROVE FALSE
  <2>1. PICK k \in 0 .. M : x \in R[k]
    BY <1>7
  <2>2. k + 1 \in 0 .. M /\ id \in R[k+1]
    BY <1>9, <1>12, <2>1
  <2>3. 0 \in 0 .. M /\ id \in R[0]
    BY <1>1, <1>2
  <2>4. k + 1 = 0
    BY <1>4, <2>2, <2>3
  <2> QED
    BY <2>1, <2>4
<1>13. ASSUME NEW y \in N, y # id
       PROVE  \E x \in N : /\ <<y, x>> \in E
                           /\ \A z \in N : <<y, z>> \in E => z = x
  <2>1. PICK k \in 0 .. M : y \in R[k]
    BY <1>7
  <2>2. k # 0
    BY <1>2, <1>13, <2>1
  <2>3. k \in 1 .. M /\ k - 1 \in 0 .. M
    BY <1>1, <2>1, <2>2
  <2>4. y \in Above(E, R[k-1])
    BY <1>2, <2>1, <2>3
  <2>5. PICK x \in R[k-1] : <<y, x>> \in E /\ y \in Node
    BY <2>4 DEF Above
  <2>6. ASSUME NEW z \in N, <<y, z>> \in E PROVE z = x
    <3>1. PICK a \in 0 .. M : z \in R[a]
      BY <1>7
    <3>2. a + 1 \in 0 .. M /\ y \in R[a+1]
      BY <1>9, <2>5, <2>6, <3>1
    <3>3. a + 1 = k
      BY <1>4, <2>1, <3>2
    <3>4. a = k - 1
      BY <1>1, <3>1, <3>3, <2>1
    <3> QED
      BY <1>3, <2>3, <2>5, <3>1, <3>4
  <2> QED
    BY <1>8, <2>3, <2>5, <2>6
<1> QED
  BY <1>6, <1>10, <1>11, <1>12, <1>13

-----------------------------------------------------------------------------
(* The hash update *)

\* What updateHash does in a tree: the edges on the way up take the update in.
LEMMA UpdateHashTree ==
    ASSUME IsFiniteSet(Node), NEW E, Forest(E), Acyclic(E), NEW id \in Node,
           NEW hash, NEW upd
    PROVE  UpdateHash(E, hash, id, upd) =
               [e \in EdgeId |-> IF e \in E /\ e[2] \in OnWay(E, id)
                                 THEN SymDiff(hash[e], upd) ELSE hash[e]]
<1> DEFINE M == Cardinality(Node)
           R == Reach(E, id)
           D(e) == {k \in 0 .. M : e[2] \in R[k]}
<1>1. M \in Nat
  BY FS_CardinalityType
<1>2. OddReach(E, id) = R
  BY OddReachTree
<1>3. DOMAIN R = 0 .. M
  <2>1. IsReach(R, E, id, M)
    BY <1>1, ReachIs
  <2> HIDE DEF R, M
  <2> DEFINE F == [k \in 0 .. M |-> IF k = 0 THEN {id} ELSE Above(E, R[k-1])]
  <2>2. R = F
    BY <2>1, Zenon DEF IsReach
  <2>3. DOMAIN F = 0 .. M
    OBVIOUS
  <2> QED
    BY <2>2, <2>3
<1>4. ASSUME NEW e PROVE Odd(D(e)) <=> e[2] \in OnWay(E, id)
  <2>1. \A a, b \in D(e) : a = b
    BY ReachDepth
  <2>2. D(e) # {} <=> e[2] \in OnWay(E, id)
    BY DEF OnWay
  <2>3. CASE D(e) = {}
    BY <2>2, <2>3, OddSingle
  <2>4. CASE D(e) # {}
    <3>1. PICK c : c \in D(e)
      BY <2>4
    <3>2. D(e) \subseteq {c}
      BY <2>1, <3>1
    <3>3. Odd(D(e)) <=> D(e) # {}
      BY <3>2, OddSingle
    <3> QED
      BY <2>2, <3>3
  <2> QED
    BY <2>3, <2>4
<1> DEFINE changed == {e \in E : Odd({k \in DOMAIN OddReach(E, id) : e[2] \in OddReach(E, id)[k]})}
<1>5. changed = {e \in E : Odd(D(e))}
  BY <1>2, <1>3
<1>6. \A e : e \in changed <=> e \in E /\ e[2] \in OnWay(E, id)
  BY <1>4, <1>5
<1>7. UpdateHash(E, hash, id, upd) =
          [e \in EdgeId |-> IF e \in changed THEN SymDiff(hash[e], upd) ELSE hash[e]]
  BY DEF UpdateHash
<1> HIDE DEF changed
<1> QED
  BY <1>6, <1>7

\* The XOR of the hashes of the edges below n.
Kids(E, hash, n) == XorOver(EdgesUp(E, n), LAMBDA c : hash[c])

\* The edges below n that have the token x.
KidsWith(E, hash, n, x) == {c \in EdgesUp(E, n) : x \in hash[c]}

\* The XOR has the tokens that an odd number of the edges have.
LEMMA KidsIn ==
    \A E, hash, n, x : x \in Kids(E, hash, n) <=> Odd(KidsWith(E, hash, n, x))
<1> TAKE E, hash, n, x
<1> DEFINE T == KidsWith(E, hash, n, x)
<1>1. x \in Kids(E, hash, n) <=>
          x \in UNION {hash[c] : c \in EdgesUp(E, n)} /\ Odd(T)
  BY DEF Kids, XorOver, KidsWith
<1>2. x \in UNION {hash[c] : c \in EdgesUp(E, n)} <=> T # {}
  BY DEF KidsWith
<1>3. Odd(T) => T # {}
  <2> HIDE DEF T
  <2> QED BY OddSingle
<1> QED
  BY <1>1, <1>2, <1>3

\* There are finitely many edges.
LEMMA EdgesFinite ==
    ASSUME IsFiniteSet(Node), NEW E \in SUBSET EdgeId
    PROVE  IsFiniteSet(E)
<1>1. IsFiniteSet(Node \cup {"root"})
  BY FS_AddElement
<1>2. IsFiniteSet(EdgeId)
  BY <1>1, FS_Product DEF EdgeId
<1> QED
  BY <1>2, FS_Subset

\* When one edge below n takes an update in, so does the XOR over them.
LEMMA KidsOne ==
    ASSUME IsFiniteSet(Node), NEW E \in SUBSET EdgeId, NEW hash, NEW h2, NEW n, NEW upd,
           NEW c \in EdgesUp(E, n), h2[c] = SymDiff(hash[c], upd),
           \A f \in EdgesUp(E, n) : f # c => h2[f] = hash[f]
    PROVE  Kids(E, h2, n) = SymDiff(Kids(E, hash, n), upd)
<1> DEFINE K == EdgesUp(E, n)
           A(x) == KidsWith(E, hash, n, x)
           B(x) == KidsWith(E, h2, n, x)
<1>1. IsFiniteSet(K)
  BY EdgesFinite DEF EdgesUp
<1>2. ASSUME NEW x PROVE Odd(B(x)) <=> ~(Odd(A(x)) <=> x \in upd)
  <2>1. IsFiniteSet(A(x)) /\ IsFiniteSet(B(x))
    BY <1>1, FS_Subset DEF KidsWith
  <2>2. x \in h2[c] <=> ~(x \in hash[c] <=> x \in upd)
    BY DEF SymDiff
  <2>3. CASE x \notin upd
    <3>1. A(x) = B(x)
      BY <2>2, <2>3 DEF KidsWith
    <3> QED
      BY <2>3, <3>1
  <2>4. CASE x \in upd /\ x \in hash[c]
    <3>1. c \notin B(x) /\ A(x) = B(x) \cup {c}
      BY <2>2, <2>4 DEF KidsWith
    <3> HIDE DEF A, B
    <3>2. Odd(A(x)) <=> ~Odd(B(x))
      BY <2>1, <3>1, OddAdd
    <3> QED
      BY <2>4, <3>2
  <2>5. CASE x \in upd /\ x \notin hash[c]
    <3>1. c \notin A(x) /\ B(x) = A(x) \cup {c}
      BY <2>2, <2>5 DEF KidsWith
    <3> HIDE DEF A, B
    <3>2. Odd(B(x)) <=> ~Odd(A(x))
      BY <2>1, <3>1, OddAdd
    <3> QED
      BY <2>5, <3>2
  <2> QED
    BY <2>3, <2>4, <2>5
<1>3. \A x : x \in Kids(E, h2, n) <=> ~(x \in Kids(E, hash, n) <=> x \in upd)
  BY <1>2, KidsIn
<1> QED
  BY <1>3 DEF SymDiff

\* When none does, it stays.
LEMMA KidsSame ==
    ASSUME NEW E, NEW F, NEW hash, NEW h2, NEW n, EdgesUp(E, n) = EdgesUp(F, n),
           \A f \in EdgesUp(E, n) : h2[f] = hash[f]
    PROVE  Kids(F, h2, n) = Kids(E, hash, n)
<1>1. ASSUME NEW x PROVE x \in Kids(F, h2, n) <=> x \in Kids(E, hash, n)
  <2>1. KidsWith(E, hash, n, x) = KidsWith(F, h2, n, x)
    BY DEF KidsWith
  <2> QED
    BY <2>1, KidsIn
<1> QED
  BY <1>1

\* updateHash: if the hashes of a tree are right but for an update that the
\* edges to id lack, then they are right when it has been walked up.
LEMMA UpdateCorrect ==
    ASSUME IsFiniteSet(Node), NEW E, Forest(E), Acyclic(E), NEW id \in Node,
           NEW hash, NEW own, NEW upd,
           \A e \in E : hash[e] =
               SymDiff(IF e[2] = id THEN SymDiff(own[e], upd) ELSE own[e],
                       Kids(E, hash, e[2]))
    PROVE  LET h2 == UpdateHash(E, hash, id, upd)
           IN  \A e \in E : h2[e] = SymDiff(own[e], Kids(E, h2, e[2]))
<1> DEFINE h2 == UpdateHash(E, hash, id, upd)
           W  == OnWay(E, id)
<1>1. E \in SUBSET EdgeId
  BY DEF Forest
<1>2. h2 = [e \in EdgeId |-> IF e \in E /\ e[2] \in W
                             THEN SymDiff(hash[e], upd) ELSE hash[e]]
  BY UpdateHashTree
<1>3. \A e \in E : h2[e] = IF e[2] \in W THEN SymDiff(hash[e], upd) ELSE hash[e]
  BY <1>1, <1>2
<1>4. /\ id \in W
      /\ \A x \in W : <<id, x>> \notin E
      /\ \A y \in W \ {id} : \E x \in W :
             /\ <<y, x>> \in E
             /\ \A z \in W : <<y, z>> \in E => z = x
      /\ \A x \in W, y \in Node : <<y, x>> \in E => y \in W
  BY WayUp
<1> HIDE DEF h2, W
<1>5. \A e \in E : e = <<e[1], e[2]>> /\ e[2] \in Node
  BY <1>1 DEF EdgeId
<1>6. \A n, f : f \in EdgesUp(E, n) <=> f \in E /\ f[1] = n
  BY DEF EdgesUp
<1>7. ASSUME NEW e \in E PROVE h2[e] = SymDiff(own[e], Kids(E, h2, e[2]))
  <2> DEFINE n == e[2]
  <2>1. CASE n = id
    <3>1. \A f \in EdgesUp(E, n) : h2[f] = hash[f]
      BY <1>3, <1>4, <1>5, <1>6, <2>1
    <3>2. Kids(E, h2, n) = Kids(E, hash, n)
      BY <3>1, KidsSame
    <3>3. h2[e] = SymDiff(hash[e], upd)
      BY <1>3, <1>4, <2>1
    <3>4. hash[e] = SymDiff(SymDiff(own[e], upd), Kids(E, hash, n))
      BY <2>1
    <3> QED
      BY <3>2, <3>3, <3>4 DEF SymDiff
  <2>2. CASE n # id /\ n \in W
    <3>1. PICK x \in W : <<n, x>> \in E /\ \A z \in W : <<n, z>> \in E => z = x
      BY <1>4, <2>2
    <3> DEFINE c == <<n, x>>
    <3>2. c \in EdgesUp(E, n) /\ c[2] = x
      BY <1>6, <3>1
    <3>3. h2[c] = SymDiff(hash[c], upd)
      BY <1>3, <3>1, <3>2
    <3>4. \A f \in EdgesUp(E, n) : f # c => h2[f] = hash[f]
      BY <1>3, <1>5, <1>6, <3>1
    <3> HIDE DEF c
    <3>5. Kids(E, h2, n) = SymDiff(Kids(E, hash, n), upd)
      BY <1>1, <3>2, <3>3, <3>4, KidsOne
    <3>6. h2[e] = SymDiff(hash[e], upd)
      BY <1>3, <2>2
    <3>7. hash[e] = SymDiff(own[e], Kids(E, hash, n))
      BY <2>2
    <3> QED
      BY <3>5, <3>6, <3>7 DEF SymDiff
  <2>3. CASE n \notin W
    <3>1. \A f \in EdgesUp(E, n) : h2[f] = hash[f]
      BY <1>3, <1>4, <1>5, <1>6, <2>3
    <3>2. Kids(E, h2, n) = Kids(E, hash, n)
      BY <3>1, KidsSame
    <3>3. h2[e] = hash[e] /\ n # id
      BY <1>3, <1>4, <2>3
    <3>4. hash[e] = SymDiff(own[e], Kids(E, hash, n))
      BY <3>3
    <3> QED
      BY <3>2, <3>3, <3>4
  <2> QED
    BY <2>1, <2>2, <2>3
<1> QED
  BY <1>7 DEF h2

-----------------------------------------------------------------------------
(* The transactions keep the hashes right *)

\* The hash of the points of each edge and of the node below it.
Own(d) == [e \in EdgeId |-> SymDiff(RowsHash(d.np[e[2]]), RowsHash(d.ep[e]))]

\* A database that holds trees with the right hashes.
HashedTrees(d) ==
    /\ d \in DB
    /\ Forest(d.edges) /\ Acyclic(d.edges)
    /\ \A n \in Node : Tidy(d.np[n])
    /\ \A e \in EdgeId : Tidy(d.ep[e])
    /\ \A e \in EdgeId \ d.edges : d.ep[e] = NoRows /\ d.hash[e] = {}
    /\ HashesCorrect(d)

\* CalcHash from its parts.
LEMMA CalcOwn ==
    ASSUME NEW d, NEW e \in EdgeId
    PROVE  CalcHash(d, e) = SymDiff(Own(d)[e], Kids(d.edges, d.hash, e[2]))
BY DEF CalcHash, Own, Kids

\* nodePoints keeps the hashes right.
LEMMA NodePointsHash ==
    ASSUME IsFiniteSet(Node), NEW d, HashedTrees(d), NEW id \in Node,
           NEW points \in Seq(Point), IdentsApart(points),
           NEW now \in Time, NEW d2 \in NodePoints(d, id, points, now)
    PROVE  HashedTrees(d2)
<1> DEFINE pts == Collapse(points)
           upd == HashUpdate(d.np[id], pts, now)
           E   == d.edges
           h2  == UpdateHash(E, d.hash, id, upd)
<1>1. /\ d \in DB /\ Forest(E) /\ Acyclic(E) /\ HashesCorrect(d)
      /\ E \in SUBSET EdgeId /\ d.np \in [Node -> Rows] /\ Tidy(d.np[id])
  BY DEF HashedTrees, DB
<1>2. d2 \in DB
  BY <1>1, NodePointsStep DEF NodeWritten
<1>3. pts \in SUBSET Point /\ Apart(pts)
  BY CollapseApart
<1>4. PICK rows \in MergeRows(d.np[id], pts, now) :
          d2 = [d EXCEPT !.np[id] = rows,
                         !.hash = UpdateHash(d.edges, @, id, upd)]
  BY DEF NodePoints
<1> HIDE DEF pts, upd
<1>5. /\ d2.np = [d.np EXCEPT ![id] = rows]
      /\ d2.hash = h2 /\ d2.edges = E /\ d2.ep = d.ep
  BY <1>1, <1>4 DEF DB
<1>6. Tidy(rows) /\ RowsHash(rows) = SymDiff(RowsHash(d.np[id]), upd)
  BY <1>1, <1>3, <1>4, MergeHash DEF upd
<1>7. \A n \in Node : d2.np[n] = IF n = id THEN rows ELSE d.np[n]
  BY <1>1, <1>5
<1>8. ASSUME NEW e \in EdgeId
      PROVE  Own(d)[e] = IF e[2] = id THEN SymDiff(Own(d2)[e], upd) ELSE Own(d2)[e]
  <2>1. e[2] \in Node
    BY DEF EdgeId
  <2>2. /\ Own(d)[e] = SymDiff(RowsHash(d.np[e[2]]), RowsHash(d.ep[e]))
        /\ Own(d2)[e] = SymDiff(RowsHash(d2.np[e[2]]), RowsHash(d.ep[e]))
    BY <1>5 DEF Own
  <2>3. CASE e[2] = id
    <3>1. RowsHash(d2.np[e[2]]) = SymDiff(RowsHash(d.np[id]), upd)
      BY <1>6, <1>7, <2>1, <2>3
    <3> QED
      BY <2>2, <2>3, <3>1 DEF SymDiff
  <2>4. CASE e[2] # id
    BY <1>7, <2>1, <2>2, <2>4
  <2> QED
    BY <2>3, <2>4
<1>9. \A e \in E : d.hash[e] =
          SymDiff(IF e[2] = id THEN SymDiff(Own(d2)[e], upd) ELSE Own(d2)[e],
                  Kids(E, d.hash, e[2]))
  <2> TAKE e \in E
  <2>1. e \in EdgeId
    BY <1>1
  <2>2. d.hash[e] = SymDiff(Own(d)[e], Kids(E, d.hash, e[2]))
    BY <1>1, <2>1, CalcOwn DEF HashesCorrect
  <2> QED
    BY <1>8, <2>1, <2>2
<1>10. \A e \in E : h2[e] = SymDiff(Own(d2)[e], Kids(E, h2, e[2]))
  BY <1>1, <1>9, UpdateCorrect
<1>11. HashesCorrect(d2)
  BY <1>1, <1>5, <1>10, CalcOwn DEF HashesCorrect
<1>12. \A e \in EdgeId \ E : h2[e] = d.hash[e]
  BY <1>1, UpdateHashTree
<1> HIDE DEF h2
<1> QED
  BY <1>2, <1>5, <1>6, <1>7, <1>11, <1>12 DEF HashedTrees

\* edgePoints keeps the hashes right, if an edge that is new is the first one
\* of its node.
LEMMA EdgeWritesHash ==
    ASSUME IsFiniteSet(Node), NEW d, HashedTrees(d), NEW id \in Node, NEW parent \in Hop,
           NEW points \in Seq(Point), IdentsApart(points), NEW now \in Time,
           parent # id, Acyclic(d.edges \cup {<<parent, id>>}),
           <<parent, id>> \notin d.edges => \A f \in d.edges : id \notin {f[1], f[2]},
           NEW d2 \in EdgeWrites(d, id, parent, points, now)
    PROVE  HashedTrees(d2)
<1> DEFINE e    == <<parent, id>>
           pts  == {p \in Collapse(points) : p.typ # "nodeType"}
           new  == e \notin d.edges
           base == HashUpdate(d.ep[e], pts, now)
           upd  == IF new THEN SymDiff(base, RowsHash(d.np[id])) ELSE base
           E    == d.edges \cup {e}
           h2   == UpdateHash(E, d.hash, id, upd)
<1>1. /\ d \in DB /\ Forest(d.edges) /\ HashesCorrect(d) /\ e \in EdgeId
      /\ d.edges \in SUBSET EdgeId /\ d.ep \in [EdgeId -> Rows] /\ Tidy(d.ep[e])
  BY DEF HashedTrees, DB, EdgeId, Hop
<1>2. d2 \in DB
  BY <1>1, EdgeWritesStep DEF EdgeWritten
<1>3. pts \in SUBSET Point /\ Apart(pts)
  BY CollapseApart
<1>4. PICK rows \in MergeRows(d.ep[e], pts, now) :
          d2 = [d EXCEPT !.ep[e]  = rows,
                         !.edges  = @ \cup {e},
                         !.typ[e] = IF new THEN NodeTypeOf(points) ELSE @,
                         !.root   = IF new /\ parent = "root" THEN id ELSE @,
                         !.hash   = UpdateHash(d.edges \cup {e}, @, id, upd)]
  BY DEF EdgeWrites
<1>5. e[1] = parent /\ e[2] = id
  OBVIOUS
<1>6. new => \A f \in d.edges : id # f[1] /\ id # f[2]
  OBVIOUS
<1>7. Acyclic(E)
  OBVIOUS
<1> HIDE DEF e, pts, base, upd, new
<1>8. /\ d2.ep = [d.ep EXCEPT ![e] = rows]
      /\ d2.hash = h2 /\ d2.edges = E /\ d2.np = d.np
  BY <1>1, <1>4 DEF DB
<1>9. Tidy(rows) /\ RowsHash(rows) = SymDiff(RowsHash(d.ep[e]), base)
  BY <1>1, <1>3, <1>4, MergeHash DEF base
<1>10. \A f \in EdgeId : d2.ep[f] = IF f = e THEN rows ELSE d.ep[f]
  BY <1>1, <1>8
<1>11. Forest(E)
  BY <1>1, <1>5, <1>6 DEF Forest, new
<1>12. \A f \in E : f[2] = id <=> f = e
  BY <1>5, <1>11 DEF Forest
<1>13. new => d.ep[e] = NoRows /\ d.hash[e] = {}
  BY <1>1 DEF HashedTrees, new
<1>14. ASSUME NEW n PROVE Kids(E, d.hash, n) = Kids(d.edges, d.hash, n)
  <2>1. CASE new
    <3>1. \A x : KidsWith(E, d.hash, n, x) = KidsWith(d.edges, d.hash, n, x)
      BY <1>13, <2>1 DEF KidsWith, EdgesUp
    <3>2. \A x : x \in Kids(E, d.hash, n) <=> x \in Kids(d.edges, d.hash, n)
      <4> HIDE DEF E
      <4> QED BY <3>1, KidsIn
    <3> QED
      BY <3>2
  <2>2. CASE ~new
    <3>1. E = d.edges
      BY <2>2 DEF new
    <3> QED
      BY <3>1
  <2> QED
    BY <2>1, <2>2
<1>15. ASSUME NEW f \in E
       PROVE  d.hash[f] =
                  SymDiff(IF f[2] = id THEN SymDiff(Own(d2)[f], upd) ELSE Own(d2)[f],
                          Kids(E, d.hash, f[2]))
  <2>1. f \in EdgeId
    BY <1>1
  <2>2. /\ Own(d)[f] = SymDiff(RowsHash(d.np[f[2]]), RowsHash(d.ep[f]))
        /\ Own(d2)[f] = SymDiff(RowsHash(d.np[f[2]]), RowsHash(d2.ep[f]))
    BY <1>8, <2>1 DEF Own
  <2>3. f \in d.edges => d.hash[f] = SymDiff(Own(d)[f], Kids(E, d.hash, f[2]))
    BY <1>1, <1>14, <2>1, CalcOwn DEF HashesCorrect
  <2>4. CASE f # e
    <3>1. f \in d.edges /\ f[2] # id
      BY <1>12, <2>4
    <3>2. Own(d2)[f] = Own(d)[f]
      BY <1>10, <2>1, <2>2, <2>4
    <3> QED
      BY <2>3, <3>1, <3>2
  <2>5. CASE f = e /\ ~new
    <3>1. f \in d.edges /\ f[2] = id /\ upd = base
      BY <1>5, <2>5 DEF new, upd
    <3>2. RowsHash(d2.ep[f]) = SymDiff(RowsHash(d.ep[f]), upd)
      BY <1>9, <1>10, <2>1, <2>5, <3>1
    <3>3. Own(d)[f] = SymDiff(Own(d2)[f], upd)
      BY <2>2, <3>2 DEF SymDiff
    <3> QED
      BY <2>3, <3>1, <3>3
  <2>6. CASE f = e /\ new
    <3>1. f[2] = id /\ upd = SymDiff(base, RowsHash(d.np[id])) /\ d.hash[f] = {}
      BY <1>5, <1>13, <2>6 DEF upd
    <3>2. RowsHash(d2.ep[f]) = base
      <4>1. RowsHash(d.ep[e]) = {}
        BY <1>13, <2>6, NoRowsHash
      <4>2. SymDiff({}, base) = base
        BY DEF SymDiff
      <4> QED
        BY <1>9, <1>10, <2>1, <2>6, <4>1, <4>2
    <3>3. Kids(E, d.hash, id) = {}
      <4>1. EdgesUp(E, id) = {}
        BY <1>5, <1>6, <2>6 DEF EdgesUp
      <4> QED
        BY <4>1 DEF Kids, XorOver
    <3>4. Own(d2)[f] = upd
      BY <2>2, <3>1, <3>2 DEF SymDiff
    <3> QED
      BY <3>1, <3>3, <3>4 DEF SymDiff
  <2> QED
    BY <2>4, <2>5, <2>6
<1>16. \A f \in E : h2[f] = SymDiff(Own(d2)[f], Kids(E, h2, f[2]))
  <2> HIDE DEF E
  <2> QED BY <1>7, <1>11, <1>15, UpdateCorrect
<1>17. HashesCorrect(d2)
  <2>1. E \in SUBSET EdgeId
    BY <1>1
  <2> HIDE DEF E, h2
  <2> QED
    BY <1>8, <1>16, <2>1, CalcOwn DEF HashesCorrect
<1>18. \A f \in EdgeId \ E : h2[f] = d.hash[f]
  BY <1>7, <1>11, UpdateHashTree
<1>19. \A f \in EdgeId \ E : d2.ep[f] = NoRows /\ d2.hash[f] = {}
  BY <1>8, <1>10, <1>18 DEF HashedTrees
<1>20. \A f \in EdgeId : Tidy(d2.ep[f])
  BY <1>9, <1>10 DEF HashedTrees
<1> HIDE DEF h2, E
<1> QED
  BY <1>2, <1>7, <1>8, <1>11, <1>17, <1>19, <1>20 DEF HashedTrees

-----------------------------------------------------------------------------
(* The store keeps the hashes right *)

\* No client sends two points of one identity in a message, and User.ToPoints
\* gives none.
BatchesApart ==
    /\ \A m \in NodeMsgs \cup EdgeMsgs : IdentsApart(m.pts)
    /\ IdentsApart(AdminPoints)

\* A database without rows holds trees with the right hashes.
LEMMA EmptyHashed ==
    ASSUME IsFiniteSet(Node)
    PROVE  HashedTrees(EmptyDB)
<1>1. EmptyDB \in DB /\ EmptyDB.edges = {}
  BY EmptyType
<1>2. Forest({})
  BY DEF Forest
<1>3. Acyclic({})
  <2>1. \A C : ~Circle({}, C)
    BY DEF Circle
  <2> QED
    BY <2>1, AcyclicNoCircle
<1>4. /\ \A n \in Node : EmptyDB.np[n] = NoRows
      /\ \A e \in EdgeId : EmptyDB.ep[e] = NoRows /\ EmptyDB.hash[e] = {}
  BY DEF EmptyDB
<1> HIDE DEF EmptyDB
<1> QED
  BY <1>1, <1>2, <1>3, <1>4, NoRowsHash DEF HashedTrees, HashesCorrect

\* The points initRoot writes have different identities.
LEMMA RootPointsApart ==
    ASSUME NEW typ \in {"device", "user"}
    PROVE  RootPoints(typ) \in Seq(Point) /\ IdentsApart(RootPoints(typ))
<1> DEFINE r == RootPoints(typ)
<1>1. r \in Seq(Point)
  BY RootPointsType
<1>2. Len(r) = 2 /\ r[1].typ = "tombstone" /\ r[2].typ = "nodeType"
  BY DEF RootPoints
<1> HIDE DEF r
<1>3. IdentOf(r[1])[1] = "tombstone" /\ IdentOf(r[2])[1] = "nodeType"
  BY <1>2 DEF IdentOf
<1>4. \A i, j \in DOMAIN r : i # j => IdentOf(r[i])[1] # IdentOf(r[j])[1]
  BY <1>1, <1>2, <1>3
<1>5. IdentsApart(r)
  BY <1>4 DEF IdentsApart
<1> QED
  BY <1>1, <1>5 DEF r

\* initRoot leaves a tree with the right hashes.
LEMMA HashedInit ==
    ASSUME IsFiniteSet(Node), BatchesApart,
           NEW d \in InitRoot(Root, Admin, AdminPoints)
    PROVE  HashedTrees(d)
<1>1. /\ Root \in Node /\ Admin \in Node /\ Root # Admin /\ "root" \notin Node
      /\ "root" \in Hop /\ Root \in Hop /\ 1 \in Time
      /\ AdminPoints \in Seq(Point) /\ IdentsApart(AdminPoints)
  BY StoreAssumption, DbAssumption DEF Hop, Time, BatchesApart
<1>2. PICK d1, d2 :
          /\ d1 \in EdgeWrites(EmptyDB, Root, "root", RootPoints("device"), 1)
          /\ d2 \in NodePoints(d1, Admin, AdminPoints, 1)
          /\ d \in EdgeWrites(d2, Admin, Root, RootPoints("user"), 1)
  BY DEF InitRoot
<1>3. Acyclic({<<"root", Root>>})
  <2>1. SUFFICES ASSUME NEW C, Circle({<<"root", Root>>}, C) PROVE FALSE
    BY AcyclicNoCircle
  <2> QED
    BY <1>1, <2>1 DEF Circle
<1>4. Acyclic({<<"root", Root>>, <<Root, Admin>>})
  <2>1. SUFFICES ASSUME NEW C, Circle({<<"root", Root>>, <<Root, Admin>>}, C)
                 PROVE  FALSE
    BY AcyclicNoCircle
  <2>2. "root" \notin C
    BY <1>1, <2>1 DEF Circle
  <2>3. Root \notin C
    BY <1>1, <2>1, <2>2 DEF Circle
  <2> QED
    BY <2>1, <2>2, <2>3 DEF Circle
<1>5. HashedTrees(EmptyDB) /\ EmptyDB \in DB /\ EmptyDB.edges = {}
  BY EmptyHashed, EmptyType
<1>6. /\ RootPoints("device") \in Seq(Point) /\ IdentsApart(RootPoints("device"))
      /\ RootPoints("user") \in Seq(Point) /\ IdentsApart(RootPoints("user"))
  BY RootPointsApart
<1> HIDE DEF EmptyDB
<1>7. HashedTrees(d1)
  <2>1. {} \cup {<<"root", Root>>} = {<<"root", Root>>}
    OBVIOUS
  <2>2. "root" # Root
    BY <1>1
  <2> QED
    BY <1>1, <1>2, <1>3, <1>5, <1>6, <2>1, <2>2, EdgeWritesHash
<1>8. d1.edges = {<<"root", Root>>}
  <2>1. EdgeWritten(EmptyDB, d1, Root, "root", RootPoints("device"), 1)
    BY <1>1, <1>2, <1>5, <1>6, EdgeWritesStep
  <2> QED
    BY <1>5, <2>1 DEF EdgeWritten
<1>9. HashedTrees(d2) /\ d2.edges = {<<"root", Root>>}
  <2>1. HashedTrees(d2)
    BY <1>1, <1>2, <1>7, NodePointsHash
  <2>2. d1 \in DB
    BY <1>7 DEF HashedTrees
  <2>3. NodeWritten(d1, d2, Admin, AdminPoints, 1)
    BY <1>1, <1>2, <2>2, NodePointsStep
  <2> QED
    BY <1>8, <2>1, <2>3 DEF NodeWritten
<1>10. \A f \in d2.edges : Admin \notin {f[1], f[2]}
  BY <1>1, <1>9
<1>11. Acyclic(d2.edges \cup {<<Root, Admin>>})
  <2>1. d2.edges \cup {<<Root, Admin>>} = {<<"root", Root>>, <<Root, Admin>>}
    BY <1>9
  <2> QED
    BY <1>4, <2>1
<1> QED
  BY <1>1, <1>2, <1>6, <1>9, <1>10, <1>11, EdgeWritesHash

\* What an edge message is waiting to write was sent to the edges there are.
Sent == edgeH.pc = "wait" => ClientSends(edgeH.msg)

\* Sent is an invariant: nothing but its own commit changes the edges.
LEMMA SentInvariant == Spec => []Sent
<1>1. Init => Sent
  BY DEF Init, IdleHandler, Sent
<1>2. ASSUME TInv, Sent, [Next]_vars PROVE Sent'
  <2>1. edgeH \in Handler
    BY <1>2 DEF TInv, TypeOK
  <2>2. CASE edgeH' = edgeH
    <3>1. CASE EdgeCommit
      <4>1. edgeH'.pc = "walk"
        BY <2>1, <3>1 DEF EdgeCommit, StartWalk, Handler
      <4> QED
        BY <4>1 DEF Sent
    <3>2. CASE ~EdgeCommit
      <4>1. db'.edges = db.edges
        BY <1>2, <3>2, EdgesStep
      <4> QED
        BY <1>2, <2>2, <4>1 DEF Sent, ClientSends
    <3> QED
      BY <3>1, <3>2
  <2>3. CASE EdgeReceive
    <3>1. PICK m \in EdgeMsgs :
              ClientSends(m) /\ edgeH' = [edgeH EXCEPT !.pc = "wait", !.msg = m]
      BY <2>3 DEF EdgeReceive
    <3>2. edgeH'.msg = m /\ db' = db
      BY <2>1, <2>3, <3>1 DEF EdgeReceive, Handler
    <3> QED
      BY <3>1, <3>2 DEF Sent, ClientSends
  <2>4. CASE EdgeCommit \/ EdgeRefuse \/ EdgeFail \/ EdgeDiverge \/ EdgeVisit
             \/ EdgeReply \/ Restart
    <3>1. CASE EdgeCommit \/ EdgeRefuse \/ EdgeFail
      <4>1. \E E : edgeH' = StartWalk(edgeH, E)
                   \/ edgeH' = [StartWalk(edgeH, E) EXCEPT !.err = TRUE]
        BY <3>1 DEF EdgeCommit, EdgeRefuse, EdgeFail
      <4>2. edgeH'.pc = "walk"
        BY <2>1, <4>1 DEF StartWalk, Handler
      <4> QED
        BY <4>2 DEF Sent
    <3>2. CASE EdgeDiverge
      <4>1. edgeH'.pc = "diverged"
        BY <2>1, <3>2 DEF EdgeDiverge, Handler
      <4> QED
        BY <4>1 DEF Sent
    <3>3. CASE EdgeVisit
      <4>1. edgeH'.pc = "walk"
        BY <2>1, <3>3 DEF EdgeVisit, Visit, Handler
      <4> QED
        BY <4>1 DEF Sent
    <3>4. CASE EdgeReply \/ Restart
      BY <3>4 DEF EdgeReply, Restart, IdleHandler, Sent
    <3> QED
      BY <2>4, <3>1, <3>2, <3>3, <3>4
  <2> QED
    BY <1>2, <2>2, <2>3, <2>4
       DEF Next, NodeReceive, NodeCommit, NodeFail, NodeVisit, NodeReply, ReadEdges,
           ReadEdgePoints, ReadNodePoints, Answer, vars
<1> QED
  BY <1>1, <1>2, TypeInvariant, PTL DEF Spec

\* No step of the store makes a hash wrong.
LEMMA HashedStep ==
    ASSUME IsFiniteSet(Node), TreesOnly, BatchesApart,
           TInv, Dag', Sent, HashedTrees(db), [Next]_vars
    PROVE  HashedTrees(db')
<1>1. CASE db' = db
  BY <1>1
<1>2. CASE NodeCommit /\ nodeH.msg \in NodeMsgs
  <2> DEFINE m == nodeH.msg
  <2>1. m.id \in Node /\ m.pts \in Seq(Point) /\ IdentsApart(m.pts)
    BY <1>2, MsgType DEF BatchesApart
  <2>2. PICK now \in Time : db' \in NodePoints(db, m.id, m.pts, now)
    BY <1>2, ClockType DEF NodeCommit
  <2> HIDE DEF m
  <2> QED
    BY <2>1, <2>2, NodePointsHash
<1>3. CASE EdgeCommit /\ edgeH.msg \in EdgeMsgs
  <2> DEFINE m == edgeH.msg
  <2>1. /\ m.id \in Node /\ m.parent \in Hop /\ m.pts \in Seq(Point)
        /\ IdentsApart(m.pts)
    BY <1>3, MsgType DEF BatchesApart
  <2>2. PICK now \in Time : db' \in EdgeWrites(db, m.id, m.parent, m.pts, now)
    BY <1>3, ClockType DEF EdgeCommit
  <2>3. m.parent # m.id
    BY <1>3 DEF EdgeCommit, Refused, EdgePointsError
  <2>4. ClientSends(m)
    BY <1>3 DEF EdgeCommit, Sent
  <2>5. PlaceOf(m) = <<m.parent, m.id>>
    BY DEF PlaceOf
  <2> HIDE DEF m
  <2>6. db \in DB
    BY DEF HashedTrees
  <2>7. db'.edges = db.edges \cup {<<m.parent, m.id>>}
    <3>1. EdgeWritten(db, db', m.id, m.parent, m.pts, now)
      BY <2>1, <2>2, <2>6, EdgeWritesStep
    <3> QED
      BY <3>1 DEF EdgeWritten
  <2>8. Acyclic(db.edges \cup {<<m.parent, m.id>>})
    BY <2>7 DEF Dag
  <2>9. <<m.parent, m.id>> \notin db.edges =>
            \A f \in db.edges : m.id \notin {f[1], f[2]}
    BY <2>4, <2>5 DEF ClientSends
  <2> QED
    BY <2>1, <2>2, <2>3, <2>8, <2>9, EdgeWritesHash
<1> QED
  BY <1>1, <1>2, <1>3, DbStep

\* nodePoints, edgePoints, updateHash: as long as clients build trees, the
\* incrementally updated hash of every edge is the one CalcHash computes from
\* scratch, for any number of nodes and whatever is written in what order.
THEOREM TreeHashesCorrect ==
    ASSUME IsFiniteSet(Node), TreesOnly, BatchesApart
    PROVE  Spec => []HashInv
<1> DEFINE I == HashedTrees(db)
<1>1. Init => I
  BY HashedInit DEF Init
<1>2. TInv /\ Dag' /\ Sent /\ I /\ [Next]_vars => I'
  BY HashedStep
<1>3. I => HashInv
  BY DEF HashedTrees, HashInv
<1> HIDE DEF I
<1> QED
  BY <1>1, <1>2, <1>3, TypeInvariant, SentInvariant, GraphStaysAcyclic, PTL DEF Spec

=============================================================================
