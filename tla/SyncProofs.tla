----------------------------- MODULE SyncProofs ------------------------------
(***************************************************************************)
(* The sync client has a subscription on R for every node of L when        *)
(* nothing is under way (LiveUpdates), for every tree, whatever users do   *)
(* and however often the connection is lost.                               *)
(*                                                                         *)
(* The invariant says why: a node that comes to L is in one of three       *)
(* places until the subscription is made.  It is in a call that is to be   *)
(* returned to, in an announcement of L, or it is subscribed.              *)
(***************************************************************************)
EXTENDS Sync, SequenceTheorems, FiniteSetTheorems, NaturalsInduction, TLAPS

-----------------------------------------------------------------------------
(* The invariant *)

EdgeSet == [t : Nat, dead : BOOLEAN]
MadeEdge == {e \in EdgeSet : e.t > 0}
OneStore == [pt : [Node -> Nat], edge : [Node -> EdgeSet]]
Stores == [{"L", "R"} -> OneStore]

CopySet == [pt : Nat, edge : EdgeSet]
HashSet == UNION {[M -> Nat \X EdgeSet] : M \in SUBSET Node}
Kid == [n : Node, copy : CopySet, hash : HashSet]
Ops == {"visit", "remote", "points", "edge", "list", "match", "up", "upEdge", "upKids", "down",
        "sub", "subSent", "init"}
TaskSet == [op : Ops, n : Node, loc : CopySet, rem : CopySet, hash : HashSet, kids : SUBSET Kid]

\* The nodes that a store has.
Has(d, s) == {n \in Node : d[s].edge[n].t > 0}

\* A call, if L has the nodes X: what it is about is there, and so is what it has read.
TaskOk(f, X) ==
    /\ f.op \in {"visit", "remote", "points", "edge", "subSent"} => f.n \in X
    /\ f.op \in {"remote", "points", "edge", "up", "upEdge", "down"} => f.loc.edge.t > 0
    /\ IsFiniteSet(f.kids)
    /\ \A k \in f.kids : k.n \in X /\ k.copy.edge.t > 0

\* A subscription is made for a node that is there or is sent right before.
AfterDown(w, X) ==
    \A i \in DOMAIN w : w[i].op = "sub" =>
        w[i].n \in X \/ (i > 1 /\ w[i-1].op = "down" /\ w[i-1].n = w[i].n)

\* A node that is sent to L is subscribed right after.
BeforeSub(w) ==
    \A i \in DOMAIN w : w[i].op = "down" =>
        i + 1 \in DOMAIN w /\ w[i+1].op = "sub" /\ w[i+1].n = w[i].n

Good(w, X) ==
    /\ w \in Seq(TaskSet)
    /\ \A i \in DOMAIN w : TaskOk(w[i], X)
    /\ AfterDown(w, X)
    /\ BeforeSub(w)

\* Nodes that calls will subscribe, and those that an announcement of L will.
SubsOf(w) == {w[i].n : i \in {i \in DOMAIN w : w[i].op = "sub"}}
NewOf(q) == {q[i].n : i \in {i \in DOMAIN q : ~q[i].e.dead}}

LocalPoint == [n : Node, t : Nat]
LocalEdge(X) == [n : X, e : MadeEdge, sent : BOOLEAN]
RemotePoint(X) == [n : X, edge : BOOLEAN, e : EdgeSet]

Inv ==
    /\ db \in Stores /\ now \in Nat
    /\ Device \in Has(db, "L")
    /\ Good(work, Has(db, "L"))
    /\ newEdges \in Seq(Has(db, "R"))
    /\ localPts \in Seq(LocalPoint)
    /\ localEdges \in Seq(LocalEdge(Has(db, "L")))
    /\ toLocal \subseteq RemotePoint(Has(db, "L"))
    /\ subs \subseteq Has(db, "L")
    /\ initialSub =>
          /\ conn # "none"
          /\ Has(db, "L") \subseteq subs \cup SubsOf(work) \cup NewOf(localEdges)

-----------------------------------------------------------------------------
(* Calls that are to be returned to *)

\* What is there stays there.
LEMMA GoodMore ==
    ASSUME NEW w, NEW X, NEW Y, X \subseteq Y, Good(w, X)
    PROVE  Good(w, Y)
BY DEF Good, TaskOk, AfterDown

\* No calls.
LEMMA GoodEmpty == \A X : Good(<<>>, X) /\ SubsOf(<<>>) = {}
BY DEF Good, AfterDown, BeforeSub, SubsOf

\* One call that neither sends a node to L nor subscribes one, or a subscription.
LEMMA GoodOne ==
    ASSUME NEW X, NEW f \in TaskSet, TaskOk(f, X), f.op # "down", f.op = "sub" => f.n \in X
    PROVE  Good(<<f>>, X) /\ (f.op = "sub" => f.n \in SubsOf(<<f>>))
<1>1. <<f>> \in Seq(TaskSet) /\ DOMAIN <<f>> = {1} /\ <<f>>[1] = f
  OBVIOUS
<1>2. Good(<<f>>, X)
  BY <1>1 DEF Good, AfterDown, BeforeSub
<1>3. f.op = "sub" => f.n \in SubsOf(<<f>>)
  BY <1>1 DEF SubsOf
<1> QED BY <1>2, <1>3

\* A node is sent to L, and subscribed.
LEMMA GoodDown ==
    ASSUME NEW X, NEW f \in TaskSet, NEW g \in TaskSet, TaskOk(f, X), TaskOk(g, X),
           f.op = "down", g.op = "sub", f.n = g.n
    PROVE  Good(<<f, g>>, X) /\ g.n \in SubsOf(<<f, g>>)
<1> DEFINE w == <<f, g>>
<1>1. w \in Seq(TaskSet) /\ DOMAIN w = {1, 2} /\ w[1] = f /\ w[2] = g
  OBVIOUS
<1> HIDE DEF w
<1>2. AfterDown(w, X)
  BY <1>1 DEF AfterDown
<1>3. BeforeSub(w)
  BY <1>1 DEF BeforeSub
<1>4. g.n \in SubsOf(w)
  BY <1>1 DEF SubsOf
<1> QED BY <1>1, <1>2, <1>3, <1>4 DEF Good, w

\* Calls, and then others.
LEMMA GoodConcat ==
    ASSUME NEW X, NEW v, NEW w, Good(v, X), Good(w, X), NEW r, r = v \o w
    PROVE  Good(r, X) /\ SubsOf(v) \subseteq SubsOf(r) /\ SubsOf(w) \subseteq SubsOf(r)
<1>1. v \in Seq(TaskSet) /\ w \in Seq(TaskSet)
  BY DEF Good
<1>2. r \in Seq(TaskSet)
  BY <1>1
<1>3. /\ DOMAIN r = 1 .. Len(v) + Len(w) /\ DOMAIN v = 1 .. Len(v) /\ DOMAIN w = 1 .. Len(w)
      /\ Len(v) \in Nat /\ Len(w) \in Nat
      /\ \A i \in 1 .. Len(v) : r[i] = v[i]
      /\ \A i \in 1 .. Len(w) : r[Len(v) + i] = w[i]
  BY <1>1
<1>4. \A i \in DOMAIN r : i \in DOMAIN v \/ (i - Len(v) \in DOMAIN w /\ r[i] = w[i - Len(v)])
  <2> TAKE i \in DOMAIN r
  <2>1. CASE i > Len(v)
    <3>1. i - Len(v) \in 1 .. Len(w) /\ Len(v) + (i - Len(v)) = i
      BY <1>3, <2>1
    <3> QED BY <1>3, <3>1
  <2>2. CASE ~(i > Len(v))
    BY <1>3, <2>2
  <2> QED BY <2>1, <2>2
<1>5. \A i \in DOMAIN r : TaskOk(r[i], X)
  BY <1>3, <1>4 DEF Good
<1>6. AfterDown(r, X)
  <2> SUFFICES ASSUME NEW i \in DOMAIN r, r[i].op = "sub", r[i].n \notin X
               PROVE  i > 1 /\ r[i-1].op = "down" /\ r[i-1].n = r[i].n
    BY DEF AfterDown
  <2>1. CASE i \in DOMAIN v
    <3>1. i > 1 /\ v[i-1].op = "down" /\ v[i-1].n = v[i].n
      BY <1>3, <2>1 DEF Good, AfterDown
    <3> QED BY <1>3, <2>1, <3>1
  <2>2. CASE i - Len(v) \in DOMAIN w /\ r[i] = w[i - Len(v)]
    <3> DEFINE j == i - Len(v)
    <3>1. j > 1 /\ w[j-1].op = "down" /\ w[j-1].n = w[j].n
      <4>1. j \in DOMAIN w /\ w[j].op = "sub" /\ w[j].n \notin X
        BY <2>2
      <4> HIDE DEF j
      <4> QED BY <4>1 DEF Good, AfterDown
    <3>2. j - 1 \in 1 .. Len(w) /\ Len(v) + (j - 1) = i - 1
      <4>1. j \in 1 .. Len(w) /\ j > 1 /\ i \in Int /\ Len(v) \in Int /\ Len(w) \in Int
        BY <1>3, <2>2, <3>1
      <4>2. Len(v) + (j - 1) = i - 1
        BY <4>1
      <4> HIDE DEF j
      <4>3. j - 1 \in 1 .. Len(w)
        BY <4>1
      <4> QED BY <4>2, <4>3
    <3>3. r[i-1] = w[j-1]
      BY <1>3, <3>2
    <3> QED BY <1>3, <2>2, <3>1, <3>3
  <2> QED BY <1>4, <2>1, <2>2
<1>7. BeforeSub(r)
  <2> SUFFICES ASSUME NEW i \in DOMAIN r, r[i].op = "down"
               PROVE  i + 1 \in DOMAIN r /\ r[i+1].op = "sub" /\ r[i+1].n = r[i].n
    BY DEF BeforeSub
  <2>1. CASE i \in DOMAIN v
    <3>1. i + 1 \in DOMAIN v /\ v[i+1].op = "sub" /\ v[i+1].n = v[i].n
      BY <1>3, <2>1 DEF Good, BeforeSub
    <3> QED BY <1>3, <2>1, <3>1
  <2>2. CASE i - Len(v) \in DOMAIN w /\ r[i] = w[i - Len(v)]
    <3> DEFINE j == i - Len(v)
    <3>1. j + 1 \in DOMAIN w /\ w[j+1].op = "sub" /\ w[j+1].n = w[j].n
      <4>1. j \in DOMAIN w /\ w[j].op = "down"
        BY <2>2
      <4> HIDE DEF j
      <4> QED BY <4>1 DEF Good, BeforeSub
    <3>2. j + 1 \in 1 .. Len(w) /\ Len(v) + (j + 1) = i + 1
      BY <1>3, <2>2, <3>1
    <3>3. r[i+1] = w[j+1] /\ i + 1 \in DOMAIN r
      BY <1>3, <3>2
    <3> QED BY <1>3, <2>2, <3>1, <3>3
  <2> QED BY <1>4, <2>1, <2>2
<1>8. SubsOf(v) \subseteq SubsOf(r) /\ SubsOf(w) \subseteq SubsOf(r)
  <2>1. ASSUME NEW n \in SubsOf(v) PROVE n \in SubsOf(r)
    <3>1. PICK i \in DOMAIN v : v[i].op = "sub" /\ v[i].n = n
      BY DEF SubsOf
    <3>2. i \in DOMAIN r /\ r[i] = v[i]
      BY <1>3
    <3> QED BY <3>1, <3>2 DEF SubsOf
  <2>2. ASSUME NEW n \in SubsOf(w) PROVE n \in SubsOf(r)
    <3>1. PICK i \in DOMAIN w : w[i].op = "sub" /\ w[i].n = n
      BY DEF SubsOf
    <3>2. Len(v) + i \in DOMAIN r /\ r[Len(v) + i] = w[i]
      BY <1>3
    <3> QED BY <3>1, <3>2 DEF SubsOf
  <2> QED BY <2>1, <2>2
<1> QED BY <1>2, <1>5, <1>6, <1>7, <1>8 DEF Good

\* Nodes that the calls before the i-th one will subscribe.
SubsBefore(w, i) == {w[j].n : j \in {j \in 1 .. i - 1 : w[j].op = "sub"}}

\* The calls from the i-th one on, if the one before does not send a node to L.
LEMMA GoodFrom ==
    ASSUME NEW X, NEW Y, NEW w, Good(w, X), X \subseteq Y, NEW i \in 1 .. Len(w) + 1,
           i > 1 /\ w[i-1].op = "down" => w[i-1].n \in Y
    PROVE  /\ Good(SubSeq(w, i, Len(w)), Y)
           /\ SubsOf(w) \subseteq SubsOf(SubSeq(w, i, Len(w))) \cup SubsBefore(w, i)
<1> DEFINE r == SubSeq(w, i, Len(w))
           l == Len(w) - i + 1
<1>1. w \in Seq(TaskSet) /\ Len(w) \in Nat /\ DOMAIN w = 1 .. Len(w)
  BY DEF Good
<1>2. r \in Seq(TaskSet)
  BY <1>1
<1>3. l \in Nat /\ DOMAIN r = 1 .. l /\ \A j \in 1 .. l : r[j] = w[i + j - 1]
  BY <1>1
<1>4. \A j \in 1 .. l : i + j - 1 \in DOMAIN w
  BY <1>1, <1>3
<1> HIDE DEF r
<1>5. \A j \in DOMAIN r : TaskOk(r[j], Y)
  <2>1. \A j \in DOMAIN w : TaskOk(w[j], Y)
    BY GoodMore DEF Good
  <2> QED BY <1>3, <1>4, <2>1
<1>6. AfterDown(r, Y)
  <2> SUFFICES ASSUME NEW j \in DOMAIN r, r[j].op = "sub", r[j].n \notin Y
               PROVE  j > 1 /\ r[j-1].op = "down" /\ r[j-1].n = r[j].n
    BY DEF AfterDown
  <2> DEFINE k == i + j - 1
  <2>1. k \in DOMAIN w /\ w[k] = r[j]
    BY <1>3, <1>4
  <2>2. k > 1 /\ w[k-1].op = "down" /\ w[k-1].n = w[k].n
    <3> HIDE DEF k
    <3> QED BY <2>1 DEF Good, AfterDown
  <2>3. CASE j = 1
    <3>1. k = i
      BY <1>1, <2>3
    <3> HIDE DEF k
    <3> QED BY <2>1, <2>2, <3>1
  <2>4. CASE j # 1
    <3>1. j - 1 \in 1 .. l /\ i + (j - 1) - 1 = k - 1
      BY <1>3, <2>4
    <3>2. r[j-1] = w[k-1]
      BY <1>3, <3>1
    <3> QED BY <1>3, <2>1, <2>2, <2>4, <3>2
  <2> QED BY <2>3, <2>4
<1>7. BeforeSub(r)
  <2> SUFFICES ASSUME NEW j \in DOMAIN r, r[j].op = "down"
               PROVE  j + 1 \in DOMAIN r /\ r[j+1].op = "sub" /\ r[j+1].n = r[j].n
    BY DEF BeforeSub
  <2> DEFINE k == i + j - 1
  <2>1. k \in DOMAIN w /\ w[k] = r[j]
    BY <1>3, <1>4
  <2>2. k + 1 \in DOMAIN w /\ w[k+1].op = "sub" /\ w[k+1].n = w[k].n
    <3> HIDE DEF k
    <3> QED BY <2>1 DEF Good, BeforeSub
  <2>3. j + 1 \in 1 .. l /\ i + (j + 1) - 1 = k + 1
    BY <1>1, <1>3, <2>2
  <2>4. r[j+1] = w[k+1]
    BY <1>3, <2>3
  <2> QED BY <1>3, <2>1, <2>2, <2>3, <2>4
<1>8. ASSUME NEW n \in SubsOf(w)
      PROVE  n \in SubsOf(r) \/ n \in SubsBefore(w, i)
  <2>1. PICK k \in DOMAIN w : w[k].op = "sub" /\ w[k].n = n
    BY DEF SubsOf
  <2>2. CASE k < i
    BY <1>1, <2>1, <2>2 DEF SubsBefore
  <2>3. CASE ~(k < i)
    <3> DEFINE j == k - i + 1
    <3>1. j \in 1 .. l /\ i + j - 1 = k
      BY <1>1, <2>3
    <3>2. j \in DOMAIN r /\ r[j] = w[k]
      BY <1>3, <3>1
    <3> QED BY <2>1, <3>2 DEF SubsOf
  <2> QED BY <2>2, <2>3
<1> QED BY <1>2, <1>5, <1>6, <1>7, <1>8 DEF Good, r

\* The calls after the one under way.
LEMMA GoodTail ==
    ASSUME NEW X, NEW Y, NEW w, Good(w, X), X \subseteq Y, w # <<>>,
           Head(w).op = "down" => Head(w).n \in Y
    PROVE  /\ Head(w) \in TaskSet /\ TaskOk(Head(w), X)
           /\ Good(Tail(w), Y)
           /\ SubsOf(w) \subseteq SubsOf(Tail(w)) \cup IF Head(w).op = "sub" THEN {Head(w).n} ELSE {}
           /\ Head(w).op = "sub" => Head(w).n \in X
           /\ Head(w).op = "down" => Head(w).n \in SubsOf(Tail(w))
<1>1. w \in Seq(TaskSet) /\ Len(w) \in Nat /\ DOMAIN w = 1 .. Len(w) /\ Len(w) > 0
      /\ Head(w) = w[1] /\ 1 \in DOMAIN w
  BY DEF Good
<1>2. Tail(w) = SubSeq(w, 2, Len(w))
  BY <1>1
<1> DEFINE r == Tail(w)
<1>3. /\ Good(r, Y)
      /\ SubsOf(w) \subseteq SubsOf(r) \cup SubsBefore(w, 2)
  <2>1. PICK i \in 1 .. Len(w) + 1 : i = 2
    BY <1>1
  <2>2. i > 1 /\ w[i-1].op = "down" => w[i-1].n \in Y
    BY <1>1, <2>1
  <2>3. /\ Good(SubSeq(w, i, Len(w)), Y)
        /\ SubsOf(w) \subseteq SubsOf(SubSeq(w, i, Len(w))) \cup SubsBefore(w, i)
    BY <2>2, GoodFrom
  <2> QED BY <1>2, <2>1, <2>3
<1>4. Head(w) \in TaskSet /\ TaskOk(Head(w), X)
  BY <1>1 DEF Good
<1>5. Head(w).op = "sub" => Head(w).n \in X
  BY <1>1 DEF Good, AfterDown
<1>6. Head(w).op = "down" => Head(w).n \in SubsOf(r)
  <2> SUFFICES ASSUME Head(w).op = "down" PROVE Head(w).n \in SubsOf(r)
    OBVIOUS
  <2>1. 2 \in DOMAIN w /\ w[2].op = "sub" /\ w[2].n = w[1].n
    BY <1>1 DEF Good, BeforeSub
  <2>2. 1 \in DOMAIN r /\ r[1] = w[2]
    BY <1>1, <2>1
  <2> HIDE DEF r
  <2> QED BY <1>1, <2>1, <2>2 DEF SubsOf
<1>7. SubsOf(w) \subseteq SubsOf(r) \cup IF Head(w).op = "sub" THEN {Head(w).n} ELSE {}
  <2> HIDE DEF r
  <2>1. SubsBefore(w, 2) \subseteq IF Head(w).op = "sub" THEN {Head(w).n} ELSE {}
    BY <1>1 DEF SubsBefore
  <2> QED BY <1>3, <2>1
<1> QED BY <1>3, <1>4, <1>5, <1>6, <1>7

-----------------------------------------------------------------------------
(* Sequences that the client makes of sets and of sequences *)

\* A set of numbers that has 0 and every successor has all of them.
LEMMA SetInduction ==
    ASSUME NEW S \in SUBSET Nat, 0 \in S, \A n \in S : n + 1 \in S
    PROVE  S = Nat
<1> DEFINE T == Nat \ S
           R == {ss \in Nat \X Nat : ss[1] < ss[2]}
<1>1. IsWellFoundedOn(R, Nat)
  BY NatLessThanWellFounded DEF OpToRel
<1>2. SUFFICES ASSUME T # {} PROVE FALSE
  OBVIOUS
<1>3. PICK x \in T : \A y \in T : <<y, x>> \notin R
  <2> HIDE DEF R
  <2>1. T \subseteq Nat
    OBVIOUS
  <2> HIDE DEF T
  <2> QED BY <1>1, <1>2, <2>1, WFMin
<1>4. x \in Nat /\ x # 0 /\ x - 1 \in Nat
  OBVIOUS
<1>5. x - 1 \notin T
  <2>1. <<x - 1, x>> \in R
    BY <1>4
  <2> HIDE DEF R, T
  <2> QED BY <1>3, <2>1
<1>6. (x - 1) + 1 \in S
  BY <1>4, <1>5
<1> QED BY <1>4, <1>6

\* A set of numbers that is not empty has a least one.
LEMMA LeastOf ==
    ASSUME NEW I \in SUBSET Nat, I # {}
    PROVE  Min(I) \in I /\ \A y \in I : Min(I) <= y
<1> DEFINE R == {ss \in Nat \X Nat : ss[1] < ss[2]}
<1>1. IsWellFoundedOn(R, Nat)
  BY NatLessThanWellFounded DEF OpToRel
<1>2. PICK x \in I : \A y \in I : <<y, x>> \notin R
  <2> HIDE DEF R
  <2> QED BY <1>1, WFMin
<1>3. ASSUME NEW y \in I PROVE x <= y
  <2>1. x \in Nat /\ y \in Nat
    OBVIOUS
  <2>2. y < x => <<y, x>> \in R
    BY <2>1
  <2> HIDE DEF R
  <2> QED BY <1>2, <2>1, <2>2
<1>4. \E z \in I : \A y \in I : z <= y
  BY <1>3
<1> QED BY <1>4, Zenon DEF Min

\* The equation of flatten, up to the m-th sequence.
IsFlat(g, q, m) == g = [i \in 1 .. m |-> IF i = 1 THEN q[i] ELSE g[i-1] \o q[i]]

\* Up to every one there is a function that satisfies it.
LEMMA FlatExists ==
    ASSUME NEW q
    PROVE  \A m \in Nat : \E g : IsFlat(g, q, m)
<1> DEFINE S == {m \in Nat : \E g : IsFlat(g, q, m)}
<1>1. 0 \in S
  <2>1. IsFlat([i \in 1 .. 0 |-> q[i]], q, 0)
    BY DEF IsFlat
  <2> QED BY <2>1
<1>2. ASSUME NEW m \in S PROVE m + 1 \in S
  <2>1. PICK g : IsFlat(g, q, m)
    OBVIOUS
  <2> DEFINE last == IF m + 1 = 1 THEN q[m+1] ELSE g[m] \o q[m+1]
             h == [i \in 1 .. m + 1 |-> IF i = m + 1 THEN last ELSE g[i]]
  <2>2. \A i \in 1 .. m : h[i] = g[i]
    OBVIOUS
  <2>3. \A i \in 1 .. m + 1 : h[i] = IF i = 1 THEN q[i] ELSE h[i-1] \o q[i]
    <3> TAKE i \in 1 .. m + 1
    <3>2. CASE i = m + 1
      <4>1. h[i] = last
        BY <3>2
      <4>2. m # 0 => h[i-1] = g[m]
        BY <2>2, <3>2
      <4> HIDE DEF h
      <4> QED BY <3>2, <4>1, <4>2
    <3>3. CASE i \in 1 .. m
      <4>1. h[i] = g[i] /\ (i # 1 => h[i-1] = g[i-1])
        BY <2>2, <3>3
      <4>2. g[i] = IF i = 1 THEN q[i] ELSE g[i-1] \o q[i]
        BY <2>1, <3>3 DEF IsFlat
      <4> HIDE DEF h
      <4> QED BY <4>1, <4>2
    <3> QED BY <3>2, <3>3
  <2>4. IsFlat(h, q, m + 1)
    <3> DEFINE f == [i \in 1 .. m + 1 |-> IF i = 1 THEN q[i] ELSE h[i-1] \o q[i]]
    <3>1. h = f
      BY <2>3
    <3> QED BY <3>1 DEF IsFlat
  <2> QED BY <2>4
<1>3. S \in SUBSET Nat
  OBVIOUS
<1> HIDE DEF S
<1>4. S = Nat
  BY <1>1, <1>2, <1>3, SetInduction
<1> QED BY <1>4 DEF S

\* Sequences from a set that is closed under concatenation, one after the other.
LEMMA FlattenIn ==
    ASSUME NEW S, NEW q \in Seq(S), \A a \in S, b \in S : a \o b \in S
    PROVE  FlattenSeq(q) \in S \/ FlattenSeq(q) = <<>>
<1> DEFINE M == Len(q)
           Eq(g) == g = [i \in 1 .. M |-> IF i = 1 THEN q[i] ELSE g[i-1] \o q[i]]
           R == CHOOSE g : Eq(g)
<1>1. M \in Nat /\ \A i \in 1 .. M : q[i] \in S
  OBVIOUS
<1>2. CASE M = 0
  <2>1. FlattenSeq(q) = q
    BY <1>2, Zenon DEF FlattenSeq
  <2>2. q = <<>>
    BY <1>2
  <2> QED BY <2>1, <2>2
<1>3. CASE M # 0
  <2>1. \E g : Eq(g)
    <3>1. \E g : IsFlat(g, q, M)
      BY <1>1, FlatExists
    <3> HIDE DEF M
    <3> QED BY <3>1, Zenon DEF IsFlat
  <2>2. Eq(R)
    BY <2>1, Zenon
  <2>3. FlattenSeq(q) = R[M]
    BY <1>3, Zenon DEF FlattenSeq
  <2> HIDE DEF R
  <2> DEFINE F == [i \in 1 .. M |-> IF i = 1 THEN q[i] ELSE R[i-1] \o q[i]]
  <2>4. R = F
    BY <2>2, Zenon
  <2> HIDE DEF M, Eq
  <2>5. \A i \in 1 .. M : F[i] = IF i = 1 THEN q[i] ELSE R[i-1] \o q[i]
    BY <1>1
  <2> HIDE DEF F
  <2>6. \A i \in 1 .. M : R[i] = IF i = 1 THEN q[i] ELSE R[i-1] \o q[i]
    BY <2>4, <2>5
  <2> DEFINE T == {k \in Nat : k + 1 <= M => R[k+1] \in S}
  <2>7. 0 \in T
    BY <1>1, <1>3, <2>6
  <2>8. ASSUME NEW k \in T PROVE k + 1 \in T
    <3> SUFFICES ASSUME (k + 1) + 1 <= M PROVE R[(k+1)+1] \in S
      OBVIOUS
    <3>1. R[k+1] \in S
      BY <1>1
    <3>2. (k + 1) + 1 \in 1 .. M /\ (k + 1) + 1 # 1 /\ ((k + 1) + 1) - 1 = k + 1
      BY <1>1
    <3>3. R[(k+1)+1] = R[k+1] \o q[(k+1)+1]
      BY <2>6, <3>2
    <3>4. q[(k+1)+1] \in S
      BY <1>1, <3>2
    <3> QED BY <3>1, <3>3, <3>4
  <2>9. T \in SUBSET Nat
    OBVIOUS
  <2>10. T = Nat
    <3> HIDE DEF T
    <3> QED BY <2>7, <2>8, <2>9, SetInduction
  <2>11. M - 1 \in T
    <3> HIDE DEF T
    <3> QED BY <1>1, <1>3, <2>10
  <2>12. R[M] \in S
    BY <1>1, <1>3, <2>11
  <2> QED BY <2>3, <2>12
<1> QED BY <1>2, <1>3

\* A finite set, as a sequence.
LEMMA SetToSeqIn ==
    ASSUME NEW S, IsFiniteSet(S)
    PROVE  SetToSeq(S) \in [1 .. Cardinality(S) -> S] /\ Cardinality(S) \in Nat
<1>1. Cardinality(S) \in Nat
  BY FS_CardinalityType
<1>2. \E f \in [1 .. Cardinality(S) -> S] : IsInjective(f)
  BY FS_NatBijection, FS_CardinalityType DEF ExistsBijection, Bijection, Injection
<1> QED BY <1>1, <1>2, Zenon DEF SetToSeq

\* Nodes can be counted, and so can what is made of them.
LEMMA FewNodes ==
    ASSUME NEW M \in SUBSET Node, NEW f
    PROVE  IsFiniteSet(M) /\ IsFiniteSet({f[m] : m \in M})
<1>1. IsFiniteSet(M)
  BY SyncAssumption, FS_Subset
<1> DEFINE T == {f[m] : m \in M}
           g == [m \in M |-> f[m]]
<1>2. g \in Surjection(M, T)
  BY DEF Surjection
<1>3. IsFiniteSet(T)
  BY <1>1, <1>2, FS_Surjection
<1> QED BY <1>1, <1>3

-----------------------------------------------------------------------------
(* The stores *)

\* A point makes no node.
LEMMA PutPointHas ==
    ASSUME NEW d \in Stores, NEW s \in {"L", "R"}, NEW n \in Node, NEW t \in Nat
    PROVE  PutPoint(d, s, n, t) \in Stores /\ \A r \in {"L", "R"} : Has(PutPoint(d, s, n, t), r) = Has(d, r)
<1> DEFINE v == IF t >= d[s].pt[n] THEN t ELSE d[s].pt[n]
           u == [d[s] EXCEPT !.pt = [d[s].pt EXCEPT ![n] = v]]
           e == [d EXCEPT ![s] = u]
<1>1. d[s] \in OneStore /\ d[s].pt \in [Node -> Nat]
  BY DEF Stores, OneStore
<1>2. PutPoint(d, s, n, t) = e
  BY <1>1 DEF PutPoint, Stores, OneStore
<1>3. v \in Nat
  BY <1>1
<1> HIDE DEF v
<1>4. u \in OneStore /\ u.edge = d[s].edge
  BY <1>1, <1>3 DEF OneStore
<1> HIDE DEF u
<1>5. e \in Stores /\ \A r \in {"L", "R"} : e[r].edge = d[r].edge
  BY <1>4 DEF Stores
<1> HIDE DEF e
<1> QED BY <1>2, <1>5 DEF Has

\* An edge makes its node, and nothing is lost.
LEMMA PutEdgeHas ==
    ASSUME NEW d \in Stores, NEW s \in {"L", "R"}, NEW n \in Node, NEW e \in EdgeSet
    PROVE  /\ PutEdge(d, s, n, e) \in Stores
           /\ \A r \in {"L", "R"} : Has(d, r) \subseteq Has(PutEdge(d, s, n, e), r)
           /\ \A r \in {"L", "R"} : r # s => Has(PutEdge(d, s, n, e), r) = Has(d, r)
           /\ Has(PutEdge(d, s, n, e), s) \subseteq Has(d, s) \cup {n}
           /\ e.t > 0 => n \in Has(PutEdge(d, s, n, e), s)
<1> DEFINE v == IF e.t >= d[s].edge[n].t THEN e ELSE d[s].edge[n]
           u == [d[s] EXCEPT !.edge = [d[s].edge EXCEPT ![n] = v]]
           f == [d EXCEPT ![s] = u]
<1>1. d[s] \in OneStore /\ d[s].edge \in [Node -> EdgeSet] /\ e.t \in Nat /\ d[s].edge[n].t \in Nat
      /\ d[s].edge[n] \in EdgeSet
  BY DEF Stores, OneStore, EdgeSet
<1>2. PutEdge(d, s, n, e) = f
  BY <1>1 DEF PutEdge, Stores, OneStore
<1>3. v \in EdgeSet /\ (d[s].edge[n].t > 0 => v.t > 0) /\ (e.t > 0 => v.t > 0)
  BY <1>1
<1> HIDE DEF v
<1>4. u \in OneStore /\ u.edge = [d[s].edge EXCEPT ![n] = v]
  BY <1>1, <1>3 DEF OneStore
<1>5. \A m \in Node : u.edge[m] = IF m = n THEN v ELSE d[s].edge[m]
  BY <1>1, <1>4
<1> HIDE DEF u
<1>6. f \in Stores /\ f[s] = u /\ \A r \in {"L", "R"} : r # s => f[r] = d[r]
  BY <1>4 DEF Stores
<1> HIDE DEF f
<1>7. Has(d, s) \subseteq Has(f, s) /\ Has(f, s) \subseteq Has(d, s) \cup {n} /\ (e.t > 0 => n \in Has(f, s))
  BY <1>3, <1>5, <1>6 DEF Has
<1>8. \A r \in {"L", "R"} : r # s => Has(f, r) = Has(d, r)
  BY <1>6 DEF Has
<1>9. \A r \in {"L", "R"} : Has(d, r) \subseteq Has(f, r)
  BY <1>7, <1>8
<1> QED BY <1>2, <1>6, <1>7, <1>8, <1>9

\* What a query returns.
LEMMA CopyIn ==
    ASSUME db \in Stores, NEW s \in {"L", "R"}, NEW n \in Node
    PROVE  /\ Copy(s, n) \in CopySet /\ (n \in Has(db, s) => Copy(s, n).edge.t > 0)
           /\ Hash(s, n) \in HashSet
           /\ Exists(s, n) <=> n \in Has(db, s)
<1>1. db[s].pt \in [Node -> Nat] /\ db[s].edge \in [Node -> EdgeSet]
  BY DEF Stores, OneStore
<1>2. Copy(s, n) \in CopySet /\ (n \in Has(db, s) => Copy(s, n).edge.t > 0)
  BY <1>1 DEF Copy, CopySet, Has
<1>3. Hash(s, n) \in HashSet
  <2> DEFINE M == {m \in Below(n) : m = Device \/ Exists(s, m)}
  <2>1. M \in SUBSET Node
    BY DEF Below
  <2>2. NoEdge \in EdgeSet
    BY DEF NoEdge, EdgeSet
  <2>3. Hash(s, n) = [m \in M |-> <<db[s].pt[m], IF m = Device THEN NoEdge ELSE db[s].edge[m]>>]
    BY DEF Hash
  <2> HIDE DEF M
  <2>4. \A m \in M : <<db[s].pt[m], IF m = Device THEN NoEdge ELSE db[s].edge[m]>> \in Nat \X EdgeSet
    BY <1>1, <2>1, <2>2
  <2>5. Hash(s, n) \in [M -> Nat \X EdgeSet]
    BY <2>3, <2>4
  <2> QED BY <2>1, <2>5 DEF HashSet
<1> QED BY <1>2, <1>3 DEF Exists, Has

\* No hash.
LEMMA NoHash == <<>> \in HashSet
<1>1. <<>> \in [{} -> Nat \X EdgeSet]
  OBVIOUS
<1> QED BY <1>1 DEF HashSet

\* The calls that are made.
LEMMA TaskIn ==
    ASSUME NEW op \in Ops, NEW n \in Node
    PROVE  /\ Task(op, n) \in TaskSet /\ Task(op, n).op = op /\ Task(op, n).n = n
           /\ Task(op, n).kids = {} /\ IsFiniteSet(Task(op, n).kids)
<1>1. NoCopy \in CopySet
  BY DEF NoCopy, NoEdge, CopySet, EdgeSet
<1>2. Task(op, n) \in TaskSet /\ Task(op, n).op = op /\ Task(op, n).n = n /\ Task(op, n).kids = {}
  BY <1>1, NoHash DEF Task, TaskSet
<1> QED BY <1>2, FS_EmptySet

\* Those that send a copy.
LEMMA SendIn ==
    ASSUME NEW op \in Ops, NEW n \in Node, NEW c \in CopySet
    PROVE  /\ Send(op, n, c) \in TaskSet /\ Send(op, n, c).op = op /\ Send(op, n, c).n = n
           /\ Send(op, n, c).kids = {} /\ Send(op, n, c).loc = c
           /\ IsFiniteSet(Send(op, n, c).kids)
<1>1. Task(op, n) \in TaskSet
  BY TaskIn
<1>2. Send(op, n, c) \in TaskSet /\ Send(op, n, c).loc = c /\ Send(op, n, c).op = Task(op, n).op
      /\ Send(op, n, c).n = Task(op, n).n /\ Send(op, n, c).kids = Task(op, n).kids
  <2> DEFINE f == Task(op, n)
  <2> HIDE DEF f
  <2>1. f \in TaskSet
    BY <1>1 DEF f
  <2>2. Send(op, n, c) = [f EXCEPT !.loc = c]
    BY DEF Send, f
  <2> QED BY <2>1, <2>2 DEF TaskSet, f
<1> QED BY <1>2, TaskIn

-----------------------------------------------------------------------------
(* Announcements of L *)

\* One more.
LEMMA NewAppend ==
    ASSUME NEW X, NEW q \in Seq(LocalEdge(X)), NEW p \in LocalEdge(X)
    PROVE  /\ Append(q, p) \in Seq(LocalEdge(X))
           /\ NewOf(q) \subseteq NewOf(Append(q, p))
           /\ ~p.e.dead => p.n \in NewOf(Append(q, p))
<1> DEFINE r == Append(q, p)
<1>1. /\ r \in Seq(LocalEdge(X)) /\ DOMAIN q = 1 .. Len(q) /\ Len(q) \in Nat
      /\ DOMAIN r = 1 .. Len(q) + 1 /\ r[Len(q) + 1] = p
      /\ \A i \in 1 .. Len(q) : r[i] = q[i]
  OBVIOUS
<1> HIDE DEF r
<1>2. NewOf(q) \subseteq NewOf(r)
  <2> SUFFICES ASSUME NEW n \in NewOf(q) PROVE n \in NewOf(r)
    OBVIOUS
  <2>1. PICK i \in DOMAIN q : ~q[i].e.dead /\ q[i].n = n
    BY DEF NewOf
  <2>2. i \in DOMAIN r /\ r[i] = q[i]
    BY <1>1
  <2> QED BY <2>1, <2>2 DEF NewOf
<1>3. ~p.e.dead => p.n \in NewOf(r)
  <2>1. Len(q) + 1 \in DOMAIN r
    BY <1>1
  <2> QED BY <1>1, <2>1 DEF NewOf
<1> QED BY <1>1, <1>2, <1>3 DEF r

\* One has been handled, and what was new in it is not lost.
LEMMA NewTail ==
    ASSUME NEW X, NEW q \in Seq(LocalEdge(X)), q # <<>>
    PROVE  /\ Head(q) \in LocalEdge(X) /\ Tail(q) \in Seq(LocalEdge(X))
           /\ NewOf(q) \subseteq NewOf(Tail(q)) \cup IF Head(q).e.dead THEN {} ELSE {Head(q).n}
<1> DEFINE r == Tail(q)
<1>1. /\ r \in Seq(LocalEdge(X)) /\ Head(q) \in LocalEdge(X) /\ Head(q) = q[1]
      /\ DOMAIN q = 1 .. Len(q) /\ Len(q) \in Nat /\ DOMAIN r = 1 .. Len(q) - 1
      /\ \A i \in 1 .. Len(q) - 1 : r[i] = q[i + 1]
  OBVIOUS
<1> HIDE DEF r
<1>2. ASSUME NEW n \in NewOf(q) PROVE n \in NewOf(r) \cup IF Head(q).e.dead THEN {} ELSE {Head(q).n}
  <2>1. PICK i \in DOMAIN q : ~q[i].e.dead /\ q[i].n = n
    BY DEF NewOf
  <2>2. CASE i = 1
    BY <1>1, <2>1, <2>2
  <2>3. CASE i # 1
    <3>1. i - 1 \in DOMAIN r /\ r[i - 1] = q[i]
      BY <1>1, <2>3
    <3> QED BY <2>1, <3>1 DEF NewOf
  <2> QED BY <2>2, <2>3
<1> QED BY <1>1, <1>2 DEF r

\* One has been sent and is to be looked at again.
LEMMA NewSent ==
    ASSUME NEW X, NEW q \in Seq(LocalEdge(X)), NEW p \in LocalEdge(X)
    PROVE  /\ <<p>> \o q \in Seq(LocalEdge(X))
           /\ NewOf(q) \subseteq NewOf(<<p>> \o q)
           /\ ~p.e.dead => p.n \in NewOf(<<p>> \o q)
<1> DEFINE r == <<p>> \o q
<1>1. /\ r \in Seq(LocalEdge(X)) /\ DOMAIN q = 1 .. Len(q) /\ Len(q) \in Nat
      /\ DOMAIN r = 1 .. Len(q) + 1 /\ r[1] = p
      /\ \A i \in 1 .. Len(q) : r[i + 1] = q[i]
  OBVIOUS
<1> HIDE DEF r
<1>2. NewOf(q) \subseteq NewOf(r)
  <2> SUFFICES ASSUME NEW n \in NewOf(q) PROVE n \in NewOf(r)
    OBVIOUS
  <2>1. PICK i \in DOMAIN q : ~q[i].e.dead /\ q[i].n = n
    BY DEF NewOf
  <2>2. i + 1 \in DOMAIN r /\ r[i + 1] = q[i]
    BY <1>1
  <2> QED BY <2>1, <2>2 DEF NewOf
<1>3. ~p.e.dead => p.n \in NewOf(r)
  <2>1. 1 \in DOMAIN r
    BY <1>1
  <2> QED BY <1>1, <2>1 DEF NewOf
<1> QED BY <1>1, <1>2, <1>3 DEF r

-----------------------------------------------------------------------------
(* What a step may leave as it is *)

\* Stores that have more.
More == /\ db' \in Stores
        /\ Has(db, "L") \subseteq Has(db', "L")
        /\ Has(db, "R") \subseteq Has(db', "R")

\* A longer list of nodes.
LEMMA MoreSeqs ==
    ASSUME NEW X, NEW Y, X \subseteq Y
    PROVE  Seq(X) \subseteq Seq(Y) /\ Seq(LocalEdge(X)) \subseteq Seq(LocalEdge(Y))
           /\ RemotePoint(X) \subseteq RemotePoint(Y)
<1>1. LocalEdge(X) \subseteq LocalEdge(Y) /\ RemotePoint(X) \subseteq RemotePoint(Y)
  BY DEF LocalEdge, RemotePoint
<1> QED BY <1>1

\* What holds of the rest.
LEMMA Stays ==
    ASSUME Inv, More
    PROVE  /\ Device \in Has(db', "L")
           /\ Good(work, Has(db', "L"))
           /\ newEdges \in Seq(Has(db', "R"))
           /\ localPts \in Seq(LocalPoint)
           /\ localEdges \in Seq(LocalEdge(Has(db', "L")))
           /\ toLocal \subseteq RemotePoint(Has(db', "L"))
           /\ subs \subseteq Has(db', "L")
<1> DEFINE X == Has(db, "L")
           Y == Has(db', "L")
           V == Has(db, "R")
           W == Has(db', "R")
<1>1. X \subseteq Y /\ V \subseteq W
  BY DEF More
<1>2. /\ Device \in X /\ Good(work, X) /\ newEdges \in Seq(V) /\ localPts \in Seq(LocalPoint)
      /\ localEdges \in Seq(LocalEdge(X)) /\ toLocal \subseteq RemotePoint(X) /\ subs \subseteq X
  BY DEF Inv
<1> HIDE DEF X, Y, V, W
<1>3. Good(work, Y)
  BY <1>1, <1>2, GoodMore
<1>4. newEdges \in Seq(W)
  BY <1>1, <1>2
<1>5. localEdges \in Seq(LocalEdge(Y)) /\ toLocal \subseteq RemotePoint(Y)
  BY <1>1, <1>2, MoreSeqs
<1> QED BY <1>1, <1>2, <1>3, <1>4, <1>5 DEF X, Y, V, W

\* What is subscribed or will be.
Covered(s, w, q) == s \cup SubsOf(w) \cup NewOf(q)

\* A step that keeps the rest and loses no node.
LEMMA Finish ==
    ASSUME Inv, More, now' \in Nat,
           Good(work', Has(db', "L")),
           newEdges' \in Seq(Has(db', "R")),
           localPts' \in Seq(LocalPoint),
           localEdges' \in Seq(LocalEdge(Has(db', "L"))),
           toLocal' \subseteq RemotePoint(Has(db', "L")),
           subs' \subseteq Has(db', "L"),
           initialSub' => initialSub /\ conn' # "none"
                          /\ Covered(subs, work, localEdges) \subseteq Covered(subs', work', localEdges')
                          /\ Has(db', "L") \subseteq Has(db, "L") \cup Covered(subs', work', localEdges')
    PROVE  Inv'
<1>1. Device \in Has(db', "L")
  BY Stays
<1>2. initialSub' => conn' # "none" /\ Has(db', "L") \subseteq Covered(subs', work', localEdges')
  BY DEF Inv, Covered
<1> QED BY <1>1, <1>2 DEF Inv, More, Covered

\* A step that makes no node on L and keeps what covers the nodes.
LEMMA Quiet ==
    ASSUME Inv, More, Has(db', "L") = Has(db, "L"), now' \in Nat,
           Good(work', Has(db', "L")), SubsOf(work) \subseteq SubsOf(work'),
           newEdges' \in Seq(Has(db', "R")),
           localPts' \in Seq(LocalPoint),
           localEdges' \in Seq(LocalEdge(Has(db', "L"))), NewOf(localEdges) \subseteq NewOf(localEdges'),
           UNCHANGED <<toLocal, subs, initialSub, conn>>
    PROVE  Inv'
<1>1. toLocal' \subseteq RemotePoint(Has(db', "L")) /\ subs' \subseteq Has(db', "L")
  BY Stays
<1>2. initialSub' => initialSub /\ conn' # "none"
  BY DEF Inv
<1>3. /\ Covered(subs, work, localEdges) \subseteq Covered(subs', work', localEdges')
      /\ Has(db', "L") \subseteq Has(db, "L") \cup Covered(subs', work', localEdges')
  BY DEF Covered
<1> QED BY <1>1, <1>2, <1>3, Finish

\* The stores are as they were.
LEMMA SameDb ==
    ASSUME Inv, UNCHANGED db
    PROVE  More /\ Has(db', "L") = Has(db, "L") /\ Has(db', "R") = Has(db, "R")
BY DEF Inv, More

\* R announces an edge of a node that it has.
LEMMA AnnounceIn ==
    ASSUME NEW W, newEdges \in Seq(W), NEW n \in W, NEW e, Announce(n, e)
    PROVE  newEdges' \in Seq(W)
BY DEF Announce

\* The call under way goes on or makes others.
LEMMA ThenGood ==
    ASSUME Inv, More, work # <<>>, Head(work).op \notin {"down", "sub"}, NEW tasks,
           Good(tasks, Has(db', "L")), Then(tasks)
    PROVE  Good(work', Has(db', "L")) /\ SubsOf(work) \subseteq SubsOf(work')
<1> DEFINE X == Has(db, "L")
           Y == Has(db', "L")
<1>1. X \subseteq Y /\ Good(work, X)
  BY DEF Inv, More
<1>2. Good(tasks, Y)
  OBVIOUS
<1> HIDE DEF X, Y
<1>3. Good(Tail(work), Y) /\ SubsOf(work) \subseteq SubsOf(Tail(work))
  BY <1>1, GoodTail
<1>4. work' = tasks \o Tail(work)
  BY DEF Then
<1>5. Good(work', Y) /\ SubsOf(Tail(work)) \subseteq SubsOf(work')
  BY <1>2, <1>3, <1>4, GoodConcat
<1> QED BY <1>3, <1>5 DEF Y

\* It returns.
LEMMA ReturnGood ==
    ASSUME Inv, More, work # <<>>, Head(work).op \notin {"down", "sub"}, Return
    PROVE  Good(work', Has(db', "L")) /\ SubsOf(work) \subseteq SubsOf(work')
<1>1. Good(<<>>, Has(db', "L")) /\ Then(<<>>)
  BY GoodEmpty DEF Return
<1> QED BY <1>1, ThenGood

\* The call under way.
LEMMA HeadIn ==
    ASSUME Inv, work # <<>>
    PROVE  /\ Head(work) \in TaskSet /\ TaskOk(Head(work), Has(db, "L"))
           /\ Head(work).op \in Ops /\ Head(work).n \in Node /\ Head(work).loc \in CopySet
           /\ Head(work).rem \in CopySet /\ Head(work).hash \in HashSet
           /\ Head(work).kids \in SUBSET Kid
           /\ Head(work).op = "sub" => Head(work).n \in Has(db, "L")
<1>1. Good(work, Has(db, "L"))
  BY DEF Inv
<1>2. work \in Seq(TaskSet) /\ Head(work) = work[1] /\ 1 \in DOMAIN work
  BY <1>1 DEF Good
<1>3. Head(work) \in TaskSet /\ TaskOk(Head(work), Has(db, "L"))
  BY <1>1, <1>2 DEF Good
<1>4. Head(work).op = "sub" => Head(work).n \in Has(db, "L")
  BY <1>1, <1>2 DEF Good, AfterDown
<1> QED BY <1>3, <1>4 DEF TaskSet

\* The count is written.
LEMMA WriteCountKeeps ==
    ASSUME Inv, WriteCount
    PROVE  /\ More /\ Has(db', "L") = Has(db, "L") /\ Has(db', "R") = Has(db, "R")
           /\ localPts' \in Seq(LocalPoint)
<1> DEFINE older(t) == IF t = 2 THEN 1 ELSE t
           v == older(db["R"].pt[SyncNode])
           u == [db["R"] EXCEPT !.pt = [db["R"].pt EXCEPT ![SyncNode] = v]]
           d == [db EXCEPT !["R"] = u]
           aged == [k \in DOMAIN localPts |-> IF localPts[k].n = SyncNode
                                              THEN [localPts[k] EXCEPT !.t = older(@)]
                                              ELSE localPts[k]]
<1>0. db' = [db EXCEPT !["R"].pt[SyncNode] = older(@)]
      /\ localPts' = Append(aged, [n |-> SyncNode, t |-> 2])
  BY Zenon DEF WriteCount
<1>1. SyncNode \in Node /\ db \in Stores /\ db["R"] \in OneStore /\ db["R"].pt \in [Node -> Nat]
      /\ localPts \in Seq(LocalPoint)
  BY SyncAssumption DEF Inv, Stores, OneStore
<1>2. db' = d
  BY <1>0, <1>1 DEF Stores, OneStore
<1>3. v \in Nat
  BY <1>1
<1>4. aged \in Seq(LocalPoint)
  <2>1. /\ DOMAIN localPts = 1 .. Len(localPts) /\ Len(localPts) \in Nat
        /\ \A k \in DOMAIN localPts : localPts[k] \in LocalPoint
    BY <1>1
  <2>2. ASSUME NEW k \in DOMAIN localPts PROVE aged[k] \in LocalPoint
    <3>1. localPts[k].t \in Nat /\ localPts[k] \in LocalPoint
      BY <2>1 DEF LocalPoint
    <3>2. older(localPts[k].t) \in Nat
      BY <3>1
    <3>3. [localPts[k] EXCEPT !.t = older(localPts[k].t)] \in LocalPoint
      <4> HIDE DEF older
      <4> QED BY <3>1, <3>2 DEF LocalPoint
    <3>4. aged[k] = IF localPts[k].n = SyncNode
                    THEN [localPts[k] EXCEPT !.t = older(localPts[k].t)] ELSE localPts[k]
      BY <3>1 DEF LocalPoint
    <3> HIDE DEF aged, older
    <3> QED BY <3>1, <3>3, <3>4
  <2>3. aged \in [1 .. Len(localPts) -> LocalPoint]
    BY <2>1, <2>2
  <2> HIDE DEF aged
  <2> QED BY <2>1, <2>3
<1>5. localPts' \in Seq(LocalPoint)
  <2>1. [n |-> SyncNode, t |-> 2] \in LocalPoint
    BY <1>1 DEF LocalPoint
  <2> HIDE DEF aged
  <2> QED BY <1>0, <1>4, <2>1
<1> HIDE DEF v
<1>6. u \in OneStore /\ u.edge = db["R"].edge
  BY <1>1, <1>3 DEF OneStore
<1> HIDE DEF u
<1>7. d \in Stores /\ d["L"].edge = db["L"].edge /\ d["R"].edge = db["R"].edge
  BY <1>1, <1>6 DEF Stores
<1> HIDE DEF d
<1>8. Has(db', "L") = Has(db, "L") /\ Has(db', "R") = Has(db, "R")
  BY <1>2, <1>7 DEF Has
<1> QED BY <1>2, <1>5, <1>7, <1>8 DEF More

\* A point is written.
LEMMA WritePoint ==
    ASSUME Inv, NEW s \in {"L", "R"}, NEW n \in Node, NEW t \in Nat, db' = PutPoint(db, s, n, t)
    PROVE  More /\ Has(db', "L") = Has(db, "L") /\ Has(db', "R") = Has(db, "R")
<1>1. db \in Stores
  BY DEF Inv
<1>2. db' \in Stores /\ \A r \in {"L", "R"} : Has(db', r) = Has(db, r)
  BY <1>1, PutPointHas
<1> QED BY <1>2 DEF More

\* An edge is written.
LEMMA WriteEdge ==
    ASSUME Inv, NEW s \in {"L", "R"}, NEW n \in Node, NEW e \in EdgeSet, db' = PutEdge(db, s, n, e)
    PROVE  /\ More
           /\ \A r \in {"L", "R"} : r # s => Has(db', r) = Has(db, r)
           /\ Has(db', s) \subseteq Has(db, s) \cup {n}
           /\ e.t > 0 => n \in Has(db', s)
<1>1. db \in Stores
  BY DEF Inv
<1>2. /\ db' \in Stores
      /\ \A r \in {"L", "R"} : Has(db, r) \subseteq Has(db', r)
      /\ \A r \in {"L", "R"} : r # s => Has(db', r) = Has(db, r)
      /\ Has(db', s) \subseteq Has(db, s) \cup {n}
      /\ e.t > 0 => n \in Has(db', s)
  BY <1>1, PutEdgeHas
<1> QED BY <1>2 DEF More

\* An edge is written to R, and announced.
LEMMA WriteRemote ==
    ASSUME Inv, NEW n \in Node, NEW e \in EdgeSet, e.t > 0, db' = PutEdge(db, "R", n, e), Announce(n, e)
    PROVE  More /\ Has(db', "L") = Has(db, "L") /\ newEdges' \in Seq(Has(db', "R"))
<1>1. More /\ Has(db', "L") = Has(db, "L") /\ n \in Has(db', "R")
  BY WriteEdge
<1>2. newEdges \in Seq(Has(db', "R"))
  BY <1>1, Stays
<1> QED BY <1>1, <1>2, AnnounceIn

\* A step of the call under way, which makes no node on L.
LEMMA CallStep ==
    ASSUME Inv, More, Has(db', "L") = Has(db, "L"), now' \in Nat,
           work # <<>>, Head(work).op \notin {"down", "sub"},
           NEW tasks, Good(tasks, Has(db, "L")), Then(tasks),
           newEdges' \in Seq(Has(db', "R")),
           localPts' \in Seq(LocalPoint),
           localEdges' \in Seq(LocalEdge(Has(db', "L"))), NewOf(localEdges) \subseteq NewOf(localEdges'),
           UNCHANGED <<toLocal, subs, initialSub, conn>>
    PROVE  Inv'
<1>1. Good(work', Has(db', "L")) /\ SubsOf(work) \subseteq SubsOf(work')
  BY ThenGood
<1> QED BY <1>1, Quiet

\* One that leaves the stores and the queues.
LEMMA CallOnly ==
    ASSUME Inv, work # <<>>, Head(work).op \notin {"down", "sub"},
           NEW tasks, Good(tasks, Has(db, "L")), Then(tasks),
           UNCHANGED <<db, now, newEdges, localPts, localEdges, toLocal, subs, initialSub, conn>>
    PROVE  Inv'
<1>1. More /\ Has(db', "L") = Has(db, "L")
  BY SameDb
<1>2. /\ now' \in Nat /\ newEdges' \in Seq(Has(db', "R")) /\ localPts' \in Seq(LocalPoint)
      /\ localEdges' \in Seq(LocalEdge(Has(db', "L"))) /\ NewOf(localEdges) \subseteq NewOf(localEdges')
  BY <1>1, Stays DEF Inv
<1> QED BY <1>1, <1>2, CallStep

\* Two calls that neither send a node to L nor subscribe one.
LEMMA GoodTwo ==
    ASSUME NEW X, NEW f \in TaskSet, NEW g \in TaskSet, TaskOk(f, X), TaskOk(g, X),
           f.op # "down", f.op # "sub", g.op # "down", g.op = "sub" => g.n \in X
    PROVE  Good(<<f, g>>, X)
<1>1. Good(<<f>>, X) /\ Good(<<g>>, X)
  BY GoodOne
<1>2. <<f, g>> = <<f>> \o <<g>>
  <2> DEFINE u == <<f>>
             v == <<g>>
             r == u \o v
  <2>1. u \in Seq(TaskSet) /\ Len(u) = 1 /\ u[1] = f /\ v \in Seq(TaskSet) /\ Len(v) = 1 /\ v[1] = g
    OBVIOUS
  <2> HIDE DEF u, v
  <2>2. r \in Seq(TaskSet) /\ Len(r) = 2 /\ r[1] = f /\ r[2] = g
    <3>1. /\ r \in Seq(TaskSet) /\ Len(r) = Len(u) + Len(v)
          /\ \A i \in 1 .. Len(u) + Len(v) : r[i] = IF i <= Len(u) THEN u[i] ELSE v[i - Len(u)]
      BY <2>1, ConcatProperties, Zenon
    <3> HIDE DEF r
    <3>2. r[1] = u[1]
      BY <2>1, <3>1
    <3>4. Len(r) = 2 /\ r[2] = v[1]
      BY <2>1, <3>1
    <3> QED BY <2>1, <3>1, <3>2, <3>4
  <2> HIDE DEF r
  <2>3. r = <<f, g>>
    BY <2>2
  <2> QED BY <2>3 DEF r, u, v
<1> QED BY <1>1, <1>2, GoodConcat

-----------------------------------------------------------------------------
(* The steps of syncNode *)

\* The local node is read.
LEMMA SyncLocalStep ==
    ASSUME Inv, SyncLocal
    PROVE  Inv'
<1> DEFINE n == Head(work).n
           X == Has(db, "L")
           f == [Send("remote", n, Copy("L", n)) EXCEPT !.hash = Hash("L", n)]
<1>1. /\ work # <<>> /\ Head(work).op = "visit"
      /\ UNCHANGED <<db, newEdges, localPts, localEdges, toLocal, subs, initialSub, conn, now>>
  BY DEF SyncLocal, Doing, link, queues
<1>2. n \in Node /\ n \in X /\ db \in Stores
  BY <1>1, HeadIn DEF TaskOk, Inv
<1>3. More /\ Has(db', "L") = X
  BY <1>1, SameDb
<1>4. Good(<<f>>, X)
  <2> DEFINE c == Copy("L", n)
             h == Hash("L", n)
             g == Send("remote", n, c)
  <2>1. c \in CopySet /\ c.edge.t > 0 /\ h \in HashSet
    BY <1>2, CopyIn
  <2>2. "remote" \in Ops
    BY DEF Ops
  <2> HIDE DEF c, h
  <2>3. g \in TaskSet /\ g.op = "remote" /\ g.n = n /\ g.kids = {} /\ IsFiniteSet(g.kids) /\ g.loc = c
    BY <1>2, <2>1, <2>2, SendIn
  <2> HIDE DEF g
  <2>4. f = [g EXCEPT !.hash = h]
    BY DEF g, c, h
  <2> HIDE DEF f
  <2>5. f \in TaskSet /\ f.op = "remote" /\ f.n = n /\ f.kids = g.kids /\ f.loc = c
    BY <2>1, <2>3, <2>4 DEF TaskSet
  <2>6. TaskOk(f, X)
    BY <1>2, <2>1, <2>3, <2>5 DEF TaskOk
  <2> QED BY <2>5, <2>6, GoodOne
<1>5. Good(<<>>, X) /\ (Then(<<>>) \/ Then(<<f>>))
  BY GoodEmpty DEF SyncLocal, Return
<1> HIDE DEF f
<1> QED BY <1>1, <1>4, <1>5, CallOnly

\* The remote node is read, undeleted or sent, or points are to be compared.
LEMMA SyncRemoteStep ==
    ASSUME Inv, SyncRemote
    PROVE  Inv'
<1> DEFINE f == Head(work)
           n == f.n
           X == Has(db, "L")
           g == [f EXCEPT !.op = "points", !.rem = Copy("R", n), !.hash = <<>>]
           two == <<Send("up", n, f.loc), Task("subSent", n)>>
           same == UNCHANGED <<db, localPts, newEdges, now>>
<1>1. /\ work # <<>> /\ Head(work).op = "remote"
      /\ UNCHANGED <<localEdges, toLocal, subs, initialSub, conn>>
  BY DEF SyncRemote, Doing, link, subscriptions
<1>2. /\ f \in TaskSet /\ TaskOk(f, X) /\ n \in Node /\ n \in X /\ db \in Stores /\ now \in Nat
      /\ f.loc \in CopySet /\ f.loc.edge.t > 0
  BY <1>1, HeadIn DEF TaskOk, Inv
<1>3. \/ Then(<<>>) /\ same
      \/ Undelete(n) /\ Then(<<>>) /\ UNCHANGED localPts
      \/ Then(two) /\ same
      \/ /\ IF n = Device THEN WriteCount ELSE UNCHANGED <<db, localPts>>
         /\ Then(<<g>>) /\ UNCHANGED <<newEdges, now>>
  BY Zenon DEF SyncRemote, Return
<1>4. Good(<<>>, X)
  BY GoodEmpty
<1>5. CASE Then(<<>>) /\ same
  BY <1>1, <1>4, <1>5, CallOnly
<1>6. CASE Undelete(n) /\ Then(<<>>) /\ UNCHANGED localPts
  <2> DEFINE e == [t |-> now + 1, dead |-> FALSE]
  <2>1. e \in EdgeSet /\ e.t > 0
    BY <1>2 DEF EdgeSet
  <2>2. db' = PutEdge(db, "R", n, e) /\ Announce(n, e) /\ now' = now + 1
    BY <1>6 DEF Undelete
  <2> HIDE DEF e, n
  <2>3. More /\ Has(db', "L") = Has(db, "L") /\ newEdges' \in Seq(Has(db', "R"))
    BY <1>2, <2>1, <2>2, WriteRemote
  <2>4. now' \in Nat /\ localPts' \in Seq(LocalPoint)
    BY <1>2, <1>6, <2>2 DEF Inv
  <2>5. localEdges' \in Seq(LocalEdge(Has(db', "L"))) /\ NewOf(localEdges) \subseteq NewOf(localEdges')
    BY <1>1, <2>3, Stays
  <2> QED BY <1>1, <1>4, <1>6, <2>3, <2>4, <2>5, CallStep
<1>7. CASE Then(two) /\ same
  <2> DEFINE u == Send("up", n, f.loc)
             v == Task("subSent", n)
  <2>1. "up" \in Ops /\ "subSent" \in Ops
    BY DEF Ops
  <2> HIDE DEF n
  <2>2. u \in TaskSet /\ u.op = "up" /\ u.kids = {} /\ IsFiniteSet(u.kids) /\ u.loc = f.loc
    BY <1>2, <2>1, SendIn
  <2>3. v \in TaskSet /\ v.op = "subSent" /\ v.n = n /\ v.kids = {} /\ IsFiniteSet(v.kids)
    BY <1>2, <2>1, TaskIn
  <2> HIDE DEF u, v, f
  <2>4. TaskOk(u, X) /\ TaskOk(v, X)
    BY <1>2, <2>2, <2>3 DEF TaskOk
  <2>5. Good(<<u, v>>, X)
    BY <2>2, <2>3, <2>4, GoodTwo
  <2>6. Good(two, X)
    BY <2>5 DEF u, v
  <2> HIDE DEF two
  <2> QED BY <1>1, <1>7, <2>6, CallOnly
<1>8. CASE /\ IF n = Device THEN WriteCount ELSE UNCHANGED <<db, localPts>>
           /\ Then(<<g>>) /\ UNCHANGED <<newEdges, now>>
  <2> DEFINE c == Copy("R", n)
  <2>1. c \in CopySet /\ <<>> \in HashSet /\ "points" \in Ops
    BY <1>2, CopyIn, NoHash DEF Ops
  <2>2. g = [f EXCEPT !.op = "points", !.rem = c, !.hash = <<>>]
    OBVIOUS
  <2> HIDE DEF c, g, n, f
  <2>3. g \in TaskSet /\ g.op = "points" /\ g.n = f.n /\ g.loc = f.loc /\ g.kids = f.kids
    BY <1>2, <2>1, <2>2 DEF TaskSet
  <2>4. TaskOk(g, X)
    BY <1>2, <2>3 DEF TaskOk, n
  <2>5. Good(<<g>>, X)
    BY <2>3, <2>4, GoodOne
  <2>6. /\ More /\ Has(db', "L") = Has(db, "L") /\ Has(db', "R") = Has(db, "R")
        /\ localPts' \in Seq(LocalPoint)
    <3>1. CASE n = Device
      BY <1>8, <3>1, WriteCountKeeps
    <3>2. CASE n # Device
      BY <1>8, <3>2, SameDb DEF Inv
    <3> QED BY <3>1, <3>2
  <2>7. /\ now' \in Nat /\ newEdges' \in Seq(Has(db', "R"))
        /\ localEdges' \in Seq(LocalEdge(Has(db', "L"))) /\ NewOf(localEdges) \subseteq NewOf(localEdges')
    BY <1>1, <1>8, <2>6, Stays DEF Inv
  <2> QED BY <1>1, <1>8, <2>5, <2>6, <2>7, CallStep
<1> QED BY <1>3, <1>5, <1>6, <1>7, <1>8

\* The newer point goes to the other side.
LEMMA SyncPointsStep ==
    ASSUME Inv, SyncPoints
    PROVE  Inv'
<1> DEFINE f == Head(work)
           n == f.n
           X == Has(db, "L")
           op == IF n = Device THEN "list" ELSE "edge"
           g == [f EXCEPT !.op = op]
           p == [n |-> n, t |-> f.rem.pt]
<1>1. /\ work # <<>> /\ Head(work).op = "points"
      /\ UNCHANGED <<localEdges, newEdges, now, toLocal, subs, initialSub, conn>>
  BY DEF SyncPoints, Doing, link, subscriptions
<1>2. /\ f \in TaskSet /\ TaskOk(f, X) /\ n \in Node /\ n \in X /\ db \in Stores /\ now \in Nat
      /\ f.loc \in CopySet /\ f.loc.edge.t > 0 /\ f.rem \in CopySet
  BY <1>1, HeadIn DEF TaskOk, Inv
<1>3. f.loc.pt \in Nat /\ f.rem.pt \in Nat /\ p \in LocalPoint
  BY <1>2 DEF CopySet, LocalPoint
<1>4. /\ \/ db' = PutPoint(db, "R", n, f.loc.pt) /\ UNCHANGED localPts
         \/ UNCHANGED <<db, localPts>>
         \/ db' = PutPoint(db, "L", n, f.rem.pt) /\ localPts' = Append(localPts, p)
      /\ Then(<<g>>)
  BY Zenon DEF SyncPoints
<1>5. Good(<<g>>, X)
  <2>1. op \in Ops /\ op \in {"list", "edge"}
    BY DEF Ops
  <2> HIDE DEF op, f, n
  <2>2. g \in TaskSet /\ g.op = op /\ g.n = f.n /\ g.loc = f.loc /\ g.kids = f.kids
    BY <1>2, <2>1 DEF TaskSet
  <2> HIDE DEF g
  <2>3. TaskOk(g, X)
    BY <1>2, <2>1, <2>2 DEF TaskOk, n
  <2> QED BY <2>1, <2>2, <2>3, GoodOne
<1> HIDE DEF g, p, n
<1>6. More /\ Has(db', "L") = Has(db, "L") /\ Has(db', "R") = Has(db, "R")
  BY <1>2, <1>3, <1>4, WritePoint, SameDb
<1>7. localPts' \in Seq(LocalPoint)
  <2>1. localPts \in Seq(LocalPoint)
    BY DEF Inv
  <2> QED BY <1>3, <1>4, <2>1
<1>8. /\ now' \in Nat /\ newEdges' \in Seq(Has(db', "R"))
      /\ localEdges' \in Seq(LocalEdge(Has(db', "L"))) /\ NewOf(localEdges) \subseteq NewOf(localEdges')
  BY <1>1, <1>2, <1>6, Stays
<1> QED BY <1>1, <1>4, <1>5, <1>6, <1>7, <1>8, CallStep

\* The newer edge goes to the other side.
LEMMA SyncEdgeStep ==
    ASSUME Inv, SyncEdge
    PROVE  Inv'
<1> DEFINE f == Head(work)
           n == f.n
           X == Has(db, "L")
           g == [f EXCEPT !.op = "list"]
           p == [n |-> n, e |-> f.rem.edge, sent |-> FALSE]
<1>1. /\ work # <<>> /\ Head(work).op = "edge"
      /\ UNCHANGED <<localPts, now, toLocal, subs, initialSub, conn>>
  BY DEF SyncEdge, Doing, link, subscriptions
<1>2. /\ f \in TaskSet /\ TaskOk(f, X) /\ n \in Node /\ n \in X /\ db \in Stores /\ now \in Nat
      /\ f.loc \in CopySet /\ f.loc.edge.t > 0 /\ f.rem \in CopySet
  BY <1>1, HeadIn DEF TaskOk, Inv
<1>3. f.loc.edge \in EdgeSet /\ f.rem.edge \in EdgeSet /\ f.loc.edge.t \in Nat /\ f.rem.edge.t \in Nat
  BY <1>2 DEF CopySet, EdgeSet
<1>4. /\ \/ /\ db' = PutEdge(db, "R", n, f.loc.edge) /\ Announce(n, f.loc.edge)
            /\ UNCHANGED localEdges
         \/ /\ f.loc.edge.t < f.rem.edge.t
            /\ db' = PutEdge(db, "L", n, f.rem.edge) /\ localEdges' = Append(localEdges, p)
            /\ UNCHANGED newEdges
         \/ UNCHANGED <<db, newEdges, localEdges>>
      /\ Then(<<g>>)
  BY Zenon DEF SyncEdge
<1>5. Good(<<g>>, X)
  <2>1. "list" \in Ops
    BY DEF Ops
  <2> HIDE DEF f, n
  <2>2. g \in TaskSet /\ g.op = "list" /\ g.n = f.n /\ g.loc = f.loc /\ g.kids = f.kids
    BY <1>2, <2>1 DEF TaskSet
  <2> HIDE DEF g
  <2>3. TaskOk(g, X)
    BY <1>2, <2>2 DEF TaskOk
  <2> QED BY <2>2, <2>3, GoodOne
<1>6. now' \in Nat /\ localPts' \in Seq(LocalPoint)
  BY <1>1 DEF Inv
<1> HIDE DEF g, n
<1>7. CASE db' = PutEdge(db, "R", n, f.loc.edge) /\ Announce(n, f.loc.edge) /\ UNCHANGED localEdges
  <2>1. More /\ Has(db', "L") = Has(db, "L") /\ newEdges' \in Seq(Has(db', "R"))
    BY <1>2, <1>3, <1>7, WriteRemote
  <2>2. localEdges' \in Seq(LocalEdge(Has(db', "L"))) /\ NewOf(localEdges) \subseteq NewOf(localEdges')
    BY <1>7, <2>1, Stays
  <2> QED BY <1>1, <1>4, <1>5, <1>6, <2>1, <2>2, CallStep
<1>8. CASE /\ f.loc.edge.t < f.rem.edge.t
           /\ db' = PutEdge(db, "L", n, f.rem.edge) /\ localEdges' = Append(localEdges, p)
           /\ UNCHANGED newEdges
  <2>1. More /\ Has(db', "L") \subseteq Has(db, "L") \cup {n} /\ n \in Has(db, "L") /\ Has(db', "R") = Has(db, "R")
    BY <1>2, <1>3, <1>8, WriteEdge
  <2>2. Has(db', "L") = Has(db, "L")
    BY <2>1 DEF More
  <2>3. p \in LocalEdge(X)
    BY <1>2, <1>3, <1>8 DEF LocalEdge, MadeEdge
  <2>4. localEdges \in Seq(LocalEdge(X)) /\ newEdges' \in Seq(Has(db', "R"))
    BY <1>8, <2>1 DEF Inv
  <2> HIDE DEF p
  <2>5. localEdges' \in Seq(LocalEdge(X)) /\ NewOf(localEdges) \subseteq NewOf(localEdges')
    <3> HIDE DEF X
    <3> QED BY <1>8, <2>3, <2>4, NewAppend
  <2> QED BY <1>1, <1>4, <1>5, <1>6, <2>1, <2>2, <2>4, <2>5, CallStep
<1>9. CASE UNCHANGED <<db, newEdges, localEdges>>
  BY <1>1, <1>4, <1>5, <1>9, CallOnly
<1> QED BY <1>4, <1>7, <1>8, <1>9

\* The children on L are listed.
LEMMA SyncListStep ==
    ASSUME Inv, SyncList
    PROVE  Inv'
<1> DEFINE n == Head(work).n
           X == Has(db, "L")
           M == {m \in Kids(n) : Live("L", m)}
           F == [m \in Node |-> [n |-> m, copy |-> Copy("L", m), hash |-> Hash("L", m)]]
           K == {[n |-> m, copy |-> Copy("L", m), hash |-> Hash("L", m)] : m \in M}
           g == [Task("match", n) EXCEPT !.kids = K]
<1>1. /\ work # <<>> /\ Head(work).op = "list"
      /\ UNCHANGED <<db, now, newEdges, localPts, localEdges, toLocal, subs, initialSub, conn>>
  BY DEF SyncList, Doing, link, queues, subscriptions
<1>2. n \in Node /\ db \in Stores
  BY <1>1, HeadIn DEF Inv
<1>3. M \in SUBSET Node /\ \A m \in M : Exists("L", m)
  BY DEF Kids, Live
<1>4. Then(<<g>>)
  BY DEF SyncList
<1>5. K = {F[m] : m \in M}
  BY <1>3
<1>6. IsFiniteSet(K)
  <2> HIDE DEF F, M, K
  <2> QED BY <1>3, <1>5, FewNodes
<1>7. ASSUME NEW k \in K PROVE k \in Kid /\ k.n \in X /\ k.copy.edge.t > 0
  <2>1. PICK m \in M : k = [n |-> m, copy |-> Copy("L", m), hash |-> Hash("L", m)]
    OBVIOUS
  <2>2. Copy("L", m) \in CopySet /\ Copy("L", m).edge.t > 0 /\ Hash("L", m) \in HashSet /\ m \in X /\ m \in Node
    BY <1>2, <1>3, CopyIn
  <2> HIDE DEF M, K, X
  <2> QED BY <2>1, <2>2 DEF Kid
<1> DEFINE t == Task("match", n)
<1>8. t \in TaskSet /\ t.op = "match"
  BY <1>2, TaskIn DEF Ops
<1> HIDE DEF t, K, M, X
<1>9. g = [t EXCEPT !.kids = K]
  BY DEF t
<1> HIDE DEF g
<1>10. g \in TaskSet /\ g.op = "match" /\ g.kids = K
  <2>1. K \in SUBSET Kid
    BY <1>7
  <2> QED BY <1>8, <1>9, <2>1 DEF TaskSet
<1>11. TaskOk(g, X)
  BY <1>6, <1>7, <1>10 DEF TaskOk
<1>12. Good(<<g>>, X)
  BY <1>10, <1>11, GoodOne
<1> QED BY <1>1, <1>4, <1>12, CallOnly DEF X

\* The lists of calls that are good form a closed set.
GoodSeqs(X) == {w \in Seq(TaskSet) : Good(w, X)}

\* Lists of calls that are good, one after the other.
LEMMA GoodFlat ==
    ASSUME NEW X, NEW q \in Seq(GoodSeqs(X))
    PROVE  Good(FlattenSeq(q), X)
<1> DEFINE S == GoodSeqs(X)
<1>1. ASSUME NEW a \in S, NEW b \in S PROVE a \o b \in S
  <2>1. Good(a, X) /\ Good(b, X)
    BY DEF GoodSeqs
  <2> DEFINE r == a \o b
  <2>2. Good(r, X)
    BY <2>1, GoodConcat
  <2>3. r \in Seq(TaskSet)
    BY <2>2 DEF Good
  <2> QED BY <2>2, <2>3 DEF GoodSeqs
<1>2. q \in Seq(S)
  OBVIOUS
<1> HIDE DEF S
<1>3. FlattenSeq(q) \in S \/ FlattenSeq(q) = <<>>
  BY <1>1, <1>2, FlattenIn
<1> QED BY <1>3, GoodEmpty DEF S, GoodSeqs

\* What is made of the members of a finite set is a sequence.
LEMMA ListIn ==
    ASSUME NEW K, IsFiniteSet(K), NEW S, NEW f, \A k \in K : f[k] \in S
    PROVE  [i \in 1 .. Cardinality(K) |-> f[SetToSeq(K)[i]]] \in Seq(S)
<1> DEFINE c == Cardinality(K)
           s == SetToSeq(K)
<1>1. s \in [1 .. c -> K] /\ c \in Nat
  BY SetToSeqIn
<1> HIDE DEF c, s
<1>2. \A i \in 1 .. c : f[s[i]] \in S
  BY <1>1
<1>3. [i \in 1 .. c |-> f[s[i]]] \in Seq(S)
  BY <1>1, <1>2
<1> QED BY <1>3 DEF c, s

\* The children on both sides are compared.
LEMMA SyncMatchStep ==
    ASSUME Inv, SyncMatch
    PROVE  Inv'
<1> DEFINE f == Head(work)
           X == Has(db, "L")
           remote == {m \in Kids(f.n) : Live("R", m)}
           mine(k) == IF k.n \notin remote THEN <<Send("up", k.n, k.copy), Task("sub", k.n)>>
                      ELSE IF k.hash # Hash("R", k.n) THEN <<Task("visit", k.n)>> ELSE <<>>
           theirs(m) == <<Send("down", m, Copy("R", m)), Task("sub", m)>>
           only == remote \ {k.n : k \in f.kids}
           q1 == [i \in 1 .. Cardinality(f.kids) |-> mine(SetToSeq(f.kids)[i])]
           q2 == [i \in 1 .. Cardinality(only) |-> theirs(SetToSeq(only)[i])]
           F1 == [k \in f.kids |-> mine(k)]
           F2 == [m \in only |-> theirs(m)]
<1>1. /\ work # <<>> /\ Head(work).op = "match"
      /\ UNCHANGED <<db, now, newEdges, localPts, localEdges, toLocal, subs, initialSub, conn>>
  BY DEF SyncMatch, Doing, link, queues, subscriptions
<1>2. /\ f.n \in Node /\ db \in Stores /\ f.kids \in SUBSET Kid /\ IsFiniteSet(f.kids)
      /\ \A k \in f.kids : k.n \in X /\ k.copy.edge.t > 0
  BY <1>1, HeadIn DEF Inv, TaskOk
<1>3. Then(<<>>) \/ Then(FlattenSeq(q1) \o FlattenSeq(q2))
  BY Zenon DEF SyncMatch, Return
<1>4. remote \in SUBSET Node /\ \A m \in remote : Exists("R", m)
  BY DEF Kids, Live
<1>5. "up" \in Ops /\ "sub" \in Ops /\ "visit" \in Ops /\ "down" \in Ops
  BY DEF Ops
<1>6. ASSUME NEW k \in f.kids PROVE F1[k] \in GoodSeqs(X)
  <2>1. k.n \in Node /\ k.copy \in CopySet /\ k.n \in X /\ k.copy.edge.t > 0
    BY <1>2 DEF Kid
  <2> DEFINE u == Send("up", k.n, k.copy)
             v == Task("sub", k.n)
             w == Task("visit", k.n)
  <2>2. u \in TaskSet /\ u.op = "up" /\ u.kids = {} /\ IsFiniteSet(u.kids) /\ u.loc = k.copy
    BY <1>5, <2>1, SendIn
  <2>3. v \in TaskSet /\ v.op = "sub" /\ v.n = k.n /\ v.kids = {} /\ IsFiniteSet(v.kids)
    BY <1>5, <2>1, TaskIn
  <2>4. w \in TaskSet /\ w.op = "visit" /\ w.n = k.n /\ w.kids = {} /\ IsFiniteSet(w.kids)
    BY <1>5, <2>1, TaskIn
  <2>5. F1[k] \in {<<u, v>>, <<w>>, <<>>}
    <3>1. F1[k] = mine(k)
      OBVIOUS
    <3> HIDE DEF F1, remote, u, v, w
    <3> QED BY <3>1, Zenon DEF u, v, w
  <2> HIDE DEF u, v, w, F1, X
  <2>6. TaskOk(u, X) /\ TaskOk(v, X) /\ TaskOk(w, X)
    BY <2>1, <2>2, <2>3, <2>4 DEF TaskOk
  <2>7. Good(<<u, v>>, X) /\ Good(<<w>>, X) /\ Good(<<>>, X)
    BY <2>1, <2>2, <2>3, <2>4, <2>6, GoodTwo, GoodOne, GoodEmpty
  <2> QED BY <2>5, <2>7 DEF GoodSeqs, Good
<1>7. ASSUME NEW m \in only PROVE F2[m] \in GoodSeqs(X)
  <2>1. m \in Node /\ Copy("R", m) \in CopySet /\ Copy("R", m).edge.t > 0
    BY <1>2, <1>4, CopyIn
  <2> DEFINE c == Copy("R", m)
             u == Send("down", m, c)
             v == Task("sub", m)
  <2>2. F2[m] = <<u, v>>
    OBVIOUS
  <2> HIDE DEF c, F2, only
  <2>3. u \in TaskSet /\ u.op = "down" /\ u.n = m /\ u.kids = {} /\ IsFiniteSet(u.kids) /\ u.loc = c
    BY <1>5, <2>1, SendIn DEF c
  <2>4. v \in TaskSet /\ v.op = "sub" /\ v.n = m /\ v.kids = {} /\ IsFiniteSet(v.kids)
    BY <1>5, <2>1, TaskIn
  <2> HIDE DEF u, v, X
  <2>5. TaskOk(u, X) /\ TaskOk(v, X)
    BY <2>1, <2>3, <2>4 DEF TaskOk, c
  <2>6. Good(<<u, v>>, X)
    BY <2>3, <2>4, <2>5, GoodDown
  <2> QED BY <2>2, <2>6 DEF GoodSeqs, Good
<1>8. q1 \in Seq(GoodSeqs(X))
  <2> DEFINE K == f.kids
             r == [i \in 1 .. Cardinality(K) |-> F1[SetToSeq(K)[i]]]
  <2>1. SetToSeq(K) \in [1 .. Cardinality(K) -> K]
    BY <1>2, SetToSeqIn
  <2>2. r \in Seq(GoodSeqs(X))
    <3> HIDE DEF K, F1, X
    <3>1. IsFiniteSet(K) /\ \A k \in K : F1[k] \in GoodSeqs(X)
      BY <1>2, <1>6 DEF K
    <3> QED BY <3>1, ListIn
  <2>3. \A k \in K : F1[k] = mine(k)
    OBVIOUS
  <2>4. \A i \in 1 .. Cardinality(K) : F1[SetToSeq(K)[i]] = mine(SetToSeq(K)[i])
    BY <2>1, <2>3
  <2>5. q1 = r
    <3> HIDE DEF F1, mine
    <3> QED BY <2>4
  <2> QED BY <2>2, <2>5
<1>9. q2 \in Seq(GoodSeqs(X))
  <2> DEFINE r == [i \in 1 .. Cardinality(only) |-> F2[SetToSeq(only)[i]]]
  <2>0. IsFiniteSet(only)
    <3>1. only \in SUBSET Node
      BY <1>4
    <3> HIDE DEF only
    <3> QED BY <3>1, FewNodes
  <2>1. SetToSeq(only) \in [1 .. Cardinality(only) -> only]
    <3> HIDE DEF only
    <3> QED BY <2>0, SetToSeqIn
  <2>2. r \in Seq(GoodSeqs(X))
    <3> HIDE DEF only, F2, X
    <3> QED BY <1>7, <2>0, ListIn
  <2>3. \A m \in only : F2[m] = theirs(m)
    OBVIOUS
  <2> HIDE DEF only
  <2>4. \A i \in 1 .. Cardinality(only) : F2[SetToSeq(only)[i]] = theirs(SetToSeq(only)[i])
    BY <2>1, <2>3
  <2>5. q2 = r
    <3> HIDE DEF F2, theirs
    <3> QED BY <2>4
  <2> QED BY <2>2, <2>5
<1> HIDE DEF q1, q2, X
<1>10. Good(FlattenSeq(q1), X) /\ Good(FlattenSeq(q2), X) /\ Good(<<>>, X)
  BY <1>8, <1>9, GoodFlat, GoodEmpty
<1> DEFINE tasks == FlattenSeq(q1) \o FlattenSeq(q2)
<1>11. Good(tasks, X)
  BY <1>10, GoodConcat
<1> HIDE DEF tasks
<1>12. Then(<<>>) \/ Then(tasks)
  BY <1>3 DEF tasks
<1> QED BY <1>1, <1>10, <1>11, <1>12, CallOnly DEF X

\* A node cannot be sent: the calls that sent it are given up, none of which
\* subscribes a node.
LEMMA SendFailsGood ==
    ASSUME NEW X, NEW w, Good(w, X), w # <<>>, w[1].op # "down",
           NEW r, LET k == SelectInSeq(w, LAMBDA f : f.op \notin {"up", "upEdge", "upKids", "subSent"})
                  IN  r = IF k = 0 THEN <<>> ELSE SubSeq(w, k, Len(w))
    PROVE  Good(r, X) /\ SubsOf(w) \subseteq SubsOf(r)
<1> DEFINE Gone == {"up", "upEdge", "upKids", "subSent"}
           I == {i \in 1 .. Len(w) : w[i].op \notin Gone}
           k == IF I # {} THEN Min(I) ELSE 0
<1>1. w \in Seq(TaskSet) /\ Len(w) \in Nat /\ DOMAIN w = 1 .. Len(w)
  BY DEF Good
<1>2. r = IF k = 0 THEN <<>> ELSE SubSeq(w, k, Len(w))
  BY Zenon DEF SelectInSeq
<1>3. I \in SUBSET Nat
  BY <1>1
<1>4. CASE I = {}
  <2>1. k = 0
    BY <1>4
  <2>2. r = <<>>
    <3> HIDE DEF k
    <3> QED BY <1>2, <2>1
  <2>3. SubsOf(w) = {}
    BY <1>1, <1>4 DEF SubsOf
  <2> QED BY <2>2, <2>3, GoodEmpty
<1>5. CASE I # {}
  <2>1. Min(I) \in I /\ \A y \in I : Min(I) <= y
    <3> HIDE DEF I
    <3> QED BY <1>3, <1>5, LeastOf
  <2>2. k = Min(I)
    BY <1>5
  <2>3. k \in 1 .. Len(w) /\ \A y \in I : k <= y
    <3> HIDE DEF k
    <3> QED BY <2>1, <2>2
  <2> HIDE DEF k
  <2>4. ASSUME NEW j \in 1 .. k - 1 PROVE w[j].op \in Gone
    <3>1. j \in 1 .. Len(w) /\ ~(k <= j)
      BY <1>1, <2>3
    <3> QED BY <2>3, <3>1
  <2>5. r = SubSeq(w, k, Len(w))
    <3>1. k # 0
      BY <1>1, <2>3
    <3> QED BY <1>2, <3>1, Zenon
  <2>6. k > 1 => w[k-1].op \in Gone
    BY <1>1, <2>3, <2>4
  <2>7. k \in 1 .. Len(w) + 1 /\ (k > 1 /\ w[k-1].op = "down" => w[k-1].n \in X)
    BY <1>1, <2>3, <2>6
  <2>8. Good(r, X) /\ SubsOf(w) \subseteq SubsOf(r) \cup SubsBefore(w, k)
    BY <2>5, <2>7, GoodFrom
  <2>9. SubsBefore(w, k) = {}
    BY <2>4 DEF SubsBefore
  <2> QED BY <2>8, <2>9
<1> QED BY <1>4, <1>5

\* The connection is not up: what was to be sent is given up.
LEMMA SendFailsStep ==
    ASSUME Inv, work # <<>>, Head(work).op \in {"up", "upEdge"}, SendFails,
           UNCHANGED <<db, now, newEdges, localPts, localEdges, toLocal, subs, initialSub, conn>>
    PROVE  Inv'
<1>1. More /\ Has(db', "L") = Has(db, "L")
  BY SameDb
<1>2. Good(work, Has(db, "L"))
  BY DEF Inv
<1>3. work[1].op # "down"
  BY <1>2 DEF Good
<1>4. Good(work', Has(db, "L")) /\ SubsOf(work) \subseteq SubsOf(work')
  <2> DEFINE r == work'
             X == Has(db, "L")
             k == SelectInSeq(work, LAMBDA f : f.op \notin {"up", "upEdge", "upKids", "subSent"})
  <2>1. r = IF k = 0 THEN <<>> ELSE SubSeq(work, k, Len(work))
    BY Zenon DEF SendFails
  <2> HIDE DEF r, X
  <2>2. Good(r, X) /\ SubsOf(work) \subseteq SubsOf(r)
    BY <1>2, <1>3, <2>1, SendFailsGood DEF X
  <2> QED BY <2>2 DEF r, X
<1>5. /\ now' \in Nat /\ newEdges' \in Seq(Has(db', "R")) /\ localPts' \in Seq(LocalPoint)
      /\ localEdges' \in Seq(LocalEdge(Has(db', "L"))) /\ NewOf(localEdges) \subseteq NewOf(localEdges')
  BY <1>1, Stays DEF Inv
<1> QED BY <1>1, <1>4, <1>5, Quiet

\* The points of a node are sent to R.
LEMMA SendPointsStep ==
    ASSUME Inv, SendPoints
    PROVE  Inv'
<1> DEFINE f == Head(work)
           X == Has(db, "L")
           g == [f EXCEPT !.op = "upEdge"]
<1>1. /\ work # <<>> /\ Head(work).op = "up"
      /\ UNCHANGED <<now, newEdges, localPts, localEdges, toLocal, subs, initialSub, conn>>
  BY DEF SendPoints, Doing, link, queues, subscriptions
<1>2. /\ f \in TaskSet /\ TaskOk(f, X) /\ f.n \in Node /\ db \in Stores /\ now \in Nat
      /\ f.loc \in CopySet /\ f.loc.edge.t > 0
  BY <1>1, HeadIn DEF TaskOk, Inv
<1>3. CASE SendFails /\ UNCHANGED db
  BY <1>1, <1>3, SendFailsStep
<1>4. CASE db' = PutPoint(db, "R", f.n, f.loc.pt) /\ Then(<<g>>)
  <2>1. f.loc.pt \in Nat /\ "upEdge" \in Ops
    BY <1>2 DEF CopySet, Ops
  <2> HIDE DEF f
  <2>2. g \in TaskSet /\ g.op = "upEdge" /\ g.loc = f.loc /\ g.kids = f.kids
    BY <1>2, <2>1 DEF TaskSet
  <2> HIDE DEF g
  <2>3. TaskOk(g, X)
    BY <1>2, <2>2 DEF TaskOk
  <2>4. Good(<<g>>, X)
    BY <2>2, <2>3, GoodOne
  <2>5. More /\ Has(db', "L") = Has(db, "L") /\ Has(db', "R") = Has(db, "R")
    BY <1>2, <1>4, <2>1, WritePoint
  <2>6. /\ now' \in Nat /\ newEdges' \in Seq(Has(db', "R")) /\ localPts' \in Seq(LocalPoint)
        /\ localEdges' \in Seq(LocalEdge(Has(db', "L"))) /\ NewOf(localEdges) \subseteq NewOf(localEdges')
    BY <1>1, <1>2, <2>5, Stays
  <2> QED BY <1>1, <1>4, <2>4, <2>5, <2>6, CallStep
<1> QED BY <1>3, <1>4 DEF SendPoints

\* The edge of a node is sent to R.
LEMMA SendEdgeStep ==
    ASSUME Inv, SendEdge
    PROVE  Inv'
<1> DEFINE f == Head(work)
           X == Has(db, "L")
           g == Task("upKids", f.n)
<1>1. /\ work # <<>> /\ Head(work).op = "upEdge"
      /\ UNCHANGED <<now, localPts, localEdges, toLocal, subs, initialSub, conn>>
  BY DEF SendEdge, Doing, link, subscriptions
<1>2. /\ f.n \in Node /\ now \in Nat /\ f.loc \in CopySet /\ f.loc.edge.t > 0
  BY <1>1, HeadIn DEF TaskOk, Inv
<1>3. CASE SendFails /\ UNCHANGED <<db, newEdges>>
  BY <1>1, <1>3, SendFailsStep
<1>4. CASE db' = PutEdge(db, "R", f.n, f.loc.edge) /\ Announce(f.n, f.loc.edge) /\ Then(<<g>>)
  <2>1. f.loc.edge \in EdgeSet /\ "upKids" \in Ops
    BY <1>2 DEF CopySet, Ops
  <2>2. g \in TaskSet /\ g.op = "upKids" /\ g.kids = {} /\ IsFiniteSet(g.kids)
    BY <1>2, <2>1, TaskIn
  <2> HIDE DEF g
  <2>3. TaskOk(g, X)
    BY <2>2 DEF TaskOk
  <2>4. Good(<<g>>, X)
    BY <2>2, <2>3, GoodOne
  <2>5. More /\ Has(db', "L") = Has(db, "L") /\ newEdges' \in Seq(Has(db', "R"))
    BY <1>2, <1>4, <2>1, WriteRemote
  <2>6. /\ now' \in Nat /\ localPts' \in Seq(LocalPoint)
        /\ localEdges' \in Seq(LocalEdge(Has(db', "L"))) /\ NewOf(localEdges) \subseteq NewOf(localEdges')
    BY <1>1, <1>2, <2>5, Stays
  <2> QED BY <1>1, <1>4, <2>4, <2>5, <2>6, CallStep
<1> QED BY <1>3, <1>4 DEF SendEdge

\* The children on L are sent to R.
LEMMA SendKidsStep ==
    ASSUME Inv, SendKids
    PROVE  Inv'
<1> DEFINE n == Head(work).n
           X == Has(db, "L")
           M == {m \in Kids(n) : Live("L", m)}
           kids == SetToSeq(M)
           tasks == [i \in DOMAIN kids |-> Send("up", kids[i], Copy("L", kids[i]))]
<1>1. /\ work # <<>> /\ Head(work).op = "upKids"
      /\ UNCHANGED <<db, now, newEdges, localPts, localEdges, toLocal, subs, initialSub, conn>>
  BY DEF SendKids, Doing, link, queues, subscriptions
<1>2. n \in Node /\ db \in Stores
  BY <1>1, HeadIn DEF Inv
<1>3. M \in SUBSET Node /\ \A m \in M : Exists("L", m)
  BY DEF Kids, Live
<1>4. Then(tasks)
  BY Zenon DEF SendKids
<1>5. kids \in [1 .. Cardinality(M) -> M] /\ Cardinality(M) \in Nat
  <2> HIDE DEF M
  <2>1. IsFiniteSet(M)
    BY <1>3, FewNodes
  <2> QED BY <2>1, SetToSeqIn
<1>6. ASSUME NEW m \in M
      PROVE  LET f == Send("up", m, Copy("L", m)) IN f \in TaskSet /\ f.op = "up" /\ TaskOk(f, X)
  <2> DEFINE c == Copy("L", m)
             f == Send("up", m, c)
  <2>1. c \in CopySet /\ c.edge.t > 0 /\ m \in Node /\ "up" \in Ops
    BY <1>2, <1>3, CopyIn DEF Ops
  <2> HIDE DEF c
  <2>2. f \in TaskSet /\ f.op = "up" /\ f.kids = {} /\ IsFiniteSet(f.kids) /\ f.loc = c
    BY <2>1, SendIn
  <2> HIDE DEF f, X
  <2>3. TaskOk(f, X)
    BY <2>1, <2>2 DEF TaskOk
  <2> QED BY <2>2, <2>3 DEF f, c
<1> HIDE DEF kids, M
<1>7. /\ tasks \in Seq(TaskSet) /\ DOMAIN tasks = 1 .. Cardinality(M)
      /\ \A i \in DOMAIN tasks : tasks[i].op = "up" /\ TaskOk(tasks[i], X)
  <2>1. DOMAIN kids = 1 .. Cardinality(M) /\ \A i \in DOMAIN kids : kids[i] \in M
    BY <1>5
  <2>2. \A i \in DOMAIN kids : tasks[i] = Send("up", kids[i], Copy("L", kids[i]))
    OBVIOUS
  <2>3. DOMAIN tasks = 1 .. Cardinality(M)
    BY <2>1
  <2> HIDE DEF X
  <2>4. \A i \in DOMAIN kids : tasks[i] \in TaskSet /\ tasks[i].op = "up" /\ TaskOk(tasks[i], X)
    BY <1>6, <2>1, <2>2, Zenon
  <2>5. tasks \in [1 .. Cardinality(M) -> TaskSet]
    BY <2>1, <2>4
  <2> HIDE DEF tasks
  <2> QED BY <1>5, <2>1, <2>3, <2>4, <2>5
<1> HIDE DEF tasks
<1>8. Good(tasks, X)
  BY <1>7 DEF Good, AfterDown, BeforeSub
<1> QED BY <1>1, <1>4, <1>8, CallOnly DEF X

\* A node is sent to L.
LEMMA SendLocalStep ==
    ASSUME Inv, SendLocal
    PROVE  Inv'
<1> DEFINE f == Head(work)
           n == f.n
           e == f.loc.edge
           X == Has(db, "L")
           Y == Has(db', "L")
           d == PutPoint(db, "L", n, f.loc.pt)
<1>1. /\ work # <<>> /\ Head(work).op = "down" /\ Then(<<>>)
      /\ UNCHANGED <<now, newEdges, localPts, localEdges, toLocal, subs, initialSub, conn>>
      /\ db' = PutEdge(d, "L", n, e)
  BY DEF SendLocal, Doing, link, queues, subscriptions, Return
<1>2. n \in Node /\ db \in Stores /\ f.loc \in CopySet /\ e.t > 0
  BY <1>1, HeadIn DEF TaskOk, Inv
<1>3. e \in EdgeSet /\ f.loc.pt \in Nat
  BY <1>2 DEF CopySet
<1> HIDE DEF n, e
<1>4. d \in Stores /\ \A r \in {"L", "R"} : Has(d, r) = Has(db, r)
  BY <1>2, <1>3, PutPointHas
<1> HIDE DEF d
<1>5. /\ db' \in Stores
      /\ \A r \in {"L", "R"} : Has(d, r) \subseteq Has(db', r)
      /\ Has(db', "L") \subseteq Has(d, "L") \cup {n}
      /\ n \in Has(db', "L")
  BY <1>1, <1>2, <1>3, <1>4, PutEdgeHas
<1>6. More /\ X \subseteq Y /\ Y \subseteq X \cup {n} /\ n \in Y
  BY <1>4, <1>5 DEF More
<1>7. Good(work, X) /\ work \in Seq(TaskSet)
  BY DEF Inv, Good
<1>8. work' = Tail(work)
  BY <1>1, <1>7 DEF Then
<1>9. Good(work', Y) /\ SubsOf(work) \subseteq SubsOf(work') /\ n \in SubsOf(work')
  <2>1. Head(work).op = "down" /\ Head(work).n \in Y /\ Head(work).op # "sub"
    BY <1>1, <1>6 DEF n
  <2> HIDE DEF X, Y, f
  <2>2. /\ Good(Tail(work), Y) /\ Head(work).n \in SubsOf(Tail(work))
        /\ SubsOf(work) \subseteq SubsOf(Tail(work)) \cup IF Head(work).op = "sub" THEN {Head(work).n} ELSE {}
    BY <1>1, <1>6, <1>7, <2>1, GoodTail
  <2> QED BY <1>8, <2>1, <2>2 DEF n, f
<1>10. /\ now' \in Nat /\ newEdges' \in Seq(Has(db', "R")) /\ localPts' \in Seq(LocalPoint)
       /\ localEdges' \in Seq(LocalEdge(Has(db', "L"))) /\ toLocal' \subseteq RemotePoint(Has(db', "L"))
       /\ subs' \subseteq Has(db', "L")
  BY <1>1, <1>6, Stays DEF Inv
<1>11. initialSub' => initialSub /\ conn' # "none"
  BY <1>1 DEF Inv
<1>12. /\ Covered(subs, work, localEdges) \subseteq Covered(subs', work', localEdges')
       /\ Has(db', "L") \subseteq Has(db, "L") \cup Covered(subs', work', localEdges')
  BY <1>1, <1>6, <1>9 DEF Covered
<1> QED BY <1>6, <1>9, <1>10, <1>11, <1>12, Finish

\* A node of L is subscribed, with what is below it.
LEMMA SubscribeIn ==
    ASSUME Inv, NEW n \in Has(db, "L"), Subscribe(n)
    PROVE  /\ subs' \subseteq Has(db, "L") /\ subs \subseteq subs'
           /\ conn # "none" => n \in subs' /\ \A m \in Below(n) : m \in Has(db, "L") => m \in subs'
<1>1. {m \in Below(n) : Exists("L", m)} \subseteq Has(db, "L")
      /\ \A m \in Below(n) : m \in Has(db, "L") => m \in {m2 \in Below(n) : Exists("L", m2)}
  BY DEF Below, Exists, Has
<1>2. subs \subseteq Has(db, "L")
  BY DEF Inv
<1> QED BY <1>1, <1>2 DEF Subscribe

\* A call that subscribes a node.
LEMMA SubscribeNodeStep ==
    ASSUME Inv, SubscribeNode
    PROVE  Inv'
<1> DEFINE n == Head(work).n
           X == Has(db, "L")
<1>1. /\ work # <<>> /\ Head(work).op \in {"sub", "subSent"} /\ Then(<<>>) /\ Subscribe(n)
      /\ UNCHANGED <<db, now, newEdges, localPts, localEdges, toLocal, initialSub, conn>>
  BY DEF SubscribeNode, Doing, link, queues, Return
<1>2. n \in X
  BY <1>1, HeadIn DEF TaskOk
<1>3. More /\ Has(db', "L") = X
  BY <1>1, SameDb
<1>4. subs' \subseteq X /\ subs \subseteq subs' /\ (conn # "none" => n \in subs')
  BY <1>1, <1>2, SubscribeIn
<1>5. Good(work, X) /\ work \in Seq(TaskSet)
  BY DEF Inv, Good
<1>6. work' = Tail(work)
  BY <1>1, <1>5 DEF Then
<1>7. Good(work', X) /\ SubsOf(work) \subseteq SubsOf(work') \cup {n}
  <2> HIDE DEF X
  <2>1. Head(work).op # "down"
    BY <1>1
  <2>2. /\ Good(Tail(work), X)
        /\ SubsOf(work) \subseteq SubsOf(Tail(work)) \cup IF Head(work).op = "sub" THEN {Head(work).n} ELSE {}
    BY <1>1, <1>5, <2>1, GoodTail
  <2> QED BY <1>6, <2>2
<1>8. /\ now' \in Nat /\ newEdges' \in Seq(Has(db', "R")) /\ localPts' \in Seq(LocalPoint)
      /\ localEdges' \in Seq(LocalEdge(Has(db', "L"))) /\ toLocal' \subseteq RemotePoint(Has(db', "L"))
  BY <1>1, <1>3, Stays DEF Inv
<1>9. initialSub' => initialSub /\ conn' # "none" /\ conn # "none"
  BY <1>1 DEF Inv
<1> HIDE DEF n
<1>10. initialSub' =>
          /\ Covered(subs, work, localEdges) \subseteq Covered(subs', work', localEdges')
          /\ Has(db', "L") \subseteq Has(db, "L") \cup Covered(subs', work', localEdges')
  BY <1>1, <1>3, <1>4, <1>7, <1>9 DEF Covered
<1> QED BY <1>3, <1>4, <1>7, <1>8, <1>9, <1>10, Finish

\* The whole tree is subscribed.
LEMMA SubscribeInitialStep ==
    ASSUME Inv, SubscribeInitial
    PROVE  Inv'
<1> DEFINE X == Has(db, "L")
<1>1. /\ work # <<>> /\ Head(work).op = "init" /\ Then(<<>>)
      /\ UNCHANGED <<db, now, newEdges, localPts, localEdges, toLocal, conn>>
  BY DEF SubscribeInitial, Doing, link, queues, Return
<1>2. Good(<<>>, X)
  BY GoodEmpty
<1>3. CASE UNCHANGED <<initialSub, subs, dud>>
  BY <1>1, <1>2, <1>3, CallOnly
<1>4. CASE Subscribe(Device) /\ initialSub' = (conn # "none")
  <2>1. Device \in X
    BY DEF Inv
  <2>2. /\ subs' \subseteq X
        /\ conn # "none" => Device \in subs' /\ \A m \in Below(Device) : m \in X => m \in subs'
    BY <1>4, <2>1, SubscribeIn
  <2>3. X \subseteq Below(Device)
    BY SyncAssumption DEF Below, Has
  <2>4. More /\ Has(db', "L") = X
    BY <1>1, SameDb
  <2>5. Good(work', X)
    BY <1>1, <1>2, <2>4, ThenGood
  <2>6. /\ now' \in Nat /\ newEdges' \in Seq(Has(db', "R")) /\ localPts' \in Seq(LocalPoint)
        /\ localEdges' \in Seq(LocalEdge(Has(db', "L"))) /\ toLocal' \subseteq RemotePoint(Has(db', "L"))
        /\ Device \in Has(db', "L") /\ db' \in Stores
    BY <1>1, <2>4, Stays DEF Inv
  <2>7. initialSub' => conn' # "none" /\ X \subseteq subs'
    BY <1>1, <1>4, <2>2, <2>3
  <2> HIDE DEF X
  <2> QED BY <2>2, <2>4, <2>5, <2>6, <2>7 DEF Inv
<1> QED BY <1>3, <1>4 DEF SubscribeInitial

-----------------------------------------------------------------------------
(* The steps of Run *)

\* No call is under way.
LEMMA NoCalls ==
    ASSUME Idle
    PROVE  SubsOf(work) = {}
BY GoodEmpty DEF Idle

\* Only the connection changes, or what has been received.
LEMMA LinkStep ==
    ASSUME Inv, UNCHANGED <<db, now, work, newEdges, localPts, localEdges, subs, initialSub>>,
           toLocal' \subseteq toLocal, conn # "none" => conn' # "none"
    PROVE  Inv'
<1>1. More /\ Has(db', "L") = Has(db, "L")
  BY SameDb
<1>2. /\ now' \in Nat /\ newEdges' \in Seq(Has(db', "R")) /\ localPts' \in Seq(LocalPoint)
      /\ localEdges' \in Seq(LocalEdge(Has(db', "L"))) /\ toLocal \subseteq RemotePoint(Has(db', "L"))
      /\ subs' \subseteq Has(db', "L") /\ Good(work', Has(db', "L"))
  BY <1>1, Stays DEF Inv
<1>3. initialSub' => initialSub /\ conn' # "none"
  BY DEF Inv
<1>4. /\ Covered(subs, work, localEdges) \subseteq Covered(subs', work', localEdges')
      /\ Has(db', "L") \subseteq Has(db, "L") \cup Covered(subs', work', localEdges')
  BY <1>1 DEF Covered
<1> QED BY <1>1, <1>2, <1>3, <1>4, Finish

\* A comparison starts.
LEMMA StartStep ==
    ASSUME Inv, Idle, NEW w, Good(w, Has(db, "L")), work' = w,
           UNCHANGED <<db, now, newEdges, localPts, localEdges, toLocal, subs, initialSub, conn>>
    PROVE  Inv'
<1>1. More /\ Has(db', "L") = Has(db, "L")
  BY SameDb
<1>2. Good(work', Has(db', "L")) /\ SubsOf(work) \subseteq SubsOf(work')
  BY <1>1, NoCalls
<1>3. /\ now' \in Nat /\ newEdges' \in Seq(Has(db', "R")) /\ localPts' \in Seq(LocalPoint)
      /\ localEdges' \in Seq(LocalEdge(Has(db', "L"))) /\ NewOf(localEdges) \subseteq NewOf(localEdges')
  BY <1>1, Stays DEF Inv
<1> QED BY <1>1, <1>2, <1>3, Quiet

\* connectTimer and syncTicker, and the connection.
LEMMA ConnectStep ==
    ASSUME Inv, Connect \/ Tick \/ Connected
    PROVE  Inv'
<1> DEFINE f == Task("visit", Device)
           g == Task("init", Device)
           X == Has(db, "L")
<1>1. CASE Connect
  <2>1. /\ UNCHANGED <<db, now, work, newEdges, localPts, localEdges, subs, initialSub, toLocal>>
        /\ conn # "none" => conn' # "none"
    BY <1>1 DEF Connect, queues, subscriptions
  <2> QED BY <2>1, LinkStep
<1>2. f \in TaskSet /\ f.op = "visit" /\ f.n = Device /\ f.kids = {} /\ IsFiniteSet(f.kids)
  BY SyncAssumption, TaskIn DEF Ops
<1>3. g \in TaskSet /\ g.op = "init" /\ g.kids = {} /\ IsFiniteSet(g.kids)
  BY SyncAssumption, TaskIn DEF Ops
<1>4. Device \in X
  BY DEF Inv
<1>5. CASE Tick \/ Connected
  <2>1. /\ Idle /\ work' \in {<<f>>, <<f, g>>, <<>>}
        /\ UNCHANGED <<db, now, newEdges, localPts, localEdges, toLocal, subs, initialSub, conn>>
    BY <1>5 DEF Tick, Connected, link, queues, subscriptions
  <2> HIDE DEF f, g, X
  <2>2. TaskOk(f, X) /\ TaskOk(g, X)
    BY <1>2, <1>3, <1>4 DEF TaskOk
  <2>3. Good(<<f>>, X) /\ Good(<<f, g>>, X) /\ Good(<<>>, X)
    BY <1>2, <1>3, <2>2, GoodOne, GoodTwo, GoodEmpty
  <2> QED BY <2>1, <2>3, StartStep DEF X
<1> QED BY <1>1, <1>5

\* A point on the bus of L is handled.
LEMMA LocalNodePointsStep ==
    ASSUME Inv, LocalNodePoints
    PROVE  Inv'
<1> DEFINE p == Head(localPts)
<1>1. /\ localPts # <<>> /\ localPts' = Tail(localPts)
      /\ UNCHANGED <<work, now, newEdges, localEdges, toLocal, subs, initialSub, conn>>
      /\ db' = PutPoint(db, "R", p.n, p.t) \/ UNCHANGED db
  BY DEF LocalNodePoints, link, subscriptions
<1>2. localPts \in Seq(LocalPoint)
  BY DEF Inv
<1>3. localPts' \in Seq(LocalPoint) /\ p \in LocalPoint
  BY <1>1, <1>2
<1>4. p.n \in Node /\ p.t \in Nat
  BY <1>3 DEF LocalPoint
<1>5. More /\ Has(db', "L") = Has(db, "L") /\ Has(db', "R") = Has(db, "R")
  BY <1>1, <1>4, WritePoint, SameDb
<1>6. /\ now' \in Nat /\ newEdges' \in Seq(Has(db', "R")) /\ Good(work', Has(db', "L"))
      /\ SubsOf(work) \subseteq SubsOf(work')
      /\ localEdges' \in Seq(LocalEdge(Has(db', "L"))) /\ NewOf(localEdges) \subseteq NewOf(localEdges')
  BY <1>1, <1>5, Stays DEF Inv
<1> QED BY <1>1, <1>3, <1>5, <1>6, Quiet

\* An edge point on the bus of L is handled.  If its node is not deleted, it
\* waits to be subscribed.
LEMMA LocalEdgePointsStep ==
    ASSUME Inv, LocalEdgePoints
    PROVE  Inv'
<1> DEFINE p == Head(localEdges)
           X == Has(db, "L")
           g == [p EXCEPT !.sent = TRUE]
           q == Tail(localEdges)
<1>1. /\ localEdges # <<>>
      /\ UNCHANGED <<work, now, localPts, toLocal, subs, initialSub, conn>>
      /\ \/ db' = PutEdge(db, "R", p.n, p.e) /\ Announce(p.n, p.e)
         \/ UNCHANGED <<db, newEdges>>
      /\ localEdges' = (IF p.e.dead THEN <<>> ELSE <<g>>) \o q
  BY DEF LocalEdgePoints, link, subscriptions
<1>2. localEdges \in Seq(LocalEdge(X))
  BY DEF Inv
<1>3. /\ p \in LocalEdge(X) /\ q \in Seq(LocalEdge(X))
      /\ NewOf(localEdges) \subseteq NewOf(q) \cup IF p.e.dead THEN {} ELSE {p.n}
  <2> HIDE DEF X
  <2> QED BY <1>1, <1>2, NewTail
<1> HIDE DEF p, q
<1>4. p.n \in Node /\ p.e \in EdgeSet /\ p.e.t > 0
  BY <1>3 DEF LocalEdge, MadeEdge, Has
<1>5. localEdges' \in Seq(LocalEdge(X)) /\ NewOf(localEdges) \subseteq NewOf(localEdges')
  <2> HIDE DEF X
  <2>1. CASE p.e.dead
    <3>1. localEdges' = q
      BY <1>1, <1>3, <2>1
    <3> QED BY <1>3, <2>1, <3>1
  <2>2. CASE ~p.e.dead
    <3>1. g \in LocalEdge(X) /\ g.n = p.n /\ g.e = p.e
      BY <1>3 DEF LocalEdge
    <3> HIDE DEF g
    <3> DEFINE r == <<g>> \o q
    <3>2. r \in Seq(LocalEdge(X)) /\ NewOf(q) \subseteq NewOf(r) /\ p.n \in NewOf(r)
      BY <1>3, <2>2, <3>1, NewSent
    <3>3. localEdges' = r
      BY <1>1, <2>2
    <3> HIDE DEF r
    <3> QED BY <1>3, <2>2, <3>2, <3>3
  <2> QED BY <2>1, <2>2
<1>6. More /\ Has(db', "L") = Has(db, "L") /\ newEdges' \in Seq(Has(db', "R"))
  <2>1. CASE UNCHANGED <<db, newEdges>>
    BY <2>1, SameDb DEF Inv
  <2>2. CASE db' = PutEdge(db, "R", p.n, p.e) /\ Announce(p.n, p.e)
    BY <1>4, <2>2, WriteRemote
  <2> QED BY <1>1, <2>1, <2>2
<1>7. /\ now' \in Nat /\ Good(work', Has(db', "L")) /\ SubsOf(work) \subseteq SubsOf(work')
      /\ localPts' \in Seq(LocalPoint)
  BY <1>1, <1>6, Stays DEF Inv
<1> QED BY <1>1, <1>5, <1>6, <1>7, Quiet

\* A node that L has announced is subscribed.
LEMMA NewEdgeLocalStep ==
    ASSUME Inv, NewEdgeLocal
    PROVE  Inv'
<1> DEFINE p == Head(localEdges)
           n == p.n
           X == Has(db, "L")
<1>1. /\ localEdges # <<>> /\ localEdges' = Tail(localEdges) /\ Subscribe(n)
      /\ UNCHANGED <<db, work, now, newEdges, localPts, toLocal, initialSub, conn>>
  BY DEF NewEdgeLocal, link
<1>2. localEdges \in Seq(LocalEdge(X))
  BY DEF Inv
<1>3. /\ p \in LocalEdge(X) /\ localEdges' \in Seq(LocalEdge(X))
      /\ NewOf(localEdges) \subseteq NewOf(localEdges') \cup IF p.e.dead THEN {} ELSE {n}
  <2> HIDE DEF X
  <2> QED BY <1>1, <1>2, NewTail
<1>4. n \in X
  BY <1>3 DEF LocalEdge
<1>5. subs' \subseteq X /\ subs \subseteq subs' /\ (conn # "none" => n \in subs')
  BY <1>1, <1>4, SubscribeIn
<1>6. More /\ Has(db', "L") = Has(db, "L")
  BY <1>1, SameDb
<1>7. /\ now' \in Nat /\ newEdges' \in Seq(Has(db', "R")) /\ localPts' \in Seq(LocalPoint)
      /\ toLocal' \subseteq RemotePoint(Has(db', "L")) /\ Good(work', Has(db', "L"))
  BY <1>1, <1>6, Stays DEF Inv
<1>8. initialSub' => initialSub /\ conn' # "none" /\ conn # "none"
  BY <1>1 DEF Inv
<1> HIDE DEF p, n
<1>9. initialSub' =>
         /\ Covered(subs, work, localEdges) \subseteq Covered(subs', work', localEdges')
         /\ Has(db', "L") \subseteq Has(db, "L") \cup Covered(subs', work', localEdges')
  BY <1>1, <1>3, <1>5, <1>6, <1>8 DEF Covered
<1> QED BY <1>3, <1>5, <1>6, <1>7, <1>8, <1>9, Finish

\* A node that R has announced is fetched.
LEMMA NewEdgeRemoteStep ==
    ASSUME Inv, NewEdgeRemote
    PROVE  Inv'
<1> DEFINE n == Head(newEdges)
           X == Has(db, "L")
           c == Copy("R", n)
           u == Send("down", n, c)
           v == Task("sub", n)
<1>1. /\ newEdges # <<>> /\ newEdges' = Tail(newEdges) /\ Idle
      /\ UNCHANGED <<now, localPts, localEdges, toLocal, subs, initialSub, conn>>
  BY DEF NewEdgeRemote, link, subscriptions
<1>2. \/ n = Device /\ db' = PutPoint(db, "L", n, db["R"].pt[n]) /\ work' = <<v>>
      \/ work' = <<u, v>> /\ UNCHANGED db
      \/ UNCHANGED <<db, work>>
  BY Zenon DEF NewEdgeRemote
<1>3. newEdges \in Seq(Has(db, "R")) /\ db \in Stores /\ now \in Nat
  BY DEF Inv
<1>4. n \in Has(db, "R") /\ Tail(newEdges) \in Seq(Has(db, "R"))
  BY <1>1, <1>3
<1>5. n \in Node
  BY <1>4 DEF Has
<1>6. "down" \in Ops /\ "sub" \in Ops
  BY DEF Ops
<1>7. c \in CopySet /\ c.edge.t > 0
  BY <1>3, <1>4, <1>5, CopyIn
<1> HIDE DEF n, c
<1>8. u \in TaskSet /\ u.op = "down" /\ u.n = n /\ u.kids = {} /\ IsFiniteSet(u.kids) /\ u.loc = c
  BY <1>5, <1>6, <1>7, SendIn
<1>9. v \in TaskSet /\ v.op = "sub" /\ v.n = n /\ v.kids = {} /\ IsFiniteSet(v.kids)
  BY <1>5, <1>6, TaskIn
<1> HIDE DEF u, v
<1>10. TaskOk(u, X) /\ TaskOk(v, X)
  BY <1>7, <1>8, <1>9 DEF TaskOk
<1>11. Good(<<u, v>>, X) /\ (n \in X => Good(<<v>>, X))
  <2> HIDE DEF X
  <2> QED BY <1>8, <1>9, <1>10, GoodDown, GoodOne
<1>12. More /\ Has(db', "L") = X /\ Has(db', "R") = Has(db, "R")
  <2>1. db["R"].pt[n] \in Nat
    BY <1>3, <1>5 DEF Stores, OneStore
  <2> QED BY <1>2, <1>5, <2>1, WritePoint, SameDb
<1>13. Good(work', X)
  BY <1>2, <1>11 DEF Inv
<1>14. /\ now' \in Nat /\ newEdges' \in Seq(Has(db', "R")) /\ localPts' \in Seq(LocalPoint)
       /\ localEdges' \in Seq(LocalEdge(Has(db', "L"))) /\ NewOf(localEdges) \subseteq NewOf(localEdges')
  BY <1>1, <1>3, <1>4, <1>12, Stays
<1>15. SubsOf(work) \subseteq SubsOf(work')
  BY <1>1, NoCalls
<1> QED BY <1>1, <1>12, <1>13, <1>14, <1>15, Quiet

\* Nothing of a list, its first member, or all of it.
LEMMA FirstOf ==
    ASSUME NEW S, NEW q \in Seq(S), NEW r, r \in {<<>>, <<Head(q)>>, q}, q = <<>> => r = <<>>
    PROVE  r \in Seq(S)
<1>1. CASE r = <<>>
  BY <1>1
<1>2. CASE q # <<>> /\ r = <<Head(q)>>
  <2>1. Head(q) \in S
    BY <1>2
  <2> QED BY <1>2, <2>1
<1> QED BY <1>1, <1>2

\* The connection is closed, and all subscriptions are.
LEMMA ResetStep ==
    ASSUME Inv, UNCHANGED <<db, now, work>>, initialSub' = FALSE, subs' = {}, toLocal' \subseteq toLocal,
           newEdges' \in {<<>>, <<Head(newEdges)>>}, newEdges = <<>> => newEdges' = <<>>,
           localPts' \in {<<>>, localPts}, localEdges' \in {<<>>, localEdges}
    PROVE  Inv'
<1>1. More /\ Has(db', "L") = Has(db, "L")
  BY SameDb
<1>2. /\ now' \in Nat /\ newEdges \in Seq(Has(db', "R")) /\ localPts \in Seq(LocalPoint)
      /\ localEdges \in Seq(LocalEdge(Has(db', "L"))) /\ toLocal \subseteq RemotePoint(Has(db', "L"))
      /\ Good(work', Has(db', "L"))
  BY <1>1, Stays DEF Inv
<1>3. newEdges' \in Seq(Has(db', "R"))
  BY <1>2, FirstOf
<1>4. localPts' \in Seq(LocalPoint)
  BY <1>2, FirstOf
<1>5. localEdges' \in Seq(LocalEdge(Has(db', "L")))
  BY <1>2, FirstOf
<1> QED BY <1>1, <1>2, <1>3, <1>4, <1>5, Finish

\* newPoints, and a new client.
LEMMA RestartStep ==
    ASSUME Inv, NewPoints \/ SyncCountReset \/ Restart
    PROVE  Inv'
<1>1. CASE NewPoints
  <2>1. /\ UNCHANGED <<db, now, work>> /\ initialSub' = FALSE /\ subs' = {} /\ toLocal' \subseteq toLocal
        /\ newEdges' \in {<<>>, <<Head(newEdges)>>} /\ (newEdges = <<>> => newEdges' = <<>>)
        /\ localPts' \in {<<>>, localPts} /\ localEdges' \in {<<>>, localEdges}
    BY <1>1 DEF NewPoints, Disconnect
  <2> QED BY <2>1, ResetStep
<1>2. CASE Restart
  <2>1. /\ UNCHANGED <<db, now, work>> /\ initialSub' = FALSE /\ subs' = {} /\ toLocal' \subseteq toLocal
        /\ newEdges' \in {<<>>, <<Head(newEdges)>>} /\ (newEdges = <<>> => newEdges' = <<>>)
        /\ localPts' \in {<<>>, localPts} /\ localEdges' \in {<<>>, localEdges}
    BY <1>2 DEF Restart
  <2> QED BY <2>1, ResetStep
<1>3. CASE SyncCountReset
  <2>1. WriteCount /\ UNCHANGED <<work, now, newEdges, localEdges, toLocal, subs, initialSub, conn>>
    BY <1>3 DEF SyncCountReset, link, subscriptions
  <2>2. /\ More /\ Has(db', "L") = Has(db, "L") /\ Has(db', "R") = Has(db, "R")
        /\ localPts' \in Seq(LocalPoint)
    BY <2>1, WriteCountKeeps
  <2>3. /\ now' \in Nat /\ newEdges' \in Seq(Has(db', "R")) /\ Good(work', Has(db', "L"))
        /\ SubsOf(work) \subseteq SubsOf(work')
        /\ localEdges' \in Seq(LocalEdge(Has(db', "L"))) /\ NewOf(localEdges) \subseteq NewOf(localEdges')
    BY <2>1, <2>2, Stays DEF Inv
  <2> QED BY <2>1, <2>2, <2>3, Quiet
<1> QED BY <1>1, <1>2, <1>3

-----------------------------------------------------------------------------
(* The connection and the users *)

\* The connection comes or is lost.
LEMMA LinkUpDownStep ==
    ASSUME Inv, LinkUp \/ LinkDown
    PROVE  Inv'
<1>1. /\ UNCHANGED <<db, now, work, newEdges, localPts, localEdges, subs, initialSub>>
      /\ toLocal' \subseteq toLocal /\ conn' # "none"
  BY DEF LinkUp, LinkDown, queues, subscriptions
<1> QED BY <1>1, LinkStep

\* A subscription writes to L what it has received.
LEMMA DeliverLocalStep ==
    ASSUME Inv, DeliverLocal
    PROVE  Inv'
<1>1. PICK p \in toLocal :
        /\ db' = IF p.edge THEN PutEdge(db, "L", p.n, p.e) ELSE PutPoint(db, "L", p.n, p.e.t)
        /\ toLocal' = toLocal \ {p}
        /\ UNCHANGED <<link, subscriptions, localPts, localEdges, newEdges, work, now>>
  BY DEF DeliverLocal
<1>2. p.n \in Has(db, "L") /\ p.e \in EdgeSet
  BY DEF Inv, RemotePoint
<1>3. p.n \in Node /\ p.e.t \in Nat
  BY <1>2 DEF Has, EdgeSet
<1>4. More /\ Has(db', "L") = Has(db, "L")
  <2>1. CASE p.edge
    <3>1. db' = PutEdge(db, "L", p.n, p.e)
      BY <1>1, <2>1
    <3>2. More /\ Has(db', "L") \subseteq Has(db, "L") \cup {p.n}
      BY <1>2, <1>3, <3>1, WriteEdge
    <3> QED BY <1>2, <3>2 DEF More
  <2>2. CASE ~p.edge
    BY <1>1, <1>3, <2>2, WritePoint
  <2> QED BY <2>1, <2>2
<1>5. UNCHANGED <<localPts, localEdges, newEdges, work, now, subs, initialSub, conn>>
  BY <1>1 DEF link, subscriptions
<1>6. /\ now' \in Nat /\ newEdges' \in Seq(Has(db', "R")) /\ localPts' \in Seq(LocalPoint)
      /\ localEdges' \in Seq(LocalEdge(Has(db', "L"))) /\ toLocal \subseteq RemotePoint(Has(db', "L"))
      /\ subs' \subseteq Has(db', "L") /\ Good(work', Has(db', "L"))
  BY <1>4, <1>5, Stays DEF Inv
<1>7. toLocal' \subseteq RemotePoint(Has(db', "L"))
  BY <1>1, <1>6
<1>8. initialSub' => initialSub /\ conn' # "none"
  BY <1>5 DEF Inv
<1>9. /\ Covered(subs, work, localEdges) \subseteq Covered(subs', work', localEdges')
      /\ Has(db', "L") \subseteq Has(db, "L") \cup Covered(subs', work', localEdges')
  BY <1>4, <1>5 DEF Covered
<1> QED BY <1>4, <1>6, <1>7, <1>8, <1>9, Finish

\* What subscriptions receive is about nodes of L.
LEMMA ReceivedIn ==
    ASSUME Inv, NEW s, NEW n, NEW edge \in BOOLEAN, NEW e \in EdgeSet
    PROVE  Received(s, n, edge, e) \subseteq RemotePoint(Has(db, "L"))
<1>1. subs \subseteq Has(db, "L")
  BY DEF Inv
<1> QED BY <1>1 DEF Received, RemotePoint

\* What a user does is heard.
LEMMA UserStep ==
    ASSUME Inv, More, User, NEW T, toLocal' = toLocal \cup T, T \subseteq RemotePoint(Has(db, "L")),
           localPts' \in Seq(LocalPoint),
           newEdges' \in Seq(Has(db', "R")),
           localEdges' \in Seq(LocalEdge(Has(db', "L"))), NewOf(localEdges) \subseteq NewOf(localEdges'),
           Has(db', "L") \subseteq Has(db, "L") \cup NewOf(localEdges')
    PROVE  Inv'
<1>1. now' \in Nat /\ UNCHANGED <<work, subs, initialSub, conn>>
  BY DEF User, Inv, link, subscriptions
<1>2. toLocal \subseteq RemotePoint(Has(db', "L")) /\ subs' \subseteq Has(db', "L") /\ Good(work', Has(db', "L"))
  BY <1>1, Stays
<1>3. toLocal' \subseteq RemotePoint(Has(db', "L"))
  <2>1. RemotePoint(Has(db, "L")) \subseteq RemotePoint(Has(db', "L"))
    BY MoreSeqs DEF More
  <2> QED BY <1>2, <2>1
<1>4. initialSub' => initialSub /\ conn' # "none"
  BY <1>1 DEF Inv
<1>5. /\ Covered(subs, work, localEdges) \subseteq Covered(subs', work', localEdges')
      /\ Has(db', "L") \subseteq Has(db, "L") \cup Covered(subs', work', localEdges')
  BY <1>1 DEF Covered
<1> QED BY <1>1, <1>2, <1>3, <1>4, <1>5, Finish

\* The point that a user writes on L.
LEMMA HeardPointIn ==
    ASSUME Inv, NEW s, NEW n \in Node, HeardPoint(s, n)
    PROVE  localPts' \in Seq(LocalPoint)
<1> DEFINE p == [n |-> n, t |-> now + 1]
<1>1. localPts \in Seq(LocalPoint) /\ now \in Nat
  BY DEF Inv
<1>2. p \in LocalPoint
  BY <1>1 DEF LocalPoint
<1>3. localPts' = Append(localPts, p) \/ localPts' = localPts
  BY DEF HeardPoint
<1> HIDE DEF p
<1> QED BY <1>1, <1>2, <1>3

\* The edge that a user writes, on L or on R.
LEMMA HeardEdgeIn ==
    ASSUME Inv, More, NEW s \in {"L", "R"}, NEW n, NEW e \in MadeEdge, n \in Has(db', s), HeardEdge(s, n, e)
    PROVE  /\ newEdges' \in Seq(Has(db', "R"))
           /\ localEdges' \in Seq(LocalEdge(Has(db', "L"))) /\ NewOf(localEdges) \subseteq NewOf(localEdges')
           /\ s = "L" /\ ~e.dead => n \in NewOf(localEdges')
<1> DEFINE p == [n |-> n, e |-> e, sent |-> FALSE]
           Y == Has(db', "L")
<1>1. newEdges \in Seq(Has(db', "R")) /\ localEdges \in Seq(LocalEdge(Y))
  BY Stays
<1>2. CASE s = "L"
  <2>1. localEdges' = Append(localEdges, p) /\ newEdges' = newEdges
    BY <1>2 DEF HeardEdge
  <2>2. p \in LocalEdge(Y) /\ p.n = n /\ p.e = e
    BY <1>2 DEF LocalEdge
  <2> HIDE DEF p, Y
  <2>3. /\ localEdges' \in Seq(LocalEdge(Y)) /\ NewOf(localEdges) \subseteq NewOf(localEdges')
        /\ ~p.e.dead => p.n \in NewOf(localEdges')
    BY <1>1, <2>1, <2>2, NewAppend
  <2> QED BY <1>1, <2>1, <2>2, <2>3 DEF Y
<1>3. CASE s = "R"
  <2>1. localEdges' = localEdges /\ Announce(n, e)
    BY <1>3 DEF HeardEdge
  <2>2. newEdges' \in Seq(Has(db', "R"))
    BY <1>1, <1>3, <2>1, AnnounceIn
  <2> QED BY <1>1, <1>3, <2>1, <2>2
<1> QED BY <1>2, <1>3

\* A user writes a point.
LEMMA UserWritesStep ==
    ASSUME Inv, UserWrites
    PROVE  Inv'
<1> DEFINE e == [t |-> now + 1, dead |-> FALSE]
<1>1. PICK s \in {"L", "R"}, n \in Node :
        /\ db' = PutPoint(db, s, n, now + 1)
        /\ HeardPoint(s, n)
        /\ toLocal' = toLocal \cup Received(s, n, FALSE, e)
        /\ User
        /\ UNCHANGED <<localEdges, newEdges>>
  BY Zenon DEF UserWrites
<1>2. now + 1 \in Nat
  BY DEF Inv
<1>3. e \in EdgeSet
  BY <1>2 DEF EdgeSet
<1> HIDE DEF e
<1>4. Received(s, n, FALSE, e) \subseteq RemotePoint(Has(db, "L"))
  BY <1>3, ReceivedIn
<1>5. More /\ Has(db', "L") = Has(db, "L")
  BY <1>1, <1>2, WritePoint
<1>6. /\ newEdges' \in Seq(Has(db', "R")) /\ localEdges' \in Seq(LocalEdge(Has(db', "L")))
      /\ NewOf(localEdges) \subseteq NewOf(localEdges')
      /\ Has(db', "L") \subseteq Has(db, "L") \cup NewOf(localEdges')
  BY <1>1, <1>5, Stays
<1>7. localPts' \in Seq(LocalPoint)
  BY <1>1, HeardPointIn
<1> QED BY <1>1, <1>4, <1>5, <1>6, <1>7, UserStep

\* A user creates a node.  One of L is announced there.
LEMMA UserCreatesStep ==
    ASSUME Inv, UserCreates
    PROVE  Inv'
<1> DEFINE e == [t |-> now + 1, dead |-> FALSE]
           d(s, n) == PutPoint(db, s, n, now + 1)
<1>1. PICK s \in {"L", "R"}, n \in Node :
        /\ db' = PutEdge(d(s, n), s, n, e)
        /\ HeardPoint(s, n)
        /\ HeardEdge(s, n, e)
        /\ toLocal' = toLocal \cup Received(s, n, FALSE, e) \cup Received(s, n, TRUE, e)
        /\ User
  BY Zenon DEF UserCreates
<1>2. now + 1 \in Nat /\ now + 1 > 0 /\ db \in Stores
  BY DEF Inv
<1>3. e \in EdgeSet /\ e.t > 0 /\ e \in MadeEdge /\ ~e.dead
  BY <1>2 DEF EdgeSet, MadeEdge
<1> HIDE DEF e
<1> DEFINE T == Received(s, n, FALSE, e) \cup Received(s, n, TRUE, e)
           f == d(s, n)
<1>4. T \subseteq RemotePoint(Has(db, "L")) /\ toLocal' = toLocal \cup T
  BY <1>1, <1>3, ReceivedIn
<1> HIDE DEF T
<1>5. f \in Stores /\ \A r \in {"L", "R"} : Has(f, r) = Has(db, r)
  BY <1>2, PutPointHas
<1>6. db' = PutEdge(f, s, n, e)
  BY <1>1
<1> HIDE DEF f
<1>7. /\ db' \in Stores
      /\ \A r \in {"L", "R"} : Has(f, r) \subseteq Has(db', r)
      /\ \A r \in {"L", "R"} : r # s => Has(db', r) = Has(f, r)
      /\ Has(db', s) \subseteq Has(f, s) \cup {n}
      /\ n \in Has(db', s)
  BY <1>3, <1>5, <1>6, PutEdgeHas
<1>8. More
  BY <1>5, <1>7 DEF More
<1>9. /\ newEdges' \in Seq(Has(db', "R"))
      /\ localEdges' \in Seq(LocalEdge(Has(db', "L"))) /\ NewOf(localEdges) \subseteq NewOf(localEdges')
      /\ s = "L" => n \in NewOf(localEdges')
  BY <1>1, <1>3, <1>7, <1>8, HeardEdgeIn
<1>10. Has(db', "L") \subseteq Has(db, "L") \cup NewOf(localEdges')
  <2>1. CASE s = "L"
    BY <1>5, <1>7, <1>9, <2>1
  <2>2. CASE s # "L"
    BY <1>5, <1>7, <2>2
  <2> QED BY <2>1, <2>2
<1>11. localPts' \in Seq(LocalPoint)
  BY <1>1, HeardPointIn
<1> QED BY <1>1, <1>4, <1>8, <1>9, <1>10, <1>11, UserStep

\* A user deletes a node.
LEMMA UserDeletesStep ==
    ASSUME Inv, UserDeletes
    PROVE  Inv'
<1> DEFINE e == [t |-> now + 1, dead |-> TRUE]
<1>1. PICK s \in {"L", "R"}, n \in Node :
        /\ Live(s, n)
        /\ db' = PutEdge(db, s, n, e)
        /\ HeardEdge(s, n, e)
        /\ toLocal' = toLocal \cup Received(s, n, TRUE, e)
        /\ User
        /\ UNCHANGED localPts
  BY Zenon DEF UserDeletes
<1>2. now + 1 \in Nat /\ now + 1 > 0 /\ db \in Stores
  BY DEF Inv
<1>3. e \in EdgeSet /\ e.t > 0 /\ e \in MadeEdge
  BY <1>2 DEF EdgeSet, MadeEdge
<1> HIDE DEF e
<1>4. Received(s, n, TRUE, e) \subseteq RemotePoint(Has(db, "L"))
  BY <1>3, ReceivedIn
<1>5. n \in Has(db, s)
  BY <1>1 DEF Live, Exists, Has
<1>6. /\ More
      /\ \A r \in {"L", "R"} : r # s => Has(db', r) = Has(db, r)
      /\ Has(db', s) \subseteq Has(db, s) \cup {n}
      /\ n \in Has(db', s)
  BY <1>1, <1>3, WriteEdge
<1>7. Has(db', "L") \subseteq Has(db, "L") \cup NewOf(localEdges')
  BY <1>5, <1>6
<1>8. /\ newEdges' \in Seq(Has(db', "R"))
      /\ localEdges' \in Seq(LocalEdge(Has(db', "L"))) /\ NewOf(localEdges) \subseteq NewOf(localEdges')
  BY <1>1, <1>3, <1>6, HeardEdgeIn
<1>9. localPts' \in Seq(LocalPoint)
  BY <1>1 DEF Inv
<1> QED BY <1>1, <1>4, <1>6, <1>7, <1>8, <1>9, UserStep

-----------------------------------------------------------------------------
(* The theorem *)

\* At first L has the nodes of Local, and nothing is subscribed.
LEMMA InitInv == Init => Inv
<1> SUFFICES ASSUME Init PROVE Inv
  OBVIOUS
<1> DEFINE P(s) == [n \in Node |-> IF s = "R" \/ n \notin Local THEN 0 ELSE IF n = SyncNode THEN 2 ELSE 1]
           E(s) == [n \in Node |-> IF s = "R" \/ n \notin Local THEN NoEdge ELSE [t |-> 1, dead |-> FALSE]]
<1>1. db = [s \in {"L", "R"} |-> [pt |-> P(s), edge |-> E(s)]]
  BY DEF Init
<1>2. \A s \in {"L", "R"} : P(s) \in [Node -> Nat] /\ E(s) \in [Node -> EdgeSet]
  BY DEF NoEdge, EdgeSet
<1>3. Device \in Node /\ E("L")[Device].t > 0
  BY SyncAssumption
<1> HIDE DEF P, E
<1>4. db \in Stores
  BY <1>1, <1>2 DEF Stores, OneStore
<1>5. Device \in Has(db, "L")
  BY <1>1, <1>3 DEF Has
<1>6. Good(work, Has(db, "L"))
  BY GoodEmpty DEF Init
<1>7. /\ newEdges = <<>> /\ localPts = <<>> /\ localEdges = <<>> /\ toLocal = {} /\ subs = {}
      /\ ~initialSub /\ now \in Nat
  BY DEF Init
<1> QED BY <1>4, <1>5, <1>6, <1>7 DEF Inv

\* Every step keeps the invariant.
LEMMA NextInv == Inv /\ [Next]_vars => Inv'
<1> SUFFICES ASSUME Inv, [Next]_vars PROVE Inv'
  OBVIOUS
<1>1. CASE UNCHANGED vars
  BY <1>1 DEF Inv, vars, link, subscriptions, queues
<1>2. CASE syncNode
  BY <1>2, SyncLocalStep, SyncRemoteStep, SyncPointsStep, SyncEdgeStep, SyncListStep, SyncMatchStep,
     SendPointsStep, SendEdgeStep, SendKidsStep, SendLocalStep, SubscribeNodeStep, SubscribeInitialStep
     DEF syncNode
<1>3. CASE Run
  BY <1>2, <1>3, ConnectStep, LocalNodePointsStep, LocalEdgePointsStep, NewEdgeLocalStep,
     NewEdgeRemoteStep DEF Run
<1>4. CASE Next
  BY <1>3, <1>4, RestartStep, LinkUpDownStep, DeliverLocalStep, UserWritesStep, UserCreatesStep,
     UserDeletesStep DEF Next
<1> QED BY <1>1, <1>4

\* subscribeRemoteNode, for every tree and for any number of writes, lost
\* connections and restarts: once the tree has been subscribed, and while no call
\* of syncNode is under way and no edge point of L waits, every node of L, however
\* it came there, has a subscription on R.
THEOREM EveryNodeSubscribed == Spec => []LiveUpdates
<1>1. Inv => LiveUpdates
  <2> SUFFICES ASSUME Inv, Idle, initialSub, localEdges = <<>>, NEW n \in Node, Exists("L", n)
               PROVE  n \in subs
    BY DEF LiveUpdates
  <2>1. n \in Has(db, "L")
    BY DEF Exists, Has
  <2>2. SubsOf(work) = {} /\ NewOf(localEdges) = {}
    BY NoCalls DEF NewOf
  <2> QED BY <2>1, <2>2 DEF Inv
<1> QED BY InitInv, NextInv, <1>1, PTL DEF Spec

=============================================================================
