----------------------------- MODULE StoreProofs -----------------------------
(***************************************************************************)
(* Theorems about Store, for every set of nodes, points, messages and      *)
(* requests: what the two writing handlers keep; that the store implements *)
(* the ledger (the initial states of Store are initial states of Ledger    *)
(* under the refinement mapping of Store, and every step of Store is a     *)
(* step of Ledger or leaves the ledger as it is); and that an answer of    *)
(* handleNodesRequest is fresh, although the handler reads the edges, then *)
(* the edge points, then the node points, each in a query of its own,      *)
(* while the two writing handlers go on.                                   *)
(***************************************************************************)
EXTENDS Store, SequenceTheorems, TLAPS

\* The empty string is none of the strings the store gives a meaning to.
LEMMA BlankIsNone == Blank # "0" /\ Blank # "root"
BY Zenon DEF Blank

-----------------------------------------------------------------------------
(* Points and rows *)

\* A stamped point is a point with a stored key, at least as late, with the
\* type, the text and the value of the incoming one.
LEMMA StampPoint ==
    ASSUME NEW p \in Point, NEW now \in Time
    PROVE  /\ Stamp(p, now) \in Point
           /\ Stamp(p, now).time >= p.time
           /\ Stamp(p, now).typ = p.typ
           /\ Stamp(p, now).val = p.val
           /\ IdentOf(p) \in Ident
<1> DEFINE t == IF p.time = 0 THEN now ELSE p.time
<1>1. NormKey(p.key) \in RawKey \ {Blank}
  BY DbAssumption, BlankIsNone DEF NormKey, Point
<1>2. t \in Time /\ t >= p.time
  BY DbAssumption DEF Point, Time
<1>3. p.typ \in PType /\ p.text \in Text /\ p.val \in Value
  BY DEF Point
<1>4. Stamp(p, now) = [typ |-> p.typ, key |-> NormKey(p.key), time |-> t,
                       text |-> p.text, val |-> p.val]
  BY DEF Stamp
<1>5. IdentOf(p) \in Ident
  BY <1>1, <1>3 DEF IdentOf, Ident
<1> HIDE DEF t
<1> QED BY <1>1, <1>2, <1>3, <1>4, <1>5 DEF Point

\* The fields that the proofs compare.
LEMMA PointFields ==
    \A p \in Point : p.time \in Nat /\ p.val \in Int /\ p.typ \in PType
<1> SUFFICES ASSUME NEW p \in Point
             PROVE  p.time \in Nat /\ p.val \in Int /\ p.typ \in PType
  OBVIOUS
<1>1. p.time \in Time /\ p.val \in Value /\ p.typ \in PType
  BY DEF Point
<1>2. MaxTime \in Nat /\ Value \subseteq Int
  BY DbAssumption
<1>3. p.time \in Nat
  BY <1>1, <1>2 DEF Time
<1> QED BY <1>1, <1>2, <1>3

\* Collapse returns points of its batch.
LEMMA CollapseSubset ==
    ASSUME NEW points \in Seq(Point)
    PROVE  Collapse(points) \subseteq Point
BY DEF Collapse

\* Nothing is lost in collapsing a batch whose points are told apart.
LEMMA CollapseAll ==
    ASSUME NEW points \in Seq(Point), Unambiguous(points), NEW i \in DOMAIN points
    PROVE  points[i] \in Collapse(points)
BY DEF Collapse, Unambiguous

\* The rows of one identity after a batch: unchanged, or with an accepted
\* point of the batch as the first row.
LEMMA RowOutcome ==
    ASSUME NEW rows \in Rows, NEW pts \in SUBSET Point, NEW now \in Time,
           NEW k \in Ident, NEW r \in RowOutcomes(rows, pts, now, k)
    PROVE  /\ r \in Seq(Point)
           /\ Advances(rows[k], r)
           /\ \/ r = rows[k]
              \/ \E p \in pts : /\ IdentOf(p) = k
                                /\ r # <<>> /\ r[1] = Stamp(p, now)
           /\ \A p \in pts :
                  (\A q \in pts : IdentOf(q) = IdentOf(p) => q = p) /\ IdentOf(p) = k =>
                      \E i \in DOMAIN r : r[i].time >= p.time
<1> DEFINE in  == {p \in pts : IdentOf(p) = k}
           acc == {p \in in : Accepts(rows, p, now)}
<1>0. /\ rows[k] \in Seq(Point)
      /\ \A p \in pts : /\ Stamp(p, now) \in Point
                        /\ Stamp(p, now).time >= p.time
                        /\ Stamp(p, now).time \in Int
                        /\ p.time \in Int
  BY StampPoint, PointFields DEF Rows
<1>1. CASE acc = {}
  <2>1. r = rows[k]
    BY <1>1 DEF RowOutcomes
  <2>2. ASSUME NEW p \in in
        PROVE  \E i \in DOMAIN r : r[i].time >= p.time
    <3>1. ~Accepts(rows, p, now)
      BY <1>1, <2>2
    <3>2. rows[k] # <<>> /\ ~(rows[k][1].time =< Stamp(p, now).time)
      BY <3>1, <2>2 DEF Accepts
    <3>3. 1 \in DOMAIN rows[k] /\ rows[k][1].time \in Int
      BY <3>2, <1>0, PointFields
    <3> QED BY <3>2, <3>3, <1>0, <2>1
  <2>3. Advances(rows[k], rows[k])
    BY <1>0, PointFields DEF Advances
  <2> QED BY <2>1, <2>2, <2>3, <1>0
<1>2. CASE acc # {} /\ rows[k] # <<>>
  <2>1. PICK p \in acc : r = [rows[k] EXCEPT ![1] = Stamp(p, now)]
    BY <1>2 DEF RowOutcomes
  <2>2. /\ p \in pts /\ IdentOf(p) = k
        /\ 1 \in DOMAIN rows[k]
        /\ rows[k][1].time =< Stamp(p, now).time
    BY <1>0, <1>2, <2>1 DEF Accepts
  <2>3. /\ r \in Seq(Point) /\ Len(r) = Len(rows[k])
        /\ DOMAIN r = DOMAIN rows[k]
        /\ r[1] = Stamp(p, now)
        /\ \A i \in DOMAIN rows[k] : i # 1 => r[i] = rows[k][i]
    BY <1>0, <2>1, <2>2
  <2>4. Advances(rows[k], r)
    <3>1. \A i \in DOMAIN rows[k] : rows[k][i].time \in Nat
      BY <1>0, PointFields
    <3>2. \A i \in DOMAIN rows[k] : rows[k][i].time =< r[i].time
      BY <2>2, <2>3, <3>1
    <3> QED BY <1>0, <2>3, <3>2 DEF Advances
  <2>5. r # <<>>
    BY <2>2, <2>3, <1>0
  <2>6. ASSUME NEW q \in pts, IdentOf(q) = k,
               \A o \in pts : IdentOf(o) = IdentOf(q) => o = q
        PROVE  \E i \in DOMAIN r : r[i].time >= q.time
    <3>1. p = q
      BY <2>6, <2>2
    <3> QED BY <3>1, <2>2, <2>3, <1>0
  <2> QED BY <2>2, <2>3, <2>4, <2>5, <2>6
<1>3. CASE acc # {} /\ rows[k] = <<>>
  <2>1. ASSUME r \in Seq(Point) PROVE Advances(rows[k], r)
    BY <1>3, <2>1 DEF Advances
  <2>2. CASE \E p \in in : in = {p} /\ r = <<Stamp(p, now)>>
    <3>1. PICK p \in in : in = {p} /\ r = <<Stamp(p, now)>>
      BY <2>2
    <3>2. r \in Seq(Point) /\ r # <<>> /\ r[1] = Stamp(p, now) /\ 1 \in DOMAIN r
      BY <3>1, <1>0
    <3> QED BY <3>1, <3>2, <2>1, <1>0
  <2>3. CASE \E p, q \in in : p # q /\ r = <<Stamp(p, now), Stamp(q, now)>>
    <3>1. PICK p \in in, q \in in : p # q /\ r = <<Stamp(p, now), Stamp(q, now)>>
      BY <2>3
    <3>2. r \in Seq(Point) /\ r # <<>> /\ r[1] = Stamp(p, now)
      BY <3>1, <1>0
    <3>3. ASSUME NEW o \in pts, IdentOf(o) = k,
                 \A s \in pts : IdentOf(s) = IdentOf(o) => s = o
          PROVE  FALSE
      BY <3>1, <3>3
    <3> QED BY <3>1, <3>2, <3>3, <2>1
  <2> QED BY <1>3, <2>2, <2>3 DEF RowOutcomes
<1> QED BY <1>1, <1>2, <1>3

\* A merge decides about every identity on its own.
LEMMA MergeRowsPointwise ==
    ASSUME NEW rows \in Rows, NEW pts \in SUBSET Point, NEW now \in Time,
           NEW r \in MergeRows(rows, pts, now)
    PROVE  /\ r \in Rows
           /\ \A k \in Ident : r[k] \in RowOutcomes(rows, pts, now, k)
<1> DEFINE K == {IdentOf(p) : p \in pts}
<1>1. PICK g : /\ r = [k \in Ident |-> IF k \in K THEN g[k] ELSE rows[k]]
               /\ \A k \in K : g[k] \in RowOutcomes(rows, pts, now, k)
  BY DEF MergeRows
<1>2. ASSUME NEW k \in Ident
      PROVE  r[k] \in RowOutcomes(rows, pts, now, k)
  <2>1. CASE k \in K
    BY <1>1, <2>1
  <2>2. CASE k \notin K
    <3>1. {p \in pts : IdentOf(p) = k} = {}
      BY <2>2
    <3>2. RowOutcomes(rows, pts, now, k) = {rows[k]}
      BY <3>1 DEF RowOutcomes
    <3> QED BY <3>2, <2>2, <1>1
  <2> QED BY <2>1, <2>2
<1>3. \A k \in Ident : r[k] \in Seq(Point)
  BY <1>2, RowOutcome
<1>4. r \in Rows
  BY <1>1, <1>3 DEF Rows
<1> QED BY <1>2, <1>4

\* A merge never takes a row away and never makes one older.
LEMMA MergeAdvances ==
    ASSUME NEW rows \in Rows, NEW pts \in SUBSET Point, NEW now \in Time,
           NEW r \in MergeRows(rows, pts, now), NEW k \in Ident
    PROVE  Advances(rows[k], r[k])
BY MergeRowsPointwise, RowOutcome

-----------------------------------------------------------------------------
(* Hashes *)

\* The CRC of a point is a set of tokens.
LEMMA CRCType ==
    ASSUME NEW p \in Point
    PROVE  CRC(p) \in SUBSET Token
BY DEF CRC, Token, Point

\* What a batch adds to the hash is a set of tokens.
LEMMA HashUpdateType ==
    ASSUME NEW rows \in Rows, NEW pts \in SUBSET Point, NEW now \in Time
    PROVE  HashUpdate(rows, pts, now) \in SUBSET Token
<1>1. ASSUME NEW p \in pts
      PROVE  HashDelta(rows, p, now) \in SUBSET Token
  <2>1. Stamp(p, now) \in Point /\ IdentOf(p) \in Ident
    BY StampPoint
  <2>2. rows[IdentOf(p)] \in Seq(Point)
    BY <2>1 DEF Rows
  <2>3. CRC(Stamp(p, now)) \in SUBSET Token
    BY <2>1, CRCType
  <2>4. rows[IdentOf(p)] # <<>> => CRC(rows[IdentOf(p)][1]) \in SUBSET Token
    BY <2>2, CRCType
  <2> QED BY <2>3, <2>4 DEF HashDelta, SymDiff
<1> QED BY <1>1 DEF HashUpdate, XorOver

\* The hash of stored rows is a set of tokens.
LEMMA RowsHashType ==
    ASSUME NEW rows \in Rows
    PROVE  RowsHash(rows) \in SUBSET Token
<1>1. ASSUME NEW ki \in Ident \X (1..2), ki[2] =< Len(rows[ki[1]])
      PROVE  CRC(rows[ki[1]][ki[2]]) \in SUBSET Token
  <2>1. rows[ki[1]] \in Seq(Point) /\ ki[2] \in 1..2
    BY DEF Rows
  <2>2. ki[2] \in DOMAIN rows[ki[1]]
    BY <1>1, <2>1
  <2> QED BY <2>1, <2>2, CRCType
<1> QED BY <1>1 DEF RowsHash, XorOver

\* updateHash leaves a hash on every edge.
LEMMA UpdateHashType ==
    ASSUME NEW E, NEW hash \in [EdgeId -> SUBSET Token], NEW id,
           NEW upd \in SUBSET Token
    PROVE  UpdateHash(E, hash, id, upd) \in [EdgeId -> SUBSET Token]
<1>1. \A e \in EdgeId : SymDiff(hash[e], upd) \in SUBSET Token
  BY DEF SymDiff
<1> QED BY <1>1 DEF UpdateHash

-----------------------------------------------------------------------------
(* Transactions *)

\* d2 is d after a commit of nodePoints.
NodeWritten(d, d2, id, points, now) ==
    /\ d2 \in DB
    /\ d2.edges = d.edges /\ d2.ep = d.ep /\ d2.typ = d.typ
    /\ d2.root = d.root
    /\ \E rows \in MergeRows(d.np[id], Collapse(points), now) :
           rows \in Rows /\ d2.np = [d.np EXCEPT ![id] = rows]

\* nodePoints writes the points of its node and hashes, and nothing else.
LEMMA NodePointsStep ==
    ASSUME NEW d \in DB, NEW id \in Node, NEW points \in Seq(Point),
           NEW now \in Time, NEW d2 \in NodePoints(d, id, points, now)
    PROVE  NodeWritten(d, d2, id, points, now)
<1> DEFINE pts == Collapse(points)
           upd == HashUpdate(d.np[id], pts, now)
<1>1. /\ d.np \in [Node -> Rows] /\ d.edges \in SUBSET EdgeId
      /\ d.ep \in [EdgeId -> Rows] /\ d.hash \in [EdgeId -> SUBSET Token]
      /\ d.typ \in [EdgeId -> Text] /\ d.root \in Node \cup {Blank}
  BY DEF DB
<1>2. pts \in SUBSET Point /\ d.np[id] \in Rows
  BY <1>1, CollapseSubset
<1>3. PICK rows \in MergeRows(d.np[id], pts, now) :
          d2 = [d EXCEPT !.np[id] = rows,
                         !.hash = UpdateHash(d.edges, @, id, upd)]
  BY DEF NodePoints
<1>4. rows \in Rows
  BY <1>2, <1>3, MergeRowsPointwise
<1>5. upd \in SUBSET Token
  BY <1>2, HashUpdateType
<1>6. UpdateHash(d.edges, d.hash, id, upd) \in [EdgeId -> SUBSET Token]
  BY <1>1, <1>5, UpdateHashType
<1> HIDE DEF pts, upd
<1>7. /\ d2.np = [d.np EXCEPT ![id] = rows]
      /\ d2.hash = UpdateHash(d.edges, d.hash, id, upd)
      /\ d2.edges = d.edges /\ d2.ep = d.ep /\ d2.typ = d.typ
      /\ d2.root = d.root
  BY <1>3 DEF DB
<1>8. d2 \in DB
  <2>1. [d.np EXCEPT ![id] = rows] \in [Node -> Rows]
    BY <1>1, <1>4
  <2> QED BY <1>1, <1>3, <1>6, <2>1 DEF DB
<1> QED BY <1>3, <1>4, <1>7, <1>8 DEF pts, NodeWritten

\* The node type of an edge is a text.
LEMMA NodeTypeOfText ==
    ASSUME NEW points \in Seq(Point)
    PROVE  NodeTypeOf(points) \in Text
<1> DEFINE pts == {p \in Collapse(points) : p.typ = "nodeType"}
<1>1. CASE pts = {}
  BY <1>1, DbAssumption DEF NodeTypeOf
<1>2. CASE pts # {}
  <2>1. PICK q : q = CHOOSE p \in pts : TRUE
    OBVIOUS
  <2>2. q \in Point
    BY <2>1, <1>2, CollapseSubset
  <2>3. q.text \in Text
    BY <2>2 DEF Point
  <2> QED BY <2>1, <2>3, <1>2 DEF NodeTypeOf
<1> QED BY <1>1, <1>2

\* d2 is d after a commit of edgePoints.
EdgeWritten(d, d2, id, parent, points, now) ==
    /\ d2 \in DB
    /\ d2.np = d.np
    /\ d2.edges = d.edges \cup {<<parent, id>>}
    /\ \A e \in d.edges : d2.typ[e] = d.typ[e]
    /\ d2.root = IF parent = "root" /\ <<parent, id>> \notin d.edges
                 THEN id ELSE d.root
    /\ \E rows \in MergeRows(d.ep[<<parent, id>>],
                       {p \in Collapse(points) : p.typ # "nodeType"}, now) :
           rows \in Rows /\ d2.ep = [d.ep EXCEPT ![<<parent, id>>] = rows]

\* edgePoints writes the points of its edge, the edge if it is new and with
\* it the root, and hashes.
LEMMA EdgeWritesStep ==
    ASSUME NEW d \in DB, NEW id \in Node, NEW parent \in Hop,
           NEW points \in Seq(Point), NEW now \in Time,
           NEW d2 \in EdgeWrites(d, id, parent, points, now)
    PROVE  EdgeWritten(d, d2, id, parent, points, now)
<1> DEFINE e    == <<parent, id>>
           pts  == {p \in Collapse(points) : p.typ # "nodeType"}
           new  == e \notin d.edges
           base == HashUpdate(d.ep[e], pts, now)
           upd  == IF new THEN SymDiff(base, RowsHash(d.np[id])) ELSE base
           typ  == [d.typ EXCEPT ![e] = IF new THEN NodeTypeOf(points) ELSE @]
           root == IF new /\ parent = "root" THEN id ELSE d.root
           hash == UpdateHash(d.edges \cup {e}, d.hash, id, upd)
<1>1. /\ d.np \in [Node -> Rows] /\ d.edges \in SUBSET EdgeId
      /\ d.ep \in [EdgeId -> Rows] /\ d.hash \in [EdgeId -> SUBSET Token]
      /\ d.typ \in [EdgeId -> Text] /\ d.root \in Node \cup {Blank}
  BY DEF DB
<1>2. e \in EdgeId
  BY DEF EdgeId, Hop
<1>3. pts \in SUBSET Point /\ d.ep[e] \in Rows
  BY <1>1, <1>2, CollapseSubset
<1>4. PICK rows \in MergeRows(d.ep[e], pts, now) :
          d2 = [d EXCEPT !.ep[e]  = rows,
                         !.edges  = @ \cup {e},
                         !.typ[e] = IF new THEN NodeTypeOf(points) ELSE @,
                         !.root   = IF new /\ parent = "root" THEN id ELSE @,
                         !.hash   = UpdateHash(d.edges \cup {e}, @, id, upd)]
  BY DEF EdgeWrites
<1>5. rows \in Rows
  BY <1>3, <1>4, MergeRowsPointwise
<1>6. upd \in SUBSET Token
  <2>1. base \in SUBSET Token
    BY <1>3, HashUpdateType
  <2>2. RowsHash(d.np[id]) \in SUBSET Token
    BY <1>1, RowsHashType
  <2> QED BY <2>1, <2>2 DEF SymDiff
<1>7. hash \in [EdgeId -> SUBSET Token]
  BY <1>1, <1>6, UpdateHashType
<1>8. typ \in [EdgeId -> Text] /\ \A x \in d.edges : typ[x] = d.typ[x]
  <2>1. NodeTypeOf(points) \in Text
    BY NodeTypeOfText
  <2> QED BY <1>1, <1>2, <2>1
<1>9. d2.np = d.np /\ d2.edges = d.edges \cup {e} /\ d2.typ = typ
      /\ d2.root = root /\ d2.hash = hash /\ d2.ep = [d.ep EXCEPT ![e] = rows]
  <2> HIDE DEF e, pts, new, upd
  <2> QED BY <1>4 DEF DB
<1>10. d2 = [np |-> d2.np, edges |-> d2.edges, ep |-> d2.ep,
             hash |-> d2.hash, typ |-> d2.typ, root |-> d2.root]
  <2> HIDE DEF e, pts, new, upd
  <2> QED BY <1>4 DEF DB
<1>11. d2 \in DB
  <2>1. [d.ep EXCEPT ![e] = rows] \in [EdgeId -> Rows]
    BY <1>1, <1>2, <1>5
  <2>2. root \in Node \cup {Blank}
    BY <1>1
  <2> HIDE DEF e, hash, typ, root
  <2>3. d.edges \cup {e} \in SUBSET EdgeId
    BY <1>1, <1>2
  <2> QED BY <1>1, <1>7, <1>8, <1>9, <1>10, <2>1, <2>2, <2>3 DEF DB
<1> QED BY <1>4, <1>5, <1>8, <1>9, <1>11 DEF EdgeWritten

\* A merge with no deleting tombstone does not delete.
LEMMA MergeTombstone ==
    ASSUME NEW rows \in Rows, NEW pts \in SUBSET Point, NEW now \in Time,
           NEW r \in MergeRows(rows, pts, now),
           \A p \in pts : p.typ = "tombstone" => p.val # 1,
           FindVal(rows, "tombstone") # 1
    PROVE  FindVal(r, "tombstone") # 1
<1> DEFINE k == <<"tombstone", "0">>
<1>1. k \in Ident
  BY DbAssumption, BlankIsNone DEF Ident
<1>2. r[k] \in RowOutcomes(rows, pts, now, k)
  BY <1>1, MergeRowsPointwise
<1>3. CASE r[k] = rows[k]
  BY <1>3 DEF FindVal
<1>4. CASE \E p \in pts : IdentOf(p) = k /\ r[k] # <<>> /\ r[k][1] = Stamp(p, now)
  <2>1. PICK p \in pts : IdentOf(p) = k /\ r[k] # <<>> /\ r[k][1] = Stamp(p, now)
    BY <1>4
  <2>2. p.typ = "tombstone"
    BY <2>1 DEF IdentOf
  <2>3. r[k][1].val # 1
    BY <2>1, <2>2, StampPoint
  <2> QED BY <2>1, <2>3 DEF FindVal
<1> QED BY <1>1, <1>2, <1>3, <1>4, RowOutcome

\* The edge points that initRoot sends.
LEMMA RootPointsType ==
    ASSUME NEW typ \in {"device", "user"}
    PROVE  /\ RootPoints(typ) \in Seq(Point)
           /\ \A p \in Collapse(RootPoints(typ)) : p.val # 1
<1> DEFINE p1 == [typ |-> "tombstone", key |-> Blank, time |-> 0, text |-> Blank, val |-> 0]
           p2 == [typ |-> "nodeType", key |-> Blank, time |-> 0, text |-> typ, val |-> 0]
<1>1. "tombstone" \in PType /\ "nodeType" \in PType /\ Blank \in RawKey
      /\ Blank \in Text /\ typ \in Text /\ 0 \in Value
  BY DbAssumption
<1>2. 0 \in Time
  BY DbAssumption DEF Time
<1>3. p1 \in Point /\ p2 \in Point /\ p1.val = 0 /\ p2.val = 0
  BY <1>1, <1>2 DEF Point
<1>4. RootPoints(typ) = <<p1, p2>>
  BY DEF RootPoints
<1> HIDE DEF p1, p2
<1>5. RootPoints(typ) \in Seq(Point)
  BY <1>3, <1>4
<1>6. \A i \in DOMAIN RootPoints(typ) : RootPoints(typ)[i].val = 0
  BY <1>3, <1>4
<1>7. ASSUME NEW p \in Collapse(RootPoints(typ)) PROVE p.val # 1
  <2>1. PICK i \in DOMAIN RootPoints(typ) : p = RootPoints(typ)[i]
    BY DEF Collapse
  <2> QED BY <2>1, <1>6
<1> QED BY <1>5, <1>7

\* The empty tables are a database.
LEMMA EmptyType ==
    EmptyDB \in DB /\ EmptyDB.edges = {} /\ EmptyDB.ep = [e \in EdgeId |-> NoRows]
<1>1. NoRows \in Rows
  <2>1. <<>> \in Seq(Point)
    OBVIOUS
  <2> QED BY <2>1 DEF NoRows, Rows
<1>2. Blank \in Text
  BY DbAssumption
<1> QED BY <1>1, <1>2 DEF EmptyDB, DB

\* What initRoot leaves: the root and the user, alive, and no other rows.
LEMMA InitRootDB ==
    ASSUME NEW d \in InitRoot(Root, Admin, AdminPoints)
    PROVE  /\ d \in DB /\ d.root = Root
           /\ d.edges = {<<"root", Root>>, <<Root, Admin>>}
           /\ FindVal(d.ep[<<"root", Root>>], "tombstone") # 1
           /\ \A e \in EdgeId \ d.edges : d.ep[e] = NoRows
<1> DEFINE re == <<"root", Root>>
           ue == <<Root, Admin>>
<1>0. /\ Root \in Node /\ Admin \in Node /\ Root # "root"
      /\ "root" \in Hop /\ Root \in Hop /\ 1 \in Time
      /\ AdminPoints \in Seq(Point)
      /\ re \in EdgeId /\ ue \in EdgeId /\ re # ue
  BY StoreAssumption, DbAssumption DEF Hop, Time, EdgeId
<1>1. PICK d1, d2 :
          /\ d1 \in EdgeWrites(EmptyDB, Root, "root", RootPoints("device"), 1) \cap DB
          /\ d2 \in NodePoints(d1, Admin, AdminPoints, 1) \cap DB
          /\ d \in EdgeWrites(d2, Admin, Root, RootPoints("user"), 1)
  BY DEF InitRoot
<1>2. /\ d1 \in DB /\ d1.edges = {re} /\ d1.root = Root
      /\ FindVal(d1.ep[re], "tombstone") # 1
      /\ \A e \in EdgeId \ {re} : d1.ep[e] = NoRows
  <2> DEFINE pts == {p \in Collapse(RootPoints("device")) : p.typ # "nodeType"}
  <2>0. /\ EmptyDB \in DB /\ EmptyDB.edges = {}
        /\ RootPoints("device") \in Seq(Point)
        /\ d1 \in EdgeWrites(EmptyDB, Root, "root", RootPoints("device"), 1)
    BY <1>1, EmptyType, RootPointsType
  <2>1. /\ d1 \in DB /\ d1.edges = EmptyDB.edges \cup {re}
        /\ d1.root = IF "root" = "root" /\ re \notin EmptyDB.edges
                     THEN Root ELSE EmptyDB.root
        /\ \E rows \in MergeRows(EmptyDB.ep[re], pts, 1) :
               rows \in Rows /\ d1.ep = [EmptyDB.ep EXCEPT ![re] = rows]
    <3>1. EdgeWritten(EmptyDB, d1, Root, "root", RootPoints("device"), 1)
      BY <1>0, <2>0, EdgeWritesStep
    <3> QED BY <3>1 DEF EdgeWritten
  <2>2. PICK rows \in MergeRows(EmptyDB.ep[re], pts, 1) :
               rows \in Rows /\ d1.ep = [EmptyDB.ep EXCEPT ![re] = rows]
    BY <2>1
  <2>3. EmptyDB.ep[re] = NoRows /\ EmptyDB.ep[re] \in Rows
    BY <1>0, EmptyType DEF DB
  <2>4. FindVal(NoRows, "tombstone") # 1
    BY DbAssumption, BlankIsNone DEF FindVal, NoRows, Ident
  <2>5. pts \in SUBSET Point /\ \A p \in pts : p.val # 1
    BY RootPointsType, CollapseSubset
  <2> HIDE DEF pts
  <2>6. FindVal(rows, "tombstone") # 1
    BY <1>0, <2>2, <2>3, <2>4, <2>5, MergeTombstone
  <2> QED BY <1>0, <2>0, <2>1, <2>2, <2>6, EmptyType
<1>3. /\ d2 \in DB /\ d2.edges = {re} /\ d2.root = Root /\ d2.ep = d1.ep
  <2>1. NodeWritten(d1, d2, Admin, AdminPoints, 1)
    BY <1>0, <1>1, <1>2, NodePointsStep
  <2> QED BY <1>2, <2>1 DEF NodeWritten
<1>4. /\ d \in DB /\ d.edges = {re} \cup {ue} /\ d.root = Root
      /\ \E rows \in Rows : d.ep = [d2.ep EXCEPT ![ue] = rows]
  <2>1. RootPoints("user") \in Seq(Point)
    BY RootPointsType
  <2>2. /\ d \in DB /\ d.edges = d2.edges \cup {ue}
        /\ d.root = IF Root = "root" /\ ue \notin d2.edges THEN Admin ELSE d2.root
        /\ \E rows \in Rows : d.ep = [d2.ep EXCEPT ![ue] = rows]
    <3>1. EdgeWritten(d2, d, Admin, Root, RootPoints("user"), 1)
      BY <1>0, <1>1, <1>3, <2>1, EdgeWritesStep
    <3> QED BY <3>1 DEF EdgeWritten
  <2> QED BY <1>0, <1>3, <2>2
<1>5. d2.ep \in [EdgeId -> Rows]
  BY <1>3 DEF DB
<1> QED BY <1>0, <1>2, <1>3, <1>4, <1>5

-----------------------------------------------------------------------------
(* Handlers *)

\* The messages clients send are messages.
LEMMA MsgType ==
    /\ \A m \in NodeMsgs : m \in Msg /\ m.parent = Blank
    /\ \A m \in EdgeMsgs : m \in Msg /\ m.parent # Blank /\ m.parent \in Hop
    /\ \A m \in Msg : m.id \in Node /\ m.pts \in Seq(Point) /\ PlaceOf(m) \in Place
<1>1. \A m \in Msg : /\ m.id \in Node /\ m.pts \in Seq(Point)
                     /\ m.parent \in Hop \cup {Blank}
  BY DEF Msg
<1>2. \A m \in Msg : PlaceOf(m) \in Place
  BY <1>1 DEF PlaceOf, Place, Hop
<1> QED BY <1>1, <1>2, StoreAssumption

\* A parent is a node or "root".
LEMMA UpType ==
    ASSUME NEW d \in DB, NEW x, NEW b
    PROVE  Up(d, x, b) \in SUBSET Hop
<1>1. d.edges \in SUBSET EdgeId
  BY DEF DB
<1>2. \A e \in EdgeId : e[1] \in Hop
  BY DEF EdgeId, Hop
<1> QED BY <1>1, <1>2 DEF Up, EdgesDown

\* The stack of a walk stays a stack of sets of hops.
LEMMA PushType ==
    ASSUME NEW S \in SUBSET Hop, NEW stack \in Seq(SUBSET Hop)
    PROVE  Push(S, stack) \in Seq(SUBSET Hop)
<1>1. <<S>> \in Seq(SUBSET Hop)
  OBVIOUS
<1>2. <<S>> \o stack \in Seq(SUBSET Hop)
  BY <1>1, ConcatProperties
<1> QED BY <1>2 DEF Push

\* A handler that visits an ancestor is a handler with the same message.
LEMMA VisitType ==
    ASSUME db \in DB, NEW h \in Handler, h.todo # <<>>,
           NEW x \in Head(h.todo), NEW b
    PROVE  /\ Visit(h, x, b) \in Handler
           /\ Visit(h, x, b).msg = h.msg /\ Visit(h, x, b).pc = h.pc
           /\ Visit(h, x, b).err = h.err
<1> DEFINE todo == Push(Up(db, x, b), Push(Head(h.todo) \ {x}, Tail(h.todo)))
           told == h.told \cup {x}
<1>1. h.todo \in Seq(SUBSET Hop) /\ h.told \in SUBSET Hop
  BY DEF Handler
<1>2. Head(h.todo) \in SUBSET Hop /\ Tail(h.todo) \in Seq(SUBSET Hop)
  BY <1>1
<1>3. todo \in Seq(SUBSET Hop)
  <2>1. Push(Head(h.todo) \ {x}, Tail(h.todo)) \in Seq(SUBSET Hop)
    BY <1>2, PushType
  <2> QED BY <2>1, UpType, PushType
<1>4. told \in SUBSET Hop
  BY <1>1, <1>2
<1>5. Visit(h, x, b) = [h EXCEPT !.told = told, !.todo = todo]
  BY DEF Visit
<1> HIDE DEF todo, told
<1> QED BY <1>3, <1>4, <1>5 DEF Handler

\* A handler that starts its walk is a handler with the same message.
LEMMA StartWalkType ==
    ASSUME NEW h \in Handler, h.msg \in Msg, NEW E \in SUBSET EdgeId
    PROVE  /\ StartWalk(h, E) \in Handler
           /\ [StartWalk(h, E) EXCEPT !.err = TRUE] \in Handler
           /\ StartWalk(h, E).msg = h.msg /\ StartWalk(h, E).pc = "walk"
           /\ StartWalk(h, E).err = h.err
           /\ [StartWalk(h, E) EXCEPT !.err = TRUE].msg = h.msg
           /\ [StartWalk(h, E) EXCEPT !.err = TRUE].pc = "walk"
           /\ [StartWalk(h, E) EXCEPT !.err = TRUE].err = TRUE
<1>1. <<{h.msg.id}>> \in Seq(SUBSET Hop)
  BY MsgType DEF Hop
<1>2. StartWalk(h, E) = [h EXCEPT !.pc = "walk", !.todo = <<{h.msg.id}>>, !.live = E]
  BY DEF StartWalk
<1> QED BY <1>1, <1>2 DEF Handler

\* An idle handler is a handler.
LEMMA IdleType == IdleHandler \in Handler /\ IdleHandler.pc = "idle"
<1>1. <<>> \in Seq(SUBSET Hop)
  OBVIOUS
<1> QED BY <1>1 DEF IdleHandler, Handler

\* The history of a message are versions of points.
LEMMA KeptType ==
    ASSUME NEW m \in Msg
    PROVE  Kept(m) \in SUBSET Version
<1>1. ASSUME NEW i \in DOMAIN m.pts
      PROVE  [at |-> PlaceOf(m), k |-> IdentOf(m.pts[i]), time |-> m.pts[i].time]
                 \in Version
  <2>1. m.pts[i] \in Point /\ PlaceOf(m) \in Place
    BY MsgType
  <2>2. IdentOf(m.pts[i]) \in Ident
    <3>1. 1 \in Time
      BY DbAssumption DEF Time
    <3> QED BY <2>1, <3>1, StampPoint
  <2>3. m.pts[i].time \in Time
    BY <2>1 DEF Point
  <2> QED BY <2>1, <2>2, <2>3 DEF Version
<1> QED BY <1>1 DEF Kept

\* The clock shows a time.
LEMMA ClockType == \A pts : Clock(pts) \subseteq Time
BY DbAssumption DEF Clock, Time

\* Edges that lead up are edges.
LEMMA LiveUpType == \A d \in DB : LiveUp(d) \in SUBSET EdgeId /\ d.edges \in SUBSET EdgeId
BY DEF LiveUp, DB

-----------------------------------------------------------------------------
(* Type correctness *)

\* A handler that is not idle has a message of its kind.
Busy ==
    /\ nodeH.pc # "idle" => nodeH.msg \in NodeMsgs
    /\ edgeH.pc # "idle" => edgeH.msg \in EdgeMsgs

TInv == TypeOK /\ Busy

\* The initial state is well typed.
LEMMA TypeInit == Init => TInv
<1> SUFFICES ASSUME Init PROVE TInv
  OBVIOUS
<1>1. db \in DB /\ db.root = Root
  BY InitRootDB DEF Init
<1>2. Root \in Node
  BY StoreAssumption
<1>3. DOMAIN reader = DOMAIN IdleReader /\ reader.pc = "idle"
  BY DEF Init, IdleReader
<1> QED BY <1>1, <1>2, <1>3, IdleType DEF Init, TInv, TypeOK, Busy

\* Every step of the p.* handler keeps the types.
LEMMA NodeTypes ==
    ASSUME TInv, NodeReceive \/ NodeCommit \/ NodeFail \/ NodeVisit \/ NodeReply
    PROVE  TInv'
<1> USE DEF TInv, TypeOK, Busy
<1>1. CASE NodeReceive
  <2>1. PICK m \in NodeMsgs : nodeH' = [nodeH EXCEPT !.pc = "wait", !.msg = m]
    BY <1>1 DEF NodeReceive
  <2>2. m \in Msg
    BY MsgType
  <2>3. nodeH' \in Handler /\ nodeH'.msg = m
    BY <2>1, <2>2 DEF Handler
  <2> QED BY <1>1, <2>3 DEF NodeReceive
<1>2. CASE NodeCommit
  <2>1. nodeH.msg \in NodeMsgs /\ nodeH.msg \in Msg
    BY <1>2, MsgType DEF NodeCommit
  <2>2. db' \in DB /\ db'.root = db.root
    <3>1. PICK now \in Clock(nodeH.msg.pts) :
              db' \in NodePoints(db, nodeH.msg.id, nodeH.msg.pts, now)
      BY <1>2 DEF NodeCommit
    <3>2. NodeWritten(db, db', nodeH.msg.id, nodeH.msg.pts, now)
      BY <2>1, <3>1, MsgType, ClockType, NodePointsStep
    <3> QED BY <3>2 DEF NodeWritten
  <2>3. nodeH' \in Handler /\ nodeH'.msg = nodeH.msg
    BY <1>2, <2>1, LiveUpType, StartWalkType DEF NodeCommit
  <2> QED BY <1>2, <2>1, <2>2, <2>3 DEF NodeCommit
<1>3. CASE NodeFail
  BY <1>3, IdleType DEF NodeFail
<1>4. CASE NodeVisit
  <2>1. PICK x \in Head(nodeH.todo) : nodeH' = Visit(nodeH, x, FALSE)
    BY <1>4 DEF NodeVisit
  <2>2. nodeH' \in Handler /\ nodeH'.msg = nodeH.msg /\ nodeH'.pc = nodeH.pc
    BY <1>4, <2>1, VisitType DEF NodeVisit
  <2> QED BY <1>4, <2>2 DEF NodeVisit
<1>5. CASE NodeReply
  <2>1. Kept(nodeH.msg) \in SUBSET Version
    BY <1>5, MsgType, KeptType DEF NodeReply
  <2>2. acked' \subseteq Version
    BY <1>5, <2>1 DEF NodeReply, Newest
  <2> QED BY <1>5, <2>2, IdleType DEF NodeReply
<1> QED BY <1>1, <1>2, <1>3, <1>4, <1>5

\* Every step of the p.*.* handler keeps the types.
LEMMA EdgeTypes ==
    ASSUME TInv,
           \/ EdgeReceive \/ EdgeCommit \/ EdgeRefuse \/ EdgeFail
           \/ EdgeDiverge \/ EdgeVisit \/ EdgeReply
    PROVE  TInv'
<1> USE DEF TInv, TypeOK, Busy
<1>1. CASE EdgeReceive
  <2>1. PICK m \in EdgeMsgs : edgeH' = [edgeH EXCEPT !.pc = "wait", !.msg = m]
    BY <1>1 DEF EdgeReceive
  <2>2. m \in Msg
    BY MsgType
  <2>3. edgeH' \in Handler /\ edgeH'.msg = m
    BY <2>1, <2>2 DEF Handler
  <2> QED BY <1>1, <2>3 DEF EdgeReceive
<1>2. ASSUME edgeH.pc = "wait"
      PROVE  edgeH.msg \in EdgeMsgs /\ edgeH.msg \in Msg /\ edgeH.msg.id \in Node
  BY <1>2, MsgType
<1>3. CASE EdgeCommit
  <2>1. edgeH.msg \in EdgeMsgs /\ edgeH.msg \in Msg /\ edgeH.msg.id \in Node
    BY <1>2, <1>3 DEF EdgeCommit
  <2>2. db' \in DB /\ db'.root \in Node
    <3>1. PICK now \in Clock(edgeH.msg.pts) :
              db' \in EdgeWrites(db, edgeH.msg.id, edgeH.msg.parent, edgeH.msg.pts, now)
      BY <1>3 DEF EdgeCommit
    <3>2. EdgeWritten(db, db', edgeH.msg.id, edgeH.msg.parent, edgeH.msg.pts, now)
      BY <2>1, <3>1, MsgType, ClockType, EdgeWritesStep
    <3> QED BY <2>1, <3>2 DEF EdgeWritten
  <2>3. edgeH' \in Handler /\ edgeH'.msg = edgeH.msg
    BY <1>3, <2>1, <2>2, LiveUpType, StartWalkType DEF EdgeCommit
  <2>4. nodeH' \in Handler /\ nodeH'.msg = nodeH.msg /\ nodeH'.pc = nodeH.pc
    <3>1. nodeH.live \cap LiveUp(db') \in SUBSET EdgeId
      BY DEF Handler
    <3> QED BY <1>3, <3>1 DEF EdgeCommit, Handler
  <2>5. rootID' \in Node
    BY <1>3, <2>1 DEF EdgeCommit
  <2> QED BY <1>3, <2>1, <2>2, <2>3, <2>4, <2>5 DEF EdgeCommit
<1>4. CASE EdgeRefuse
  <2>1. edgeH' \in Handler /\ edgeH'.msg = edgeH.msg
    BY <1>2, <1>4, LiveUpType, StartWalkType DEF EdgeRefuse
  <2> QED BY <1>2, <1>4, <2>1 DEF EdgeRefuse
<1>5. CASE EdgeFail
  <2>1. edgeH' \in Handler /\ edgeH'.msg = edgeH.msg
    BY <1>2, <1>5, LiveUpType, StartWalkType DEF EdgeFail
  <2>2. rootID' \in Node
    BY <1>2, <1>5 DEF EdgeFail
  <2> QED BY <1>2, <1>5, <2>1, <2>2 DEF EdgeFail
<1>6. CASE EdgeDiverge
  <2>1. edgeH' \in Handler /\ edgeH'.msg = edgeH.msg
    BY <1>6 DEF EdgeDiverge, Handler
  <2> QED BY <1>2, <1>6, <2>1 DEF EdgeDiverge
<1>7. CASE EdgeVisit
  <2>1. PICK x \in Head(edgeH.todo) : edgeH' = Visit(edgeH, x, TRUE)
    BY <1>7 DEF EdgeVisit
  <2>2. edgeH' \in Handler /\ edgeH'.msg = edgeH.msg /\ edgeH'.pc = edgeH.pc
    BY <1>7, <2>1, VisitType DEF EdgeVisit
  <2> QED BY <1>7, <2>2 DEF EdgeVisit
<1>8. CASE EdgeReply
  <2>1. Kept(edgeH.msg) \in SUBSET Version
    BY <1>8, MsgType, KeptType DEF EdgeReply
  <2>2. acked' \subseteq Version
    BY <1>8, <2>1 DEF EdgeReply, Newest
  <2> QED BY <1>8, <2>2, IdleType DEF EdgeReply
<1> QED BY <1>1, <1>3, <1>4, <1>5, <1>6, <1>7, <1>8

\* Requests and restarts keep the types.
LEMMA OtherTypes ==
    ASSUME TInv,
           \/ ReadEdges \/ ReadEdgePoints \/ ReadNodePoints \/ Answer
           \/ Restart \/ UNCHANGED vars
    PROVE  TInv'
<1> USE DEF TInv, TypeOK, Busy
<1>1. CASE ReadEdges
  BY <1>1 DEF ReadEdges, IdleReader
<1>2. CASE ReadEdgePoints
  BY <1>2 DEF ReadEdgePoints, IdleReader
<1>3. CASE ReadNodePoints
  BY <1>3 DEF ReadNodePoints, IdleReader
<1>4. CASE Answer
  BY <1>4 DEF Answer, IdleReader
<1>5. CASE Restart
  <2>1. reader'.pc = "idle" /\ DOMAIN reader' = DOMAIN IdleReader
    BY <1>5 DEF Restart, IdleReader
  <2> QED BY <1>5, <2>1, IdleType DEF Restart
<1>6. CASE UNCHANGED vars
  BY <1>6 DEF vars
<1> QED BY <1>1, <1>2, <1>3, <1>4, <1>5, <1>6

\* Every step keeps the types.
LEMMA TypeStep == TInv /\ [Next]_vars => TInv'
BY NodeTypes, EdgeTypes, OtherTypes DEF Next

\* TInv is an invariant.
LEMMA TypeInvariant == Spec => []TInv
BY TypeInit, TypeStep, PTL DEF Spec

\* Every variable of the store keeps its type, whatever clients send.
THEOREM TypeCorrect == Spec => []TypeOK
<1>1. TInv => TypeOK
  BY DEF TInv
<1> QED BY <1>1, TypeInvariant, PTL

-----------------------------------------------------------------------------
(* Points only advance *)

\* Only the commits of the two handlers write to the database.
LEMMA DbStep ==
    ASSUME TInv, [Next]_vars
    PROVE  \/ db' = db
           \/ /\ NodeCommit
              /\ nodeH.msg \in NodeMsgs
              /\ \E now \in Time :
                     NodeWritten(db, db', nodeH.msg.id, nodeH.msg.pts, now)
           \/ /\ EdgeCommit
              /\ edgeH.msg \in EdgeMsgs
              /\ \E now \in Time :
                     EdgeWritten(db, db', edgeH.msg.id, edgeH.msg.parent,
                                 edgeH.msg.pts, now)
<1>1. CASE NodeCommit
  <2>1. nodeH.msg \in NodeMsgs /\ nodeH.msg \in Msg /\ db \in DB
    BY <1>1, MsgType DEF NodeCommit, TInv, Busy, TypeOK
  <2>2. PICK now \in Clock(nodeH.msg.pts) :
            db' \in NodePoints(db, nodeH.msg.id, nodeH.msg.pts, now)
    BY <1>1 DEF NodeCommit
  <2>3. NodeWritten(db, db', nodeH.msg.id, nodeH.msg.pts, now)
    BY <2>1, <2>2, MsgType, ClockType, NodePointsStep
  <2> QED BY <1>1, <2>1, <2>2, <2>3, ClockType
<1>2. CASE EdgeCommit
  <2>1. edgeH.msg \in EdgeMsgs /\ edgeH.msg \in Msg /\ db \in DB
    BY <1>2, MsgType DEF EdgeCommit, TInv, Busy, TypeOK
  <2>2. PICK now \in Clock(edgeH.msg.pts) :
            db' \in EdgeWrites(db, edgeH.msg.id, edgeH.msg.parent, edgeH.msg.pts, now)
    BY <1>2 DEF EdgeCommit
  <2>3. EdgeWritten(db, db', edgeH.msg.id, edgeH.msg.parent, edgeH.msg.pts, now)
    BY <2>1, <2>2, MsgType, ClockType, EdgeWritesStep
  <2> QED BY <1>2, <2>1, <2>2, <2>3, ClockType
<1>3. CASE ~NodeCommit /\ ~EdgeCommit
  BY <1>3 DEF Next, vars, NodeReceive, NodeFail, NodeVisit, NodeReply, EdgeReceive,
              EdgeRefuse, EdgeFail, EdgeDiverge, EdgeVisit, EdgeReply, ReadEdges,
              ReadEdgePoints, ReadNodePoints, Answer, Restart
<1> QED BY <1>1, <1>2, <1>3

\* Rows that stay as they are advance.
LEMMA AdvancesSame == \A s \in Seq(Point) : Advances(s, s)
BY PointFields DEF Advances

\* No step of the store takes a point away or replaces it by an older one.
LEMMA StepAdvances ==
    ASSUME TInv, [Next]_vars
    PROVE  PointsOnlyAdvance
<1>1. /\ db \in DB
      /\ db.np \in [Node -> Rows] /\ db.ep \in [EdgeId -> Rows]
  BY DEF TInv, TypeOK, DB
<1>2. \A rows \in Rows, k \in Ident : Advances(rows[k], rows[k])
  BY AdvancesSame DEF Rows
<1>3. CASE db' = db
  BY <1>1, <1>2, <1>3 DEF PointsOnlyAdvance
<1>4. ASSUME NEW now \in Time, nodeH.msg \in NodeMsgs,
             NodeWritten(db, db', nodeH.msg.id, nodeH.msg.pts, now)
      PROVE  PointsOnlyAdvance
  <2> DEFINE id  == nodeH.msg.id
             pts == Collapse(nodeH.msg.pts)
  <2>1. id \in Node /\ pts \in SUBSET Point
    BY <1>4, MsgType, CollapseSubset
  <2>2. PICK rows \in MergeRows(db.np[id], pts, now) :
            rows \in Rows /\ db'.np = [db.np EXCEPT ![id] = rows]
    BY <1>4 DEF NodeWritten
  <2>3. \A k \in Ident : Advances(db.np[id][k], rows[k])
    BY <1>1, <2>1, <2>2, MergeAdvances
  <2>4. db'.edges = db.edges /\ db'.ep = db.ep /\ db'.typ = db.typ
    BY <1>4 DEF NodeWritten
  <2> HIDE DEF id, pts
  <2> QED BY <1>1, <1>2, <2>1, <2>2, <2>3, <2>4 DEF PointsOnlyAdvance
<1>5. ASSUME NEW now \in Time, edgeH.msg \in EdgeMsgs,
             EdgeWritten(db, db', edgeH.msg.id, edgeH.msg.parent, edgeH.msg.pts, now)
      PROVE  PointsOnlyAdvance
  <2> DEFINE e   == <<edgeH.msg.parent, edgeH.msg.id>>
             pts == {p \in Collapse(edgeH.msg.pts) : p.typ # "nodeType"}
  <2>1. e \in EdgeId /\ pts \in SUBSET Point
    BY <1>5, MsgType, CollapseSubset DEF EdgeId, Hop
  <2>2. PICK rows \in MergeRows(db.ep[e], pts, now) :
            rows \in Rows /\ db'.ep = [db.ep EXCEPT ![e] = rows]
    BY <1>5 DEF EdgeWritten
  <2>3. \A k \in Ident : Advances(db.ep[e][k], rows[k])
    BY <1>1, <2>1, <2>2, MergeAdvances
  <2>4. /\ db'.np = db.np /\ db.edges \subseteq db'.edges
        /\ \A x \in db.edges : db'.typ[x] = db.typ[x]
    BY <1>5 DEF EdgeWritten
  <2> HIDE DEF e, pts
  <2> QED BY <1>1, <1>2, <2>1, <2>2, <2>3, <2>4 DEF PointsOnlyAdvance
<1> QED BY <1>3, <1>4, <1>5, DbStep

\* nodePoints, edgePoints: whatever clients send, in whatever order the
\* handlers run, fail and restart, the store never loses a point, never puts an
\* older one in the place of a newer one, and keeps every edge and its type.
THEOREM PointsNeverOlder == Spec => NeverOlder
<1>1. TInv /\ [Next]_vars => [PointsOnlyAdvance]_vars
  BY StepAdvances
<1> QED BY <1>1, TypeInvariant, PTL DEF Spec, NeverOlder

-----------------------------------------------------------------------------
(* Acknowledged and announced points are stored *)

\* A stored version stays stored.
LEMMA StoredStays ==
    ASSUME TInv, TInv', [Next]_vars, NEW w \in Version, Stored(db, w)
    PROVE  Stored(db', w)
<1> DEFINE old == RowsAt(db, w.at)[w.k]
           new == RowsAt(db', w.at)[w.k]
<1>1. PointsOnlyAdvance
  BY StepAdvances
<1>2. w.k \in Ident /\ w.at \in Place /\ w.time \in Nat
  BY DbAssumption DEF Version, Time
<1>3. /\ db.np \in [Node -> Rows] /\ db.ep \in [EdgeId -> Rows]
      /\ db'.np \in [Node -> Rows] /\ db'.ep \in [EdgeId -> Rows]
  BY DEF TInv, TypeOK, DB
<1>4. w.at[1] = Blank => w.at[2] \in Node
  BY <1>2 DEF Place
<1>5. w.at[1] # Blank => w.at \in EdgeId
  BY <1>2 DEF Place, EdgeId
<1>6. old \in Seq(Point) /\ new \in Seq(Point) /\ Advances(old, new)
  BY <1>1, <1>2, <1>3, <1>4, <1>5 DEF PointsOnlyAdvance, RowsAt, Rows
<1>7. PICK i \in DOMAIN old : old[i].time >= w.time
  BY DEF Stored, Holds
<1> HIDE DEF old, new
<1>8. /\ i \in DOMAIN new /\ old[i].time =< new[i].time
      /\ old[i] \in Point /\ new[i] \in Point
  BY <1>6, <1>7 DEF Advances
<1>9. new[i].time >= w.time
  BY <1>2, <1>7, <1>8, PointFields
<1> QED BY <1>8, <1>9 DEF Stored, Holds, new

\* A merge stores every point of a batch whose points are told apart, unless
\* it has a newer one.
LEMMA MergeStores ==
    ASSUME NEW rows \in Rows, NEW points \in Seq(Point), Unambiguous(points),
           NEW pts \in SUBSET Collapse(points), NEW now \in Time,
           NEW r \in MergeRows(rows, pts, now),
           NEW i \in DOMAIN points, points[i] \in pts
    PROVE  Holds(r, IdentOf(points[i]), points[i].time)
<1> DEFINE p == points[i]
           k == IdentOf(p)
<1>1. pts \in SUBSET Point /\ k \in Ident
  BY CollapseSubset, StampPoint
<1>2. r[k] \in RowOutcomes(rows, pts, now, k)
  BY <1>1, MergeRowsPointwise
<1>3. \A q \in pts : IdentOf(q) = k => q = p
  BY DEF Collapse, Unambiguous
<1>4. \E j \in DOMAIN r[k] : r[k][j].time >= p.time
  <2> HIDE DEF k, p
  <2>1. p \in pts /\ k = IdentOf(p)
    BY DEF k, p
  <2> QED BY <1>1, <1>2, <1>3, <2>1, RowOutcome
<1> QED BY <1>4 DEF Holds

\* What clients send in one message is told apart.
MsgsUnambiguous == \A m \in NodeMsgs \cup EdgeMsgs : Unambiguous(m.pts)

\* The commit of a node's points stores what its message asks for.
LEMMA NodeCommitStores ==
    ASSUME MsgsUnambiguous, TInv, [Next]_vars, NodeCommit, NEW w \in Kept(nodeH.msg)
    PROVE  Stored(db', w)
<1> DEFINE m == nodeH.msg
<1>1. m \in NodeMsgs /\ m \in Msg /\ m.parent = Blank /\ m.id \in Node
      /\ m.pts \in Seq(Point) /\ Unambiguous(m.pts)
  BY MsgType DEF MsgsUnambiguous, NodeCommit, TInv, Busy
<1>2. PICK i \in DOMAIN m.pts :
          w = [at |-> PlaceOf(m), k |-> IdentOf(m.pts[i]), time |-> m.pts[i].time]
  BY DEF Kept
<1>3. PICK now \in Time :
          \E rows \in MergeRows(db.np[m.id], Collapse(m.pts), now) :
              rows \in Rows /\ db'.np = [db.np EXCEPT ![m.id] = rows]
  <2>1. PICK now \in Clock(m.pts) : db' \in NodePoints(db, m.id, m.pts, now)
    BY DEF NodeCommit
  <2>2. now \in Time /\ db \in DB
    BY ClockType DEF TInv, TypeOK
  <2>3. NodeWritten(db, db', m.id, m.pts, now)
    BY <1>1, <2>1, <2>2, NodePointsStep
  <2> QED BY <2>2, <2>3 DEF NodeWritten
<1>4. PICK rows \in MergeRows(db.np[m.id], Collapse(m.pts), now) :
          /\ rows \in Rows /\ db'.np = [db.np EXCEPT ![m.id] = rows]
          /\ db.np \in [Node -> Rows]
  BY <1>3 DEF TInv, TypeOK, DB
<1>5. Holds(rows, IdentOf(m.pts[i]), m.pts[i].time)
  BY <1>1, <1>3, <1>4, CollapseAll, MergeStores
<1>6. RowsAt(db', w.at) = rows
  BY <1>1, <1>2, <1>3, <1>4 DEF RowsAt, PlaceOf
<1> QED BY <1>2, <1>5, <1>6 DEF Stored

\* The commit of an edge's points stores what its message asks for.
LEMMA EdgeCommitStores ==
    ASSUME MsgsUnambiguous, TInv, [Next]_vars, EdgeCommit, NEW w \in Kept(edgeH.msg)
    PROVE  Stored(db', w)
<1> DEFINE m   == edgeH.msg
           e   == <<m.parent, m.id>>
           pts == {p \in Collapse(m.pts) : p.typ # "nodeType"}
<1>1. m \in EdgeMsgs /\ m \in Msg /\ m.parent # Blank /\ m.parent \in Hop
      /\ m.id \in Node /\ m.pts \in Seq(Point) /\ Unambiguous(m.pts)
  BY MsgType DEF MsgsUnambiguous, EdgeCommit, TInv, Busy
<1>2. PICK i \in DOMAIN m.pts :
          /\ w = [at |-> PlaceOf(m), k |-> IdentOf(m.pts[i]), time |-> m.pts[i].time]
          /\ m.pts[i].typ # "nodeType"
  BY <1>1 DEF Kept
<1>3. PICK now \in Time :
          \E rows \in MergeRows(db.ep[e], pts, now) :
              rows \in Rows /\ db'.ep = [db.ep EXCEPT ![e] = rows]
  <2>1. PICK now \in Clock(m.pts) : db' \in EdgeWrites(db, m.id, m.parent, m.pts, now)
    BY DEF EdgeCommit
  <2>2. now \in Time /\ db \in DB
    BY ClockType DEF TInv, TypeOK
  <2>3. EdgeWritten(db, db', m.id, m.parent, m.pts, now)
    BY <1>1, <2>1, <2>2, EdgeWritesStep
  <2> QED BY <2>2, <2>3 DEF EdgeWritten
<1>4. PICK rows \in MergeRows(db.ep[e], pts, now) :
          /\ rows \in Rows /\ db'.ep = [db.ep EXCEPT ![e] = rows]
          /\ db.ep \in [EdgeId -> Rows] /\ e \in EdgeId
  <2>1. db.ep \in [EdgeId -> Rows] /\ e \in EdgeId
    BY <1>1 DEF TInv, TypeOK, DB, EdgeId, Hop
  <2> QED BY <1>3, <2>1
<1>5. Holds(rows, IdentOf(m.pts[i]), m.pts[i].time)
  <2>1. m.pts[i] \in pts
    BY <1>1, <1>2, CollapseAll
  <2> QED BY <1>1, <1>3, <1>4, <2>1, MergeStores
<1>6. RowsAt(db', w.at) = rows
  BY <1>1, <1>2, <1>3, <1>4 DEF RowsAt, PlaceOf
<1> QED BY <1>2, <1>5, <1>6 DEF Stored

\* What handler h has committed and is announcing is stored in d.
Announces(h, d) ==
    /\ h.pc = "walk" /\ ~h.err => \A w \in Kept(h.msg) : Stored(d, w)
    /\ h.pc # "walk" => h.told = {}

\* The inductive invariant: the acknowledged points are stored, and so are
\* those of a walk, from its first step on.
DInv ==
    /\ AckedDurable
    /\ Announces(nodeH, db) /\ ~nodeH.err
    /\ Announces(edgeH, db)

\* What a handler announces stays stored, whoever makes the step.
LEMMA AnnouncesStays ==
    ASSUME TInv, TInv', [Next]_vars, NEW h, Announces(h, db),
           h.pc # "idle" => h.msg \in Msg,
           NEW g, g.pc = h.pc, g.msg = h.msg, g.err = h.err,
           g.pc # "walk" => g.told = h.told
    PROVE  Announces(g, db')
<1>1. ASSUME h.pc = "walk", NEW w \in Kept(h.msg), Stored(db, w)
      PROVE  Stored(db', w)
  <2>1. w \in Version
    BY <1>1, KeptType
  <2> QED BY <1>1, <2>1, StoredStays
<1> QED BY <1>1 DEF Announces

\* Every step leaves the p.* handler announcing stored points.
LEMMA NodeAnnounces ==
    ASSUME MsgsUnambiguous, TInv, TInv', [Next]_vars, DInv
    PROVE  Announces(nodeH', db') /\ ~nodeH'.err
<1>0. /\ nodeH \in Handler /\ Announces(nodeH, db) /\ ~nodeH.err /\ db \in DB
      /\ nodeH.pc # "idle" => nodeH.msg \in Msg
  BY MsgType DEF TInv, TypeOK, Busy, DInv
<1>1. CASE NodeReceive
  <2>1. nodeH'.pc = "wait" /\ nodeH'.told = nodeH.told /\ nodeH'.err = nodeH.err
        /\ nodeH.pc = "idle"
    BY <1>0, <1>1 DEF NodeReceive, Handler
  <2> QED BY <1>0, <2>1 DEF Announces
<1>2. CASE NodeCommit
  <2>1. nodeH.msg \in Msg /\ nodeH' = StartWalk(nodeH, LiveUp(db)) /\ db \in DB
    BY <1>0, <1>2 DEF NodeCommit, TInv, TypeOK
  <2>2. nodeH'.pc = "walk" /\ nodeH'.msg = nodeH.msg /\ nodeH'.err = nodeH.err
    BY <1>0, <2>1, LiveUpType, StartWalkType
  <2>3. \A w \in Kept(nodeH.msg) : Stored(db', w)
    BY <1>2, NodeCommitStores
  <2> QED BY <1>0, <2>2, <2>3 DEF Announces
<1>3. CASE nodeH' = IdleHandler
  <2>1. nodeH'.pc = "idle" /\ nodeH'.told = {} /\ nodeH'.err = FALSE
    BY <1>3 DEF IdleHandler
  <2> QED BY <2>1 DEF Announces
<1>4. CASE NodeVisit
  <2>0. PICK x \in Head(nodeH.todo) : nodeH' = Visit(nodeH, x, FALSE)
    BY <1>4 DEF NodeVisit
  <2>1. nodeH'.pc = nodeH.pc /\ nodeH'.msg = nodeH.msg /\ nodeH'.err = nodeH.err
        /\ nodeH.pc = "walk"
    BY <1>0, <1>4, <2>0, VisitType DEF NodeVisit
  <2> QED BY <1>0, <2>1, AnnouncesStays
<1>5. CASE EdgeCommit \/ nodeH' = nodeH
  <2>1. nodeH'.pc = nodeH.pc /\ nodeH'.msg = nodeH.msg /\ nodeH'.err = nodeH.err
        /\ nodeH'.told = nodeH.told
    BY <1>0, <1>5 DEF EdgeCommit, Handler
  <2> QED BY <1>0, <2>1, AnnouncesStays
<1> QED BY <1>1, <1>2, <1>3, <1>4, <1>5
        DEF Next, vars, NodeFail, NodeReply, EdgeReceive, EdgeRefuse, EdgeFail,
            EdgeDiverge, EdgeVisit, EdgeReply, ReadEdges, ReadEdgePoints,
            ReadNodePoints, Answer, Restart

\* Every step leaves the p.*.* handler announcing stored points.
LEMMA EdgeAnnounces ==
    ASSUME MsgsUnambiguous, TInv, TInv', [Next]_vars, DInv
    PROVE  Announces(edgeH', db')
<1>0. /\ edgeH \in Handler /\ Announces(edgeH, db) /\ db \in DB
      /\ edgeH.pc # "idle" => edgeH.msg \in Msg
  BY MsgType DEF TInv, TypeOK, Busy, DInv
<1>1. CASE EdgeReceive \/ EdgeDiverge
  <2>1. /\ edgeH'.pc \in {"wait", "diverged"} /\ edgeH'.told = edgeH.told
        /\ edgeH.pc \in {"idle", "wait"}
    BY <1>0, <1>1 DEF EdgeReceive, EdgeDiverge, Handler
  <2> QED BY <1>0, <2>1 DEF Announces
<1>2. CASE EdgeCommit
  <2>1. edgeH.msg \in Msg /\ edgeH' = StartWalk(edgeH, db'.edges) /\ db' \in DB
    BY <1>0, <1>2 DEF EdgeCommit, TInv, TypeOK
  <2>2. edgeH'.pc = "walk" /\ edgeH'.msg = edgeH.msg
    BY <1>0, <2>1, LiveUpType, StartWalkType
  <2>3. \A w \in Kept(edgeH.msg) : Stored(db', w)
    BY <1>2, EdgeCommitStores
  <2> QED BY <2>2, <2>3 DEF Announces
<1>3. CASE EdgeRefuse \/ EdgeFail
  <2>1. edgeH.msg \in Msg /\ edgeH' = [StartWalk(edgeH, db.edges) EXCEPT !.err = TRUE]
    BY <1>0, <1>3 DEF EdgeRefuse, EdgeFail
  <2>2. edgeH'.pc = "walk" /\ edgeH'.err = TRUE
    BY <1>0, <2>1, LiveUpType, StartWalkType
  <2> QED BY <2>2 DEF Announces
<1>4. CASE edgeH' = IdleHandler
  <2>1. edgeH'.pc = "idle" /\ edgeH'.told = {}
    BY <1>4 DEF IdleHandler
  <2> QED BY <2>1 DEF Announces
<1>5. CASE EdgeVisit
  <2>0. PICK x \in Head(edgeH.todo) : edgeH' = Visit(edgeH, x, TRUE)
    BY <1>5 DEF EdgeVisit
  <2>1. edgeH'.pc = edgeH.pc /\ edgeH'.msg = edgeH.msg /\ edgeH'.err = edgeH.err
        /\ edgeH.pc = "walk"
    BY <1>0, <1>5, <2>0, VisitType DEF EdgeVisit
  <2> QED BY <1>0, <2>1, AnnouncesStays
<1>6. CASE edgeH' = edgeH
  BY <1>0, <1>6, AnnouncesStays
<1> QED BY <1>1, <1>2, <1>3, <1>4, <1>5, <1>6
        DEF Next, vars, NodeReceive, NodeCommit, NodeFail, NodeVisit, NodeReply,
            EdgeReply, ReadEdges, ReadEdgePoints, ReadNodePoints, Answer, Restart

\* Every step leaves what was acknowledged stored.
LEMMA AckedStays ==
    ASSUME TInv, TInv', [Next]_vars, DInv
    PROVE  AckedDurable'
<1>1. ASSUME NEW w \in Version, Stored(db, w) PROVE Stored(db', w)
  BY <1>1, StoredStays
<1>2. acked \subseteq Version /\ \A w \in acked : Stored(db, w)
  BY DEF TInv, TypeOK, DInv, AckedDurable
<1>3. CASE acked' = acked
  BY <1>1, <1>2, <1>3 DEF AckedDurable
<1>4. ASSUME NEW h, h.msg \in Msg, \A w \in Kept(h.msg) : Stored(db, w),
             acked' = Newest(acked \cup Kept(h.msg))
      PROVE  AckedDurable'
  <2>1. Kept(h.msg) \in SUBSET Version
    BY <1>4, KeptType
  <2>2. acked' \subseteq acked \cup Kept(h.msg)
    BY <1>4 DEF Newest
  <2> QED BY <1>1, <1>2, <1>4, <2>1, <2>2 DEF AckedDurable
<1>5. CASE NodeReply
  <2>1. nodeH.msg \in Msg /\ \A w \in Kept(nodeH.msg) : Stored(db, w)
    BY <1>5, MsgType DEF NodeReply, TInv, Busy, DInv, Announces
  <2> QED BY <1>4, <1>5, <2>1 DEF NodeReply
<1>6. CASE EdgeReply /\ ~edgeH.err
  <2>1. edgeH.msg \in Msg /\ \A w \in Kept(edgeH.msg) : Stored(db, w)
    BY <1>6, MsgType DEF EdgeReply, TInv, Busy, DInv, Announces
  <2> QED BY <1>4, <1>6, <2>1 DEF EdgeReply
<1> QED BY <1>3, <1>5, <1>6
        DEF Next, vars, NodeReceive, NodeCommit, NodeFail, NodeVisit, EdgeReceive,
            EdgeCommit, EdgeRefuse, EdgeFail, EdgeDiverge, EdgeVisit, EdgeReply,
            ReadEdges, ReadEdgePoints, ReadNodePoints, Answer, Restart

\* DInv is an invariant.
LEMMA DurableInvariant ==
    ASSUME MsgsUnambiguous
    PROVE  Spec => []DInv
<1>1. Init => DInv
  BY DEF Init, DInv, AckedDurable, Announces, IdleHandler
<1>2. TInv /\ TInv' /\ [Next]_vars /\ DInv => DInv'
  <2> SUFFICES ASSUME TInv, TInv', [Next]_vars, DInv PROVE DInv'
    OBVIOUS
  <2>1. Announces(nodeH', db') /\ ~nodeH'.err /\ Announces(edgeH', db')
    BY NodeAnnounces, EdgeAnnounces
  <2> QED BY <2>1, AckedStays DEF DInv, Announces
<1> QED BY <1>1, <1>2, TypeInvariant, PTL DEF Spec

\* handleNodePoints, handleEdgePoints: as long as no message names a point
\* twice, a point that was acknowledged is never lost, through concurrent
\* writes, failed transactions and restarts.
THEOREM AckedAreDurable ==
    ASSUME MsgsUnambiguous
    PROVE  Spec => []AckedDurable
<1>1. DInv => AckedDurable
  BY DEF DInv
<1> QED BY <1>1, DurableInvariant, PTL

\* handleNodePoints, handleEdgePoints: under the same assumption what is
\* announced upstream without an error has been written before.
THEOREM AnnouncedAreStored ==
    ASSUME MsgsUnambiguous
    PROVE  Spec => []AnnouncedStored
<1>1. DInv => AnnouncedStored
  BY DEF DInv, Announces, AnnouncedStored
<1> QED BY <1>1, DurableInvariant, PTL

-----------------------------------------------------------------------------
(* The root is never deleted *)

RootEdge(d) == <<"root", d.root>>

\* The inductive invariant: an edge that there is not has no points, so that a
\* new root edge has no others than the ones its message brings.
RInv ==
    /\ rootID = db.root
    /\ RootEdge(db) \in db.edges
    /\ FindVal(db.ep[RootEdge(db)], "tombstone") # 1
    /\ \A e \in EdgeId \ db.edges : db.ep[e] = NoRows
    /\ edgeH.pc = "wait" => ClientSends(edgeH.msg)

\* A commit of edge points leaves the root alive.
LEMMA CommitKeepsRoot ==
    ASSUME TInv, [Next]_vars, RInv, EdgeCommit
    PROVE  /\ rootID' = db'.root
           /\ RootEdge(db') \in db'.edges
           /\ FindVal(db'.ep[RootEdge(db')], "tombstone") # 1
           /\ \A e \in EdgeId \ db'.edges : db'.ep[e] = NoRows
<1> DEFINE m   == edgeH.msg
           e   == <<m.parent, m.id>>
           pts == {p \in Collapse(m.pts) : p.typ # "nodeType"}
<1>1. /\ m \in EdgeMsgs /\ m \in Msg /\ m.parent \in Hop /\ m.id \in Node
      /\ m.pts \in Seq(Point) /\ PlaceOf(m) = e
  BY MsgType DEF EdgeCommit, TInv, Busy, PlaceOf
<1>2. /\ db \in DB /\ db.ep \in [EdgeId -> Rows] /\ e \in EdgeId
      /\ db.edges \in SUBSET EdgeId
  BY <1>1 DEF TInv, TypeOK, DB, EdgeId, Hop
<1>3. PICK now \in Time : EdgeWritten(db, db', m.id, m.parent, m.pts, now)
  <2>1. PICK now \in Clock(m.pts) : db' \in EdgeWrites(db, m.id, m.parent, m.pts, now)
    BY DEF EdgeCommit
  <2> QED BY <1>1, <1>2, <2>1, ClockType, EdgeWritesStep
<1>4. PICK rows \in MergeRows(db.ep[e], pts, now) :
          rows \in Rows /\ db'.ep = [db.ep EXCEPT ![e] = rows]
  BY <1>3 DEF EdgeWritten
<1>5. /\ db'.edges = db.edges \cup {e}
      /\ db'.root = IF m.parent = "root" /\ e \notin db.edges THEN m.id ELSE db.root
  BY <1>3 DEF EdgeWritten
<1>6. rootID' = IF m.parent = "root" /\ e \notin db.edges THEN m.id ELSE rootID
  BY <1>1 DEF EdgeCommit, NewRoot
<1>7. pts \in SUBSET Point /\ db.ep[e] \in Rows
  BY <1>1, <1>2, CollapseSubset
<1>8. rootID = db.root /\ RootEdge(db) \in db.edges
      /\ FindVal(db.ep[RootEdge(db)], "tombstone") # 1
      /\ \A x \in EdgeId \ db.edges : db.ep[x] = NoRows
  BY DEF RInv
<1>9. \A x \in EdgeId \ db'.edges : db'.ep[x] = NoRows
  <2> HIDE DEF e, pts
  <2> QED BY <1>2, <1>4, <1>5, <1>8
<1>10. CASE m.parent = "root" /\ e \notin db.edges
  <2>1. RootEdge(db') = e
    BY <1>5, <1>10 DEF RootEdge
  <2>2. \A p \in pts : p.typ = "tombstone" => p.val # 1
    <3>1. ClientSends(m)
      BY DEF RInv, EdgeCommit
    <3>2. \A i \in DOMAIN m.pts : m.pts[i].typ = "tombstone" => m.pts[i].val = 0
      BY <1>1, <1>10, <3>1 DEF ClientSends
    <3> QED BY <3>2 DEF Collapse
  <2>3. FindVal(db.ep[e], "tombstone") # 1
    BY <1>2, <1>8, <1>10, DbAssumption, BlankIsNone DEF FindVal, NoRows, Ident
  <2> HIDE DEF e, pts
  <2>4. FindVal(rows, "tombstone") # 1
    BY <1>4, <1>7, <2>2, <2>3, MergeTombstone
  <2>5. db'.ep[e] = rows
    BY <1>2, <1>4
  <2> QED BY <1>5, <1>6, <1>9, <1>10, <2>1, <2>4, <2>5
<1>11. CASE ~(m.parent = "root" /\ e \notin db.edges) /\ e = RootEdge(db)
  <2>1. m.id = rootID /\ RootEdge(db') = e
    BY <1>5, <1>8, <1>11 DEF RootEdge
  <2>2. \A p \in pts : p.typ = "tombstone" => p.val # 1
    BY <2>1 DEF EdgeCommit, Refused, EdgePointsError
  <2> HIDE DEF e, pts
  <2>3. FindVal(rows, "tombstone") # 1
    BY <1>4, <1>7, <1>8, <1>11, <2>2, MergeTombstone
  <2>4. db'.ep[e] = rows
    BY <1>2, <1>4
  <2> QED BY <1>5, <1>6, <1>8, <1>9, <1>11, <2>1, <2>3, <2>4
<1>12. CASE ~(m.parent = "root" /\ e \notin db.edges) /\ e # RootEdge(db)
  <2>1. RootEdge(db') = RootEdge(db)
    BY <1>5, <1>12 DEF RootEdge
  <2> HIDE DEF e, pts
  <2>2. db'.ep[RootEdge(db)] = db.ep[RootEdge(db)]
    BY <1>2, <1>4, <1>8, <1>12
  <2> QED BY <1>5, <1>6, <1>8, <1>9, <1>12, <2>1, <2>2
<1> QED BY <1>10, <1>11, <1>12

\* RInv is an invariant of a store whose transactions do not fail.
LEMMA RootInvariant ==
    ASSUME ~MayFail
    PROVE  Spec => []RInv
<1>1. Init => RInv
  <2> SUFFICES ASSUME Init PROVE RInv
    OBVIOUS
  <2>1. /\ db.root = Root /\ db.edges = {<<"root", Root>>, <<Root, Admin>>}
        /\ FindVal(db.ep[<<"root", Root>>], "tombstone") # 1
        /\ \A e \in EdgeId \ db.edges : db.ep[e] = NoRows
    BY InitRootDB DEF Init
  <2>2. rootID = Root /\ edgeH.pc = "idle"
    BY IdleType DEF Init
  <2> QED BY <2>1, <2>2 DEF RInv, RootEdge
<1>2. TInv /\ TInv' /\ [Next]_vars /\ RInv => RInv'
  <2> SUFFICES ASSUME TInv, TInv', [Next]_vars, RInv PROVE RInv'
    OBVIOUS
  <2>0. edgeH \in Handler
    BY DEF TInv, TypeOK
  <2>1. CASE EdgeCommit
    <3>1. edgeH'.pc = "walk"
      BY <2>0, <2>1 DEF EdgeCommit, StartWalk, Handler
    <3> QED BY <2>1, <3>1, CommitKeepsRoot DEF RInv, RootEdge
  <2>2. CASE NodeCommit
    <3>1. PICK now \in Clock(nodeH.msg.pts) :
              db' \in NodePoints(db, nodeH.msg.id, nodeH.msg.pts, now)
      BY <2>2 DEF NodeCommit
    <3>2. NodeWritten(db, db', nodeH.msg.id, nodeH.msg.pts, now)
      BY <2>2, <3>1, MsgType, ClockType, NodePointsStep
         DEF NodeCommit, TInv, TypeOK, Busy
    <3> QED BY <2>2, <3>2 DEF NodeWritten, NodeCommit, RInv, RootEdge, ClientSends
  <2>3. CASE EdgeReceive
    <3>1. PICK m \in EdgeMsgs :
              ClientSends(m) /\ edgeH' = [edgeH EXCEPT !.pc = "wait", !.msg = m]
      BY <2>3 DEF EdgeReceive
    <3>2. edgeH'.msg = m
      BY <2>0, <3>1 DEF Handler
    <3> QED BY <2>3, <3>1, <3>2 DEF EdgeReceive, RInv, RootEdge, ClientSends
  <2>4. ASSUME UNCHANGED db, rootID' \in {rootID, db.root},
               edgeH' = edgeH \/ edgeH'.pc # "wait"
        PROVE  RInv'
    BY <2>4 DEF RInv, RootEdge, ClientSends
  <2>5. CASE EdgeRefuse \/ EdgeDiverge
    <3>1. edgeH'.pc # "wait"
      BY <2>0, <2>5 DEF EdgeRefuse, EdgeDiverge, StartWalk, Handler
    <3> QED BY <2>4, <2>5, <3>1 DEF EdgeRefuse, EdgeDiverge
  <2>6. CASE EdgeVisit
    <3>1. edgeH'.pc # "wait"
      BY <2>0, <2>6 DEF EdgeVisit, Visit, Handler
    <3> QED BY <2>4, <2>6, <3>1 DEF EdgeVisit
  <2>7. CASE EdgeReply \/ Restart
    <3>1. edgeH'.pc # "wait"
      BY <2>7, IdleType DEF EdgeReply, Restart
    <3> QED BY <2>4, <2>7, <3>1 DEF EdgeReply, Restart
  <2>8. CASE \/ NodeReceive \/ NodeFail \/ NodeVisit \/ NodeReply \/ ReadEdges
             \/ ReadEdgePoints \/ ReadNodePoints \/ Answer \/ UNCHANGED vars
    BY <2>4, <2>8 DEF NodeReceive, NodeFail, NodeVisit, NodeReply, ReadEdges,
                      ReadEdgePoints, ReadNodePoints, Answer, vars
  <2> QED BY <2>1, <2>2, <2>3, <2>5, <2>6, <2>7, <2>8 DEF Next, EdgeFail
<1> QED BY <1>1, <1>2, TypeInvariant, PTL DEF Spec

\* edgePoints: as long as transactions do not fail, the root node is never
\* deleted, and the root in memory is the one in the database, through
\* concurrent writes, new roots and restarts.
THEOREM RootStaysAlive ==
    ASSUME ~MayFail
    PROVE  Spec => []RootAlive
<1>1. RInv => RootAlive
  BY DEF RInv, RootEdge, RootAlive, LiveEdges, IsTombstone
<1> QED BY <1>1, RootInvariant, PTL

-----------------------------------------------------------------------------
(* The refinement mapping *)

\* The time of the first row of identity k, or -1.
FirstTime(rows, k) == IF rows[k] = <<>> THEN -1 ELSE rows[k][1].time

PortOf(h) == [st    |-> Phase(h),
              batch |-> IF h.pc = "idle" THEN {} ELSE Kept(h.msg)]

newestBar == [at \in Place |-> NewestAt(db, at)]

portBar == [p \in {"p", "e"} |->
               LET h == IF p = "p" THEN nodeH ELSE edgeH
               IN  [st    |-> Phase(h),
                    batch |-> IF h.pc = "idle" THEN {} ELSE Kept(h.msg)]]

\* The port of each handler.
LEMMA PortBar ==
    /\ portBar = [p \in {"p", "e"} |-> IF p = "p" THEN PortOf(nodeH) ELSE PortOf(edgeH)]
    /\ portBar' = [p \in {"p", "e"} |-> IF p = "p" THEN PortOf(nodeH') ELSE PortOf(edgeH')]
BY DEF portBar, PortOf

\* What each phase of a handler is for the ledger.
LEMMA PhaseOf ==
    ASSUME NEW h
    PROVE  /\ h.pc = "idle" => Phase(h) = "free"
           /\ h.pc \in {"wait", "diverged"} => Phase(h) = "taken"
           /\ h.pc = "walk" /\ ~h.err => Phase(h) = "applied"
           /\ h.pc = "walk" /\ h.err => Phase(h) = "refused"
BY DEF Phase

\* What a place has of every identity.
LEMMA NewestBar ==
    /\ newestBar = [at \in Place |-> [k \in Ident |-> FirstTime(RowsAt(db, at), k)]]
    /\ newestBar' = [at \in Place |-> [k \in Ident |-> FirstTime(RowsAt(db', at), k)]]
BY DEF newestBar, NewestAt, FirstTime

-----------------------------------------------------------------------------
(* Merging rows is keeping the later time *)

\* The later one of two times, and a time that nothing is compared with.
LEMMA LaterOf ==
    ASSUME NEW t \in Int
    PROVE  /\ L!Later(t, {}) = t
           /\ \A u \in Int : L!Later(t, {u}) = IF t =< u THEN u ELSE t
<1>1. L!Later(t, {}) = t
  BY DEF L!Later
<1>2. ASSUME NEW u \in Int
      PROVE  L!Later(t, {u}) = IF t =< u THEN u ELSE t
  <2> DEFINE m == IF t =< u THEN u ELSE t
  <2>1. m \in {t} \cup {u} /\ \A y \in {t} \cup {u} : y =< m
    OBVIOUS
  <2>2. \A x \in {t} \cup {u} : (\A y \in {t} \cup {u} : y =< x) => x = m
    OBVIOUS
  <2> QED BY <2>1, <2>2 DEF L!Later
<1> QED BY <1>1, <1>2

\* What a batch gives to identity k.
GivenTo(pts, now, k) ==
    {IF p.time = 0 THEN now ELSE p.time : p \in {p \in pts : IdentOf(p) = k}}

\* nodePoints, edgePoints: a batch that names every point once leaves the
\* later one of the stored and the given time in the first row.
LEMMA MergeIsLater ==
    ASSUME NEW rows \in Rows, NEW pts \in SUBSET Point, NEW now \in Time,
           \A p, q \in pts : IdentOf(p) = IdentOf(q) => p = q,
           NEW r \in MergeRows(rows, pts, now), NEW k \in Ident
    PROVE  FirstTime(r, k) = L!Later(FirstTime(rows, k), GivenTo(pts, now, k))
<1> DEFINE in  == {p \in pts : IdentOf(p) = k}
           acc == {p \in in : Accepts(rows, p, now)}
           t   == FirstTime(rows, k)
<1>1. r[k] \in RowOutcomes(rows, pts, now, k) /\ rows[k] \in Seq(Point)
  BY MergeRowsPointwise DEF Rows
<1>2. t \in Int
  BY <1>1, PointFields DEF FirstTime
<1>3. CASE in = {}
  <2>1. r[k] = rows[k]
    BY <1>1, <1>3 DEF RowOutcomes
  <2>2. GivenTo(pts, now, k) = {}
    BY <1>3 DEF GivenTo
  <2> QED BY <1>2, <2>1, <2>2, LaterOf DEF FirstTime
<1>4. CASE in # {}
  <2>1. PICK p \in in : in = {p}
    BY <1>4
  <2> DEFINE u == Stamp(p, now).time
  <2>2. p \in Point /\ Stamp(p, now) \in Point /\ u \in Nat
        /\ u = IF p.time = 0 THEN now ELSE p.time
    BY <2>1, StampPoint, PointFields DEF Stamp
  <2>3. GivenTo(pts, now, k) = {u}
    BY <2>1, <2>2 DEF GivenTo
  <2>4. L!Later(t, GivenTo(pts, now, k)) = IF t =< u THEN u ELSE t
    BY <1>2, <2>2, <2>3, LaterOf
  <2>5. CASE acc = {}
    <3>1. r[k] = rows[k]
      BY <1>1, <2>5 DEF RowOutcomes
    <3>2. rows[k] # <<>> /\ ~(rows[k][1].time =< u)
      BY <2>1, <2>5 DEF Accepts
    <3> QED BY <3>1, <3>2, <2>4 DEF FirstTime
  <2>6. CASE acc # {} /\ rows[k] # <<>>
    <3>1. acc = {p} /\ rows[k][1].time =< u
      BY <2>1, <2>6 DEF Accepts
    <3>2. r[k] = [rows[k] EXCEPT ![1] = Stamp(p, now)]
      BY <1>1, <2>6, <3>1 DEF RowOutcomes
    <3>3. r[k] # <<>> /\ r[k][1].time = u
      BY <1>1, <2>6, <3>2
    <3> QED BY <2>4, <2>6, <3>1, <3>3 DEF FirstTime
  <2>7. CASE acc # {} /\ rows[k] = <<>>
    <3>1. r[k] = <<Stamp(p, now)>>
      BY <1>1, <2>1, <2>7 DEF RowOutcomes
    <3>2. r[k] # <<>> /\ r[k][1].time = u
      BY <2>2, <3>1
    <3> QED BY <2>2, <2>4, <2>7, <3>2 DEF FirstTime
  <2> QED BY <2>5, <2>6, <2>7
<1> QED BY <1>3, <1>4

-----------------------------------------------------------------------------
(* A commit applies a batch *)

\* The points of a message that are stored as points.
StoredPoints(m) == {p \in Collapse(m.pts) : m.parent # Blank => p.typ # "nodeType"}

\* What the versions of a message give to a place is what its points give.
LEMMA GivenKept ==
    ASSUME NEW m \in Msg, Unambiguous(m.pts), NEW now \in Time, NEW k \in Ident
    PROVE  /\ L!Given(Kept(m), now, PlaceOf(m), k) = GivenTo(StoredPoints(m), now, k)
           /\ \A a : a # PlaceOf(m) => L!Given(Kept(m), now, a, k) = {}
           /\ StoredPoints(m) \in SUBSET Point
           /\ \A p, q \in StoredPoints(m) : IdentOf(p) = IdentOf(q) => p = q
<1> DEFINE I    == {i \in DOMAIN m.pts : m.parent # Blank => m.pts[i].typ # "nodeType"}
           V(i) == [at |-> PlaceOf(m), k |-> IdentOf(m.pts[i]), time |-> m.pts[i].time]
<1>1. m.pts \in Seq(Point)
  BY MsgType
<1>2. Kept(m) = {V(i) : i \in I}
  BY DEF Kept
<1>3. StoredPoints(m) = {m.pts[i] : i \in I}
  <2>1. \A i \in DOMAIN m.pts : m.pts[i] \in Collapse(m.pts)
    BY <1>1, CollapseAll
  <2>2. \A p \in Collapse(m.pts) : \E i \in DOMAIN m.pts : p = m.pts[i]
    BY DEF Collapse
  <2> QED BY <2>1, <2>2 DEF StoredPoints
<1>4. StoredPoints(m) \in SUBSET Point
  BY <1>1, CollapseSubset DEF StoredPoints
<1>5. \A p, q \in StoredPoints(m) : IdentOf(p) = IdentOf(q) => p = q
  BY <1>3 DEF Unambiguous
<1>6. \A i \in I : V(i).at = PlaceOf(m) /\ V(i).k = IdentOf(m.pts[i])
                    /\ V(i).time = m.pts[i].time
  OBVIOUS
<1> HIDE DEF V, I
<1>7. \A a : a # PlaceOf(m) => L!Given(Kept(m), now, a, k) = {}
  BY <1>2, <1>6 DEF L!Given
<1>8. L!Given(Kept(m), now, PlaceOf(m), k) = GivenTo(StoredPoints(m), now, k)
  BY <1>2, <1>3, <1>6 DEF L!Given, GivenTo
<1> QED BY <1>4, <1>5, <1>7, <1>8

\* The clock never shows the zero time.
LEMMA ClockRuns == \A pts : Clock(pts) \subseteq Time \ {0}
BY DbAssumption DEF Clock, Time

\* The newest times after batch B was applied.
AppliedTo(B, now) ==
    [a \in Place |-> [k \in Ident |-> L!Later(newestBar[a][k], L!Given(B, now, a, k))]]

\* The merge of one place's rows is the application of its message.
LEMMA PlaceApplied ==
    ASSUME db \in DB, NEW m \in Msg, Unambiguous(m.pts), NEW now \in Time,
           NEW r \in MergeRows(RowsAt(db, PlaceOf(m)), StoredPoints(m), now),
           RowsAt(db', PlaceOf(m)) = r,
           \A a \in Place : a # PlaceOf(m) => RowsAt(db', a) = RowsAt(db, a)
    PROVE  newestBar' = AppliedTo(Kept(m), now)
<1>1. \A a \in Place : RowsAt(db, a) \in Rows
  BY DEF Place, RowsAt, DB, EdgeId
<1>2. \A a \in Place, k \in Ident :
          /\ newestBar[a][k] = FirstTime(RowsAt(db, a), k)
          /\ FirstTime(RowsAt(db, a), k) \in Int
  <2>1. \A rows \in Rows, k \in Ident : FirstTime(rows, k) \in Int
    BY PointFields DEF Rows, FirstTime
  <2> QED BY <1>1, <2>1, NewestBar
<1>3. ASSUME NEW a \in Place, NEW k \in Ident
      PROVE  FirstTime(RowsAt(db', a), k)
                 = L!Later(newestBar[a][k], L!Given(Kept(m), now, a, k))
  <2>1. CASE a = PlaceOf(m)
    <3>1. RowsAt(db, a) \in Rows /\ r \in MergeRows(RowsAt(db, a), StoredPoints(m), now)
      BY <1>1, <2>1
    <3>2. FirstTime(r, k) = L!Later(FirstTime(RowsAt(db, a), k),
                                    GivenTo(StoredPoints(m), now, k))
      BY <3>1, GivenKept, MergeIsLater
    <3>3. L!Given(Kept(m), now, a, k) = GivenTo(StoredPoints(m), now, k)
      BY <2>1, GivenKept
    <3> QED BY <1>2, <2>1, <3>2, <3>3
  <2>2. CASE a # PlaceOf(m)
    <3>1. L!Given(Kept(m), now, a, k) = {}
      BY <2>2, GivenKept
    <3> QED BY <1>2, <2>2, <3>1, LaterOf
  <2> QED BY <2>1, <2>2
<1> QED BY <1>3, NewestBar DEF AppliedTo

\* handleNodePoints: its commit applies the message it has taken.
LEMMA NodeCommitApplies ==
    ASSUME MsgsUnambiguous, TInv, NodeCommit
    PROVE  \E now \in Time \ {0} : newestBar' = AppliedTo(Kept(nodeH.msg), now)
<1> DEFINE m == nodeH.msg
<1>1. /\ m \in NodeMsgs /\ m \in Msg /\ m.parent = Blank /\ m.id \in Node
      /\ m.pts \in Seq(Point) /\ Unambiguous(m.pts) /\ PlaceOf(m) = <<Blank, m.id>>
      /\ db \in DB /\ db.np \in [Node -> Rows]
  BY MsgType DEF MsgsUnambiguous, NodeCommit, TInv, TypeOK, Busy, PlaceOf, DB
<1>2. PICK now \in Time \ {0} : NodeWritten(db, db', m.id, m.pts, now)
  <2>1. PICK now \in Clock(m.pts) : db' \in NodePoints(db, m.id, m.pts, now)
    BY DEF NodeCommit
  <2> QED BY <1>1, <2>1, ClockRuns, NodePointsStep
<1>3. PICK rows \in MergeRows(db.np[m.id], Collapse(m.pts), now) :
          db'.np = [db.np EXCEPT ![m.id] = rows] /\ db'.ep = db.ep
  BY <1>2 DEF NodeWritten
<1>4. StoredPoints(m) = Collapse(m.pts) /\ RowsAt(db, PlaceOf(m)) = db.np[m.id]
  BY <1>1 DEF StoredPoints, RowsAt
<1>5. RowsAt(db', PlaceOf(m)) = rows
  BY <1>1, <1>3 DEF RowsAt
<1>6. ASSUME NEW a \in Place, a # PlaceOf(m)
      PROVE  RowsAt(db', a) = RowsAt(db, a)
  <2>1. a[1] = Blank => a[2] \in Node /\ a[2] # m.id
    BY <1>1, <1>6 DEF Place
  <2> QED BY <1>1, <1>3, <2>1 DEF RowsAt
<1> QED BY <1>1, <1>2, <1>3, <1>4, <1>5, <1>6, PlaceApplied

\* handleEdgePoints: its commit applies the message it has taken.
LEMMA EdgeCommitApplies ==
    ASSUME MsgsUnambiguous, TInv, EdgeCommit
    PROVE  \E now \in Time \ {0} : newestBar' = AppliedTo(Kept(edgeH.msg), now)
<1> DEFINE m == edgeH.msg
           e == <<m.parent, m.id>>
<1>1. /\ m \in EdgeMsgs /\ m \in Msg /\ m.parent # Blank /\ m.id \in Node
      /\ m.parent \in Hop
      /\ m.pts \in Seq(Point) /\ Unambiguous(m.pts) /\ PlaceOf(m) = e
      /\ db \in DB /\ db.ep \in [EdgeId -> Rows] /\ e \in EdgeId
  BY MsgType DEF MsgsUnambiguous, EdgeCommit, TInv, TypeOK, Busy, PlaceOf, DB,
                 EdgeId, Hop
<1>2. PICK now \in Time \ {0} : EdgeWritten(db, db', m.id, m.parent, m.pts, now)
  <2>1. PICK now \in Clock(m.pts) : db' \in EdgeWrites(db, m.id, m.parent, m.pts, now)
    BY DEF EdgeCommit
  <2> QED BY <1>1, <2>1, ClockRuns, EdgeWritesStep
<1>3. PICK rows \in MergeRows(db.ep[e],
                       {p \in Collapse(m.pts) : p.typ # "nodeType"}, now) :
          db'.ep = [db.ep EXCEPT ![e] = rows] /\ db'.np = db.np
  BY <1>2 DEF EdgeWritten
<1>4. /\ StoredPoints(m) = {p \in Collapse(m.pts) : p.typ # "nodeType"}
      /\ RowsAt(db, PlaceOf(m)) = db.ep[e]
  BY <1>1 DEF StoredPoints, RowsAt
<1>5. RowsAt(db', PlaceOf(m)) = rows
  BY <1>1, <1>3 DEF RowsAt
<1>6. ASSUME NEW a \in Place, a # PlaceOf(m)
      PROVE  RowsAt(db', a) = RowsAt(db, a)
  <2>1. a[1] # Blank => a \in EdgeId /\ a # e
    BY <1>1, <1>6 DEF Place, EdgeId
  <2> HIDE DEF e
  <2> QED BY <1>1, <1>3, <2>1 DEF RowsAt
<1> QED BY <1>1, <1>2, <1>3, <1>4, <1>5, <1>6, PlaceApplied

-----------------------------------------------------------------------------
(* Steps *)

\* The batches of a port.
Batches(p) == {Kept(m) : m \in IF p = "p" THEN NodeMsgs ELSE EdgeMsgs}

\* A step of one port is a step of the ledger.
LEMMA LedgerStep ==
    ASSUME NEW p \in {"p", "e"}, NEW new, NEW B,
           portBar' = [portBar EXCEPT ![p] = new],
           \/ /\ portBar[p] = [st |-> "free", batch |-> {}]
              /\ new = [st |-> "taken", batch |-> B] /\ B \in Batches(p)
              /\ newestBar' = newestBar /\ acked' = acked
           \/ /\ portBar[p] = [st |-> "taken", batch |-> B]
              /\ new = [st |-> "applied", batch |-> B]
              /\ \E now \in Time \ {0} : newestBar' = AppliedTo(B, now)
              /\ acked' = acked
           \/ /\ portBar[p] = [st |-> "taken", batch |-> B]
              /\ new \in {[st |-> "refused", batch |-> B], [st |-> "free", batch |-> {}]}
              /\ newestBar' = newestBar /\ acked' = acked
           \/ /\ portBar[p] = [st |-> "applied", batch |-> B]
              /\ new = [st |-> "free", batch |-> {}]
              /\ newestBar' = newestBar /\ acked' = Newest(acked \cup B)
           \/ /\ portBar[p] = [st |-> "refused", batch |-> B]
              /\ new = [st |-> "free", batch |-> {}]
              /\ newestBar' = newestBar /\ acked' = acked
    PROVE  L!Next
<1>1. L!Free = [st |-> "free", batch |-> {}] /\ \A W : L!Latest(W) = Newest(W)
  BY DEF L!Free, L!Latest, Newest
<1>2. ASSUME NEW s, portBar[p] = [st |-> "taken", batch |-> B]
      PROVE  [portBar EXCEPT ![p].st = s]
                 = [portBar EXCEPT ![p] = [st |-> s, batch |-> B]]
  <2>1. [portBar[p] EXCEPT !.st = s] = [st |-> s, batch |-> B]
    BY <1>2, SMT
  <2> QED BY <2>1, Zenon
<1>3. ASSUME portBar[p] = L!Free, B \in Batches(p),
             new = [st |-> "taken", batch |-> B],
             newestBar' = newestBar, acked' = acked
      PROVE  L!Take(p)
  BY <1>3 DEF L!Take, portBar, newestBar, Batches
<1>4. ASSUME portBar[p] = [st |-> "taken", batch |-> B],
             new = [st |-> "applied", batch |-> B],
             NEW now \in Time \ {0}, newestBar' = AppliedTo(B, now),
             acked' = acked
      PROVE  L!Apply(p)
  <2>1. portBar' = [portBar EXCEPT ![p].st = "applied"]
    BY <1>2, <1>4
  <2>2. portBar[p].st = "taken" /\ portBar[p].batch = B
    BY <1>4
  <2> QED BY <1>4, <2>1, <2>2 DEF L!Apply, portBar, newestBar, AppliedTo
<1>5. ASSUME portBar[p] = [st |-> "taken", batch |-> B],
             new \in {[st |-> "refused", batch |-> B], L!Free},
             newestBar' = newestBar, acked' = acked
      PROVE  L!Refuse(p)
  <2>1. portBar' \in {[portBar EXCEPT ![p].st = "refused"], [portBar EXCEPT ![p] = L!Free]}
    BY <1>2, <1>5
  <2>2. portBar[p].st = "taken"
    BY <1>5
  <2> QED BY <1>5, <2>1, <2>2 DEF L!Refuse, portBar, newestBar
<1>6. ASSUME portBar[p] = [st |-> "applied", batch |-> B], new = L!Free,
             newestBar' = newestBar, acked' = L!Latest(acked \cup B)
      PROVE  L!Acknowledge(p)
  <2>1. portBar[p].st = "applied" /\ portBar[p].batch = B
    BY <1>6
  <2> QED BY <1>6, <2>1 DEF L!Acknowledge, portBar, newestBar
<1>7. ASSUME portBar[p] = [st |-> "refused", batch |-> B], new = L!Free,
             newestBar' = newestBar, acked' = acked
      PROVE  L!Dismiss(p)
  BY <1>7 DEF L!Dismiss, portBar, newestBar
<1> QED BY <1>1, <1>3, <1>4, <1>5, <1>6, <1>7 DEF L!Next

\* The inductive invariant: an error is remembered only by the p.*.* handler,
\* and only until its reply, so a commit is never taken for a refusal.
ErrInv == ~nodeH.err /\ (edgeH.pc # "walk" => ~edgeH.err)

\* ErrInv is an invariant.
LEMMA ErrInvariant == Spec => []ErrInv
<1>1. Init => ErrInv
  BY DEF Init, ErrInv, IdleHandler
<1>2. TInv /\ [Next]_vars /\ ErrInv => ErrInv'
  <2> SUFFICES ASSUME TInv, [Next]_vars, ErrInv PROVE ErrInv'
    OBVIOUS
  <2>0. nodeH \in Handler /\ edgeH \in Handler
    BY DEF TInv, TypeOK
  <2>1. nodeH'.err = nodeH.err \/ nodeH'.err = FALSE
    <3>1. CASE NodeReceive \/ NodeCommit \/ NodeVisit \/ EdgeCommit
      BY <2>0, <3>1 DEF NodeReceive, NodeCommit, NodeVisit, EdgeCommit, Handler,
                        StartWalk, Visit
    <3>2. CASE nodeH' \in {nodeH, IdleHandler}
      BY <3>2 DEF IdleHandler
    <3> QED BY <3>1, <3>2 DEF Next, vars, NodeFail, NodeReply, EdgeReceive,
               EdgeRefuse, EdgeFail, EdgeDiverge, EdgeVisit, EdgeReply, ReadEdges,
               ReadEdgePoints, ReadNodePoints, Answer, Restart
  <2>2. edgeH'.pc # "walk" => ~edgeH'.err
    <3>1. CASE EdgeReceive \/ EdgeDiverge
      BY <2>0, <3>1 DEF EdgeReceive, EdgeDiverge, Handler, ErrInv
    <3>2. CASE EdgeCommit \/ EdgeRefuse \/ EdgeFail \/ EdgeVisit
      <4>1. edgeH'.pc = "walk"
        BY <2>0, <3>2 DEF EdgeCommit, EdgeRefuse, EdgeFail, EdgeVisit, Handler,
                          StartWalk, Visit
      <4> QED BY <4>1
    <3>3. CASE edgeH' \in {edgeH, IdleHandler}
      BY <3>3 DEF IdleHandler, ErrInv
    <3> QED BY <3>1, <3>2, <3>3 DEF Next, vars, NodeReceive, NodeCommit, NodeFail,
               NodeVisit, NodeReply, EdgeReply, ReadEdges,
               ReadEdgePoints, ReadNodePoints, Answer, Restart
  <2> QED BY <2>1, <2>2 DEF ErrInv
<1> QED BY <1>1, <1>2, TypeInvariant, PTL DEF Spec

\* The port of a handler, by its phase.
LEMMA PortPhase ==
    ASSUME NEW h
    PROVE  /\ h.pc = "idle" => PortOf(h) = [st |-> "free", batch |-> {}]
           /\ h.pc \in {"wait", "diverged"} =>
                  PortOf(h) = [st |-> "taken", batch |-> Kept(h.msg)]
           /\ h.pc = "walk" /\ ~h.err =>
                  PortOf(h) = [st |-> "applied", batch |-> Kept(h.msg)]
           /\ h.pc = "walk" /\ h.err =>
                  PortOf(h) = [st |-> "refused", batch |-> Kept(h.msg)]
BY PhaseOf DEF PortOf

\* A handler that has the same phase and message has the same port.
LEMMA PortSame ==
    ASSUME NEW h, NEW g, g.pc = h.pc, g.msg = h.msg, g.err = h.err
    PROVE  PortOf(g) = PortOf(h)
<1>1. Phase(g) = Phase(h)
  BY Zenon DEF Phase
<1> QED BY <1>1 DEF PortOf

\* Only one port changes, or none.
LEMMA PortChanges ==
    /\ PortOf(edgeH') = PortOf(edgeH) =>
           portBar' = [portBar EXCEPT !["p"] = PortOf(nodeH')]
    /\ PortOf(nodeH') = PortOf(nodeH) =>
           portBar' = [portBar EXCEPT !["e"] = PortOf(edgeH')]
    /\ PortOf(nodeH') = PortOf(nodeH) /\ PortOf(edgeH') = PortOf(edgeH) =>
           portBar' = portBar
    /\ portBar["p"] = PortOf(nodeH) /\ portBar["e"] = PortOf(edgeH)
BY PortBar

\* The steps of the p.* handler are steps of the ledger.
LEMMA NodeRefines ==
    ASSUME MsgsUnambiguous, TInv, ErrInv,
           NodeReceive \/ NodeCommit \/ NodeFail \/ NodeVisit \/ NodeReply
    PROVE  L!Next \/ UNCHANGED L!ledger
<1>0. nodeH \in Handler /\ ~nodeH.err /\ db \in DB
      /\ (nodeH.pc # "idle" => nodeH.msg \in NodeMsgs /\ nodeH.msg \in Msg)
  BY MsgType DEF TInv, TypeOK, Busy, ErrInv
<1>1. edgeH' = edgeH
  BY DEF NodeReceive, NodeCommit, NodeFail, NodeVisit, NodeReply
<1>2. /\ portBar' = [portBar EXCEPT !["p"] = PortOf(nodeH')]
      /\ portBar["p"] = PortOf(nodeH)
  BY <1>1, PortChanges
<1>3. db' = db => newestBar' = newestBar
  BY DEF newestBar
<1>4. IdleHandler.pc = "idle"
  BY IdleType
<1>5. CASE NodeReceive
  <2>1. PICK m \in NodeMsgs : nodeH' = [nodeH EXCEPT !.pc = "wait", !.msg = m]
    BY <1>5 DEF NodeReceive
  <2>2. nodeH'.pc = "wait" /\ nodeH'.msg = m /\ nodeH.pc = "idle"
    BY <1>0, <1>5, <2>1 DEF NodeReceive, Handler
  <2>3. PortOf(nodeH') = [st |-> "taken", batch |-> Kept(m)]
        /\ PortOf(nodeH) = [st |-> "free", batch |-> {}]
    BY <2>2, PortPhase
  <2>4. Kept(m) \in Batches("p")
    BY DEF Batches
  <2> QED BY <1>2, <1>3, <1>5, <2>3, <2>4, LedgerStep DEF NodeReceive
<1>6. CASE NodeCommit
  <2>1. nodeH' = StartWalk(nodeH, LiveUp(db)) /\ nodeH.pc = "wait" /\ acked' = acked
    BY <1>6 DEF NodeCommit
  <2>2. nodeH'.pc = "walk" /\ nodeH'.msg = nodeH.msg /\ nodeH'.err = nodeH.err
    <3>1. PICK E \in SUBSET EdgeId : E = LiveUp(db)
      BY <1>0, LiveUpType
    <3>2. PICK h \in Handler : h = nodeH
      BY <1>0
    <3>3. h.msg \in Msg /\ nodeH' = StartWalk(h, E)
      BY <1>0, <2>1, <3>1, <3>2
    <3> QED BY <3>2, <3>3, StartWalkType
  <2>3. PortOf(nodeH') = [st |-> "applied", batch |-> Kept(nodeH.msg)]
        /\ PortOf(nodeH) = [st |-> "taken", batch |-> Kept(nodeH.msg)]
    BY <1>0, <2>1, <2>2, PortPhase
  <2>4. PICK now \in Time \ {0} : newestBar' = AppliedTo(Kept(nodeH.msg), now)
    BY <1>6, NodeCommitApplies
  <2> QED BY <1>2, <2>1, <2>3, <2>4, LedgerStep
<1>7. CASE NodeFail
  <2>1. PortOf(nodeH') = [st |-> "free", batch |-> {}]
        /\ PortOf(nodeH) = [st |-> "taken", batch |-> Kept(nodeH.msg)]
    BY <1>4, <1>7, PortPhase DEF NodeFail
  <2> QED BY <1>2, <1>3, <1>7, <2>1, LedgerStep DEF NodeFail
<1>8. CASE NodeVisit
  <2>1. PICK x \in Head(nodeH.todo) : nodeH' = Visit(nodeH, x, FALSE)
    BY <1>8 DEF NodeVisit
  <2>2. nodeH'.pc = nodeH.pc /\ nodeH'.msg = nodeH.msg /\ nodeH'.err = nodeH.err
    BY <1>0, <1>8, <2>1, VisitType DEF NodeVisit
  <2>3. PortOf(nodeH') = PortOf(nodeH)
    BY <2>2, PortSame
  <2>4. portBar' = portBar /\ newestBar' = newestBar /\ acked' = acked
    BY <1>1, <1>3, <1>8, <2>3, PortChanges DEF NodeVisit
  <2> QED BY <2>4 DEF L!ledger, portBar, newestBar
<1>9. CASE NodeReply
  <2>1. PortOf(nodeH') = [st |-> "free", batch |-> {}]
        /\ PortOf(nodeH) = [st |-> "applied", batch |-> Kept(nodeH.msg)]
    BY <1>0, <1>4, <1>9, PortPhase DEF NodeReply
  <2> QED BY <1>2, <1>3, <1>9, <2>1, LedgerStep DEF NodeReply
<1> QED BY <1>5, <1>6, <1>7, <1>8, <1>9

\* The steps of the p.*.* handler are steps of the ledger.
LEMMA EdgeRefines ==
    ASSUME MsgsUnambiguous, TInv, TInv', ErrInv,
           \/ EdgeReceive \/ EdgeCommit \/ EdgeRefuse \/ EdgeFail
           \/ EdgeDiverge \/ EdgeVisit \/ EdgeReply
    PROVE  L!Next \/ UNCHANGED L!ledger
<1>0. nodeH \in Handler /\ edgeH \in Handler /\ db \in DB /\ db' \in DB
      /\ (edgeH.pc # "idle" => edgeH.msg \in EdgeMsgs /\ edgeH.msg \in Msg)
      /\ (edgeH.pc # "walk" => ~edgeH.err)
  BY MsgType DEF TInv, TypeOK, Busy, ErrInv
<1>1. PortOf(nodeH') = PortOf(nodeH)
  <2>1. nodeH'.pc = nodeH.pc /\ nodeH'.msg = nodeH.msg /\ nodeH'.err = nodeH.err
    BY <1>0 DEF EdgeReceive, EdgeCommit, EdgeRefuse, EdgeFail, EdgeDiverge, EdgeVisit,
                EdgeReply, Handler
  <2> QED BY <2>1, PortSame
<1>2. /\ portBar' = [portBar EXCEPT !["e"] = PortOf(edgeH')]
      /\ portBar["e"] = PortOf(edgeH)
  BY <1>1, PortChanges
<1>3. db' = db => newestBar' = newestBar
  BY DEF newestBar
<1>4. IdleHandler.pc = "idle"
  BY IdleType
<1>5. CASE EdgeReceive
  <2>1. PICK m \in EdgeMsgs : edgeH' = [edgeH EXCEPT !.pc = "wait", !.msg = m]
    BY <1>5 DEF EdgeReceive
  <2>2. edgeH'.pc = "wait" /\ edgeH'.msg = m /\ edgeH.pc = "idle"
    BY <1>0, <1>5, <2>1 DEF EdgeReceive, Handler
  <2>3. PortOf(edgeH') = [st |-> "taken", batch |-> Kept(m)]
        /\ PortOf(edgeH) = [st |-> "free", batch |-> {}]
    BY <2>2, PortPhase
  <2>4. Kept(m) \in Batches("e")
    BY DEF Batches
  <2> QED BY <1>2, <1>3, <1>5, <2>3, <2>4, LedgerStep DEF EdgeReceive
<1>6. CASE EdgeCommit
  <2>1. edgeH' = StartWalk(edgeH, db'.edges) /\ edgeH.pc = "wait" /\ acked' = acked
    BY <1>6 DEF EdgeCommit
  <2>2. edgeH'.pc = "walk" /\ edgeH'.msg = edgeH.msg /\ edgeH'.err = edgeH.err
    <3>1. PICK E \in SUBSET EdgeId : E = db'.edges
      BY <1>0, LiveUpType
    <3>2. edgeH.msg \in Msg /\ edgeH' = StartWalk(edgeH, E)
      BY <1>0, <2>1, <3>1
    <3> QED BY <1>0, <3>2, StartWalkType
  <2>3. PortOf(edgeH') = [st |-> "applied", batch |-> Kept(edgeH.msg)]
        /\ PortOf(edgeH) = [st |-> "taken", batch |-> Kept(edgeH.msg)]
    BY <1>0, <2>1, <2>2, PortPhase
  <2>4. PICK now \in Time \ {0} : newestBar' = AppliedTo(Kept(edgeH.msg), now)
    BY <1>6, EdgeCommitApplies
  <2> QED BY <1>2, <2>1, <2>3, <2>4, LedgerStep
<1>7. CASE EdgeRefuse \/ EdgeFail
  <2>1. /\ edgeH' = [StartWalk(edgeH, db.edges) EXCEPT !.err = TRUE]
        /\ edgeH.pc = "wait" /\ db' = db /\ acked' = acked
    BY <1>7 DEF EdgeRefuse, EdgeFail
  <2>2. edgeH'.pc = "walk" /\ edgeH'.msg = edgeH.msg /\ edgeH'.err = TRUE
    <3>1. PICK E \in SUBSET EdgeId : E = db.edges
      BY <1>0, LiveUpType
    <3>2. PICK h \in Handler : h = edgeH
      BY <1>0
    <3>3. h.msg \in Msg
      BY <1>0, <2>1, <3>2
    <3> DEFINE w == [StartWalk(h, E) EXCEPT !.err = TRUE]
    <3>4. w.msg = h.msg /\ w.pc = "walk" /\ w.err = TRUE
      BY <3>3, StartWalkType
    <3>5. edgeH' = w
      BY <2>1, <3>1, <3>2
    <3> HIDE DEF w
    <3> QED BY <3>2, <3>4, <3>5
  <2>3. PortOf(edgeH') = [st |-> "refused", batch |-> Kept(edgeH.msg)]
        /\ PortOf(edgeH) = [st |-> "taken", batch |-> Kept(edgeH.msg)]
    BY <1>0, <2>1, <2>2, PortPhase
  <2> QED BY <1>2, <1>3, <2>1, <2>3, LedgerStep
<1>8. CASE EdgeVisit \/ EdgeDiverge
  <2>1. PortOf(edgeH') = PortOf(edgeH)
    <3>1. CASE EdgeVisit
      <4>1. PICK x \in Head(edgeH.todo) : edgeH' = Visit(edgeH, x, TRUE)
        BY <3>1 DEF EdgeVisit
      <4>2. edgeH'.pc = edgeH.pc /\ edgeH'.msg = edgeH.msg /\ edgeH'.err = edgeH.err
        BY <1>0, <3>1, <4>1, VisitType DEF EdgeVisit
      <4> QED BY <4>2, PortSame
    <3>2. CASE EdgeDiverge
      <4>1. edgeH.pc = "wait" /\ edgeH'.pc = "diverged" /\ edgeH'.msg = edgeH.msg
        BY <1>0, <3>2 DEF EdgeDiverge, Handler
      <4> QED BY <4>1, PortPhase
    <3> QED BY <1>8, <3>1, <3>2
  <2>2. portBar' = portBar /\ newestBar' = newestBar /\ acked' = acked
    BY <1>1, <1>3, <1>8, <2>1, PortChanges DEF EdgeVisit, EdgeDiverge
  <2> QED BY <2>2 DEF L!ledger, portBar, newestBar
<1>9. CASE EdgeReply
  <2>1. PortOf(edgeH') = [st |-> "free", batch |-> {}] /\ edgeH.pc = "walk"
    BY <1>4, <1>9, PortPhase DEF EdgeReply
  <2>2. CASE edgeH.err
    <3>1. PortOf(edgeH) = [st |-> "refused", batch |-> Kept(edgeH.msg)]
      BY <2>1, <2>2, PortPhase
    <3> QED BY <1>2, <1>3, <1>9, <2>1, <2>2, <3>1, LedgerStep DEF EdgeReply
  <2>3. CASE ~edgeH.err
    <3>1. PortOf(edgeH) = [st |-> "applied", batch |-> Kept(edgeH.msg)]
      BY <2>1, <2>3, PortPhase
    <3> QED BY <1>2, <1>3, <1>9, <2>1, <2>3, <3>1, LedgerStep DEF EdgeReply
  <2> QED BY <2>2, <2>3
<1> QED BY <1>5, <1>6, <1>7, <1>8, <1>9

\* Requests leave the ledger alone, and a restart is a crash of it.
LEMMA OtherRefines ==
    ASSUME \/ ReadEdges \/ ReadEdgePoints \/ ReadNodePoints \/ Answer
           \/ Restart \/ UNCHANGED vars
    PROVE  L!Next \/ UNCHANGED L!ledger
<1>1. newestBar' = newestBar /\ acked' = acked
  BY DEF newestBar, ReadEdges, ReadEdgePoints, ReadNodePoints, Answer, Restart, vars
<1>2. CASE Restart
  <2>1. PortOf(nodeH') = L!Free /\ PortOf(edgeH') = L!Free
    BY <1>2, IdleType, PortPhase DEF Restart, L!Free
  <2>2. portBar' = [p \in {"p", "e"} |-> L!Free]
    BY <2>1, PortBar
  <2> QED BY <1>1, <2>2 DEF L!Next, L!Crash, portBar, newestBar
<1>3. CASE UNCHANGED <<nodeH, edgeH>>
  <2>1. portBar' = portBar
    BY <1>3, PortBar
  <2> QED BY <1>1, <2>1 DEF L!ledger, portBar, newestBar
<1> QED BY <1>2, <1>3 DEF ReadEdges, ReadEdgePoints, ReadNodePoints, Answer, vars

\* A store that has just been made is an initial state of the ledger.
LEMMA InitRefines == Init => L!Init
<1> SUFFICES ASSUME Init PROVE L!Init
  OBVIOUS
<1>1. db \in DB
  BY TypeInit DEF TInv, TypeOK
<1>2. \A a \in Place : RowsAt(db, a) \in Rows
  BY <1>1 DEF Place, RowsAt, DB, EdgeId
<1>3. \A rows \in Rows, k \in Ident : FirstTime(rows, k) \in Time \cup {L!Never}
  <2>1. \A p \in Point : p.time \in Time
    BY DEF Point
  <2> QED BY <2>1 DEF Rows, FirstTime, L!Never
<1>4. newestBar \in [Place -> [Ident -> Time \cup {L!Never}]]
  BY <1>2, <1>3, NewestBar
<1>5. portBar = [p \in {"p", "e"} |-> L!Free]
  <2>1. PortOf(nodeH) = L!Free /\ PortOf(edgeH) = L!Free
    BY IdleType, PortPhase DEF Init, L!Free
  <2> QED BY <2>1, PortBar
<1> QED BY <1>4, <1>5 DEF Init, L!Init, portBar, newestBar

\* handleNodePoints, handleEdgePoints: as long as no message names a point
\* twice, the store is the ledger of module Ledger.  Whatever clients send,
\* however the handlers interleave, fail and restart, every batch is stored in
\* one step, as a whole or not at all, nothing stored is taken back or made
\* older, and an empty reply comes only after its batch was stored.
THEOREM StoreImplementsLedger ==
    ASSUME MsgsUnambiguous
    PROVE  Spec => ImplementsLedger
<1>1. TInv /\ TInv' /\ ErrInv /\ [Next]_vars => L!Next \/ UNCHANGED L!ledger
  BY NodeRefines, EdgeRefines, OtherRefines DEF Next
<1>2. TInv /\ TInv' /\ ErrInv /\ [Next]_vars => [L!Next]_(L!ledger)
  BY <1>1
<1> QED BY <1>2, InitRefines, TypeInvariant, ErrInvariant, PTL
        DEF Spec, ImplementsLedger, L!Spec

-----------------------------------------------------------------------------
(* Points belong to edges that there are *)

\* An edge that is not in the table has no points.
NoStrayPoints == \A e \in EdgeId \ db.edges : db.ep[e] = NoRows

\* NoStrayPoints is an invariant.
LEMMA NoStrayInvariant == Spec => []NoStrayPoints
<1>1. Init => NoStrayPoints
  BY InitRootDB DEF Init, NoStrayPoints
<1>2. TInv /\ [Next]_vars /\ NoStrayPoints => NoStrayPoints'
  <2> SUFFICES ASSUME TInv, [Next]_vars, NoStrayPoints PROVE NoStrayPoints'
    OBVIOUS
  <2>1. CASE db' = db
    BY <2>1 DEF NoStrayPoints
  <2>2. ASSUME NEW now \in Time, nodeH.msg \in NodeMsgs,
               NodeWritten(db, db', nodeH.msg.id, nodeH.msg.pts, now)
        PROVE  NoStrayPoints'
    BY <2>2 DEF NodeWritten, NoStrayPoints
  <2>3. ASSUME NEW now \in Time, edgeH.msg \in EdgeMsgs,
               EdgeWritten(db, db', edgeH.msg.id, edgeH.msg.parent, edgeH.msg.pts, now)
        PROVE  NoStrayPoints'
    <3> DEFINE e == <<edgeH.msg.parent, edgeH.msg.id>>
    <3>1. /\ db'.edges = db.edges \cup {e}
          /\ \E rows \in Rows : db'.ep = [db.ep EXCEPT ![e] = rows]
          /\ db.ep \in [EdgeId -> Rows]
      BY <2>3 DEF EdgeWritten, TInv, TypeOK, DB
    <3> HIDE DEF e
    <3> QED BY <3>1 DEF NoStrayPoints
  <2> QED BY <2>1, <2>2, <2>3, DbStep
<1> QED BY <1>1, <1>2, TypeInvariant, PTL DEF Spec

\* A place that holds a version is a node or an edge that there is.
LEMMA StoredHasEdge ==
    ASSUME TInv, NoStrayPoints, NEW w \in Version, Stored(db, w), w.at[1] # Blank
    PROVE  w.at \in db.edges
<1>1. w.at \in EdgeId /\ w.k \in Ident
  BY DEF Version, Place, EdgeId
<1>2. CASE w.at \notin db.edges
  <2>1. RowsAt(db, w.at) = NoRows
    BY <1>1, <1>2 DEF NoStrayPoints, RowsAt
  <2>2. NoRows[w.k] = <<>>
    BY <1>1 DEF NoRows
  <2> QED BY <2>1, <2>2 DEF Stored, Holds
<1> QED BY <1>2

-----------------------------------------------------------------------------
(* What a request must find *)

\* Everything that was announced or acknowledged is stored.
LEMMA PublishedStored ==
    ASSUME TInv, DInv
    PROVE  /\ Published \subseteq Version
           /\ \A w \in Published : Stored(db, w)
<1>1. acked \subseteq Version /\ \A w \in acked : Stored(db, w)
  BY DEF TInv, TypeOK, DInv, AckedDurable
<1>2. ASSUME NEW h \in {nodeH, edgeH}, h.told # {}, ~h.err
      PROVE  Kept(h.msg) \subseteq Version /\ \A w \in Kept(h.msg) : Stored(db, w)
  <2>1. h.pc = "walk" /\ \A w \in Kept(h.msg) : Stored(db, w)
    BY <1>2 DEF DInv, Announces
  <2>2. h.msg \in Msg
    BY <2>1, MsgType DEF TInv, Busy
  <2> QED BY <2>1, <2>2, KeptType
<1> QED BY <1>1, <1>2 DEF Published

\* The edges that a request names by a parent or a node.
Names(req, e) ==
    IF req.parent = "all" THEN e[2] = req.id
    ELSE e[1] = req.parent /\ req.id \in {"all", e[2]}

\* They are the ones getNodes looks for, whatever the root is.
LEMMA MatchesNames ==
    ASSUME NEW req, NEW e, req.parent # "root"
    PROVE  Matches(req, e) <=> Names(req, e)
BY DEF Matches, Names

-----------------------------------------------------------------------------
(* The answer as far as it was read *)

\* What has been read of the edge points and of the node points is not older
\* than what the request needs.
EdgePointsFresh ==
    \A w \in reader.need :
        w.at \in reader.edges => Holds(reader.ep[w.at], w.k, w.time)

NodePointsFresh ==
    \A w \in reader.need :
        w.at[1] = Blank /\ (\E e \in reader.edges : e[2] = w.at[2]) =>
            Holds(reader.np[w.at[2]], w.k, w.time)

\* No edge that the request names and that it needs is left out.
EdgesFound ==
    \A w \in reader.need :
        w.at[1] # Blank /\ reader.req.includeDel =>
            \/ w.at \in reader.edges
            \/ reader.req.parent = "root"
            \/ ~Names(reader.req, w.at)

\* The inductive invariant: what the request needs was stored when it came in
\* and stays so, and each query finds it.
FreshInv ==
    /\ reader.need \subseteq Version
    /\ reader.edges \subseteq EdgeId
    /\ \A w \in reader.need : Stored(db, w)
    /\ reader.pc # "idle" => EdgesFound
    /\ reader.pc \in {"points", "answered"} => EdgePointsFresh
    /\ reader.pc = "answered" => NodePointsFresh

\* An idle reader needs nothing.
LEMMA IdleFresh ==
    IdleReader.need = {} /\ IdleReader.edges = {} /\ IdleReader.pc = "idle"
BY DEF IdleReader

\* What a request needs stays stored while the others write.
LEMMA NeedStays ==
    ASSUME TInv, TInv', [Next]_vars, FreshInv
    PROVE  \A w \in reader.need : w \in Version /\ Stored(db', w)
BY StoredStays DEF FreshInv

\* The first query.
LEMMA ReadEdgesFresh ==
    ASSUME TInv, DInv, NoStrayPoints, ReadEdges
    PROVE  FreshInv'
<1>1. PICK req \in Requests :
          LET E == {e \in db.edges : Matches(req, e)} IN
          reader' = [IdleReader EXCEPT
                         !.pc    = IF E = {} THEN "answered" ELSE "edges",
                         !.req   = req,
                         !.need  = Published,
                         !.edges = E,
                         !.hash  = [e \in E |-> db.hash[e]]]
  BY DEF ReadEdges
<1> DEFINE E == {e \in db.edges : Matches(req, e)}
<1>2. E \in SUBSET EdgeId /\ E \in SUBSET db.edges /\ db' = db
  BY DEF TInv, TypeOK, DB, ReadEdges
<1>3. /\ reader'.need = Published /\ reader'.edges = E /\ reader'.req = req
      /\ reader'.pc = IF E = {} THEN "answered" ELSE "edges"
  BY <1>1 DEF IdleReader
<1>4. Published \subseteq Version /\ \A w \in Published : Stored(db, w)
  BY PublishedStored
<1>5. ASSUME NEW w \in Published, w.at[1] # Blank, req.parent # "root", Names(req, w.at)
      PROVE  w.at \in E
  <2>1. w.at \in db.edges
    BY <1>4, <1>5, StoredHasEdge
  <2> QED BY <1>5, <2>1, MatchesNames
<1> HIDE DEF E
<1>6. EdgesFound'
  BY <1>3, <1>5 DEF EdgesFound, Names
<1>7. E = {} => EdgePointsFresh' /\ NodePointsFresh'
  BY <1>3 DEF EdgePointsFresh, NodePointsFresh
<1>8. \A w \in reader'.need : Stored(db', w)
  BY <1>2, <1>3, <1>4
<1> QED BY <1>2, <1>3, <1>4, <1>6, <1>7, <1>8 DEF FreshInv, Stored

\* A version that is stored at an edge that was read is among its points.
LEMMA StoredAtEdge ==
    ASSUME NEW w \in Version, Stored(db, w), w.at \in EdgeId
    PROVE  Holds(db.ep[w.at], w.k, w.time)
<1>1. w.at[1] # Blank
  BY DbAssumption, BlankIsNone DEF EdgeId
<1> QED BY <1>1 DEF Stored, RowsAt

\* The second query: edges that are deleted are left out, unless the request
\* wants them.
LEMMA ReadEdgePointsFresh ==
    ASSUME TInv, FreshInv, ReadEdgePoints
    PROVE  FreshInv'
<1> DEFINE E == {e \in reader.edges : reader.req.includeDel \/ ~IsTombstone(db, e)}
<1>1. /\ reader'.need = reader.need /\ reader'.req = reader.req
      /\ reader'.edges = E /\ reader'.ep = [e \in E |-> db.ep[e]]
      /\ reader'.pc = IF E = {} THEN "answered" ELSE "points"
      /\ reader.pc = "edges" /\ db' = db
  BY DEF ReadEdgePoints, TInv, TypeOK, IdleReader
<1>2. /\ reader.need \subseteq Version /\ \A w \in reader.need : Stored(db, w)
      /\ reader.edges \subseteq EdgeId /\ EdgesFound
  BY <1>1 DEF FreshInv
<1>3. EdgesFound'
  BY <1>1, <1>2 DEF EdgesFound, Names
<1>4. EdgePointsFresh'
  BY <1>1, <1>2, StoredAtEdge DEF EdgePointsFresh
<1>5. E = {} => NodePointsFresh'
  BY <1>1 DEF NodePointsFresh
<1> HIDE DEF E
<1> QED BY <1>1, <1>2, <1>3, <1>4, <1>5 DEF FreshInv, Stored, E

\* The third query.
LEMMA ReadNodePointsFresh ==
    ASSUME TInv, FreshInv, ReadNodePoints
    PROVE  FreshInv'
<1>1. /\ reader'.need = reader.need /\ reader'.req = reader.req
      /\ reader'.edges = reader.edges /\ reader'.ep = reader.ep
      /\ reader'.np = [n \in {e[2] : e \in reader.edges} |-> db.np[n]]
      /\ reader'.pc = "answered" /\ reader.pc = "points" /\ db' = db
  BY DEF ReadNodePoints, TInv, TypeOK, IdleReader
<1>2. /\ reader.need \subseteq Version /\ \A w \in reader.need : Stored(db, w)
      /\ reader.edges \subseteq EdgeId /\ EdgesFound /\ EdgePointsFresh
  BY <1>1 DEF FreshInv
<1>3. EdgesFound'
  BY <1>1, <1>2 DEF EdgesFound, Names
<1>4. EdgePointsFresh'
  BY <1>1, <1>2 DEF EdgePointsFresh
<1>5. NodePointsFresh'
  BY <1>1, <1>2 DEF NodePointsFresh, Stored, RowsAt
<1> QED BY <1>1, <1>2, <1>3, <1>4, <1>5 DEF FreshInv, Stored

\* FreshInv is an invariant.
LEMMA FreshInvariant ==
    ASSUME MsgsUnambiguous
    PROVE  Spec => []FreshInv
<1>1. Init => FreshInv
  BY IdleFresh DEF Init, FreshInv
<1>2. TInv /\ TInv' /\ DInv /\ NoStrayPoints /\ [Next]_vars /\ FreshInv => FreshInv'
  <2> SUFFICES ASSUME TInv, TInv', DInv, NoStrayPoints, [Next]_vars, FreshInv
               PROVE  FreshInv'
    OBVIOUS
  <2>1. CASE ReadEdges
    BY <2>1, ReadEdgesFresh
  <2>2. CASE ReadEdgePoints
    BY <2>2, ReadEdgePointsFresh
  <2>3. CASE ReadNodePoints
    BY <2>3, ReadNodePointsFresh
  <2>4. CASE Answer \/ Restart
    BY <2>4, IdleFresh DEF Answer, Restart, FreshInv
  <2>5. CASE reader' = reader
    <3>1. \A w \in reader.need : Stored(db', w)
      BY NeedStays
    <3> QED BY <2>5, <3>1
            DEF FreshInv, EdgesFound, EdgePointsFresh, NodePointsFresh, Stored
  <2> QED BY <2>1, <2>2, <2>3, <2>4, <2>5
          DEF Next, vars, NodeReceive, NodeCommit, NodeFail, NodeVisit, NodeReply,
              EdgeReceive, EdgeCommit, EdgeRefuse, EdgeFail, EdgeDiverge, EdgeVisit,
              EdgeReply
<1> QED BY <1>1, <1>2, TypeInvariant, DurableInvariant, NoStrayInvariant, PTL DEF Spec

\* handleNodesRequest: as long as no message names a point twice, an answer
\* holds everything about its nodes that was acknowledged or announced before
\* the request, and with deleted nodes asked for it leaves none of them out,
\* whatever is written between its three queries.
THEOREM AnswersAreFresh ==
    ASSUME MsgsUnambiguous
    PROVE  Spec => []AnswersFresh
<1>1. FreshInv => AnswersFresh
  <2> SUFFICES ASSUME FreshInv, reader.pc = "answered", NEW w \in reader.need
               PROVE  /\ w.at \in reader.edges => Holds(reader.ep[w.at], w.k, w.time)
                      /\ w.at[1] = Blank /\ (\E e \in reader.edges : e[2] = w.at[2]) =>
                             Holds(reader.np[w.at[2]], w.k, w.time)
                      /\ w.at[1] # Blank /\ reader.req.includeDel =>
                             \/ w.at \in reader.edges
                             \/ reader.req.parent = "root"
                             \/ ~Matches(reader.req, w.at)
    BY DEF AnswersFresh
  <2>1. EdgesFound /\ EdgePointsFresh /\ NodePointsFresh
    BY DEF FreshInv
  <2>2. reader.req.parent # "root" =>
            (Matches(reader.req, w.at) <=> Names(reader.req, w.at))
    BY MatchesNames
  <2> QED BY <2>1, <2>2 DEF EdgesFound, EdgePointsFresh, NodePointsFresh
<1> QED BY <1>1, FreshInvariant, PTL

=============================================================================
