----------------------------- MODULE MaintProofs -----------------------------
(***************************************************************************)
(* verifyNodeHashes in a store whose hashes are right, for every graph of  *)
(* nodes, mirrored ones included: a pass that no write runs beside finds   *)
(* nothing to repair.                                                      *)
(***************************************************************************)
EXTENDS StoreMaint, SequenceTheorems, FiniteSetTheorems, TLAPS

-----------------------------------------------------------------------------
(* XOR over what was read *)

\* The children of a node with their edges, as getNodes returns them.
Listed(n) == {Rec(c) : c \in EdgesUp(db.edges, n)}

\* A record tells its edge and the hash that is stored there.
LEMMA RecIs ==
    ASSUME NEW e
    PROVE  /\ Rec(e).e = e /\ Rec(e).hash = db.hash[e]
           /\ Rec(e).own = SymDiff(RowsHash(db.np[e[2]]), RowsHash(db.ep[e]))
BY DEF Rec

\* As many records have a token in their hash as edges do.
LEMMA SameCount ==
    ASSUME NEW S, NEW x, IsFiniteSet(S)
    PROVE  Cardinality({r \in {Rec(c) : c \in S} : x \in r.hash})
               = Cardinality({c \in S : x \in db.hash[c]})
<1> DEFINE A == {c \in S : x \in db.hash[c]}
           B == {r \in {Rec(c) : c \in S} : x \in r.hash}
           f == [c \in A |-> Rec(c)]
<1>1. IsFiniteSet(A)
  BY FS_Subset
<1>2. \A c \in A : Rec(c) \in B
  BY RecIs
<1>3. \A r \in B : \E c \in A : r = Rec(c)
  BY RecIs
<1>4. \A c, d \in A : Rec(c) = Rec(d) => c = d
  BY RecIs
<1> HIDE DEF A, B
<1>5. f \in [A -> B]
  BY <1>2
<1>6. f \in Bijection(A, B)
  <2>1. IsInjective(f)
    BY <1>4 DEF IsInjective
  <2>2. f \in Surjection(A, B)
    BY <1>3, <1>5 DEF Surjection
  <2> QED BY <1>5, <2>1, <2>2 DEF Bijection, Injection
<1>7. IsFiniteSet(B) /\ Cardinality(A) = Cardinality(B)
  <2> HIDE DEF f
  <2>1. ExistsBijection(A, B)
    BY <1>6 DEF ExistsBijection
  <2> QED BY <1>1, <2>1, FS_Bijection
<1> QED BY <1>7 DEF A, B

\* CalcHash on a listing that is up to date is CalcHash on the database.
LEMMA CalcIs ==
    ASSUME NEW e, IsFiniteSet(EdgesUp(db.edges, e[2])),
           NEW f, f.rec = Rec(e), f.kids = Listed(e[2])
    PROVE  Calc(f) = CalcHash(db, e)
<1> DEFINE S == EdgesUp(db.edges, e[2])
           K == {Rec(c) : c \in S}
           X == {x \in UNION {r.hash : r \in K} : Odd({r \in K : x \in r.hash})}
           Y == {x \in UNION {db.hash[c] : c \in S} : Odd({c \in S : x \in db.hash[c]})}
<1>1. UNION {r.hash : r \in K} = UNION {db.hash[c] : c \in S}
  <2> HIDE DEF S
  <2>1. \A c : Rec(c).hash = db.hash[c]
    BY RecIs
  <2>2. {r.hash : r \in K} = {db.hash[c] : c \in S}
    BY <2>1, Zenon
  <2> QED BY <2>2
<1>2. ASSUME NEW x PROVE Odd({r \in K : x \in r.hash}) <=> Odd({c \in S : x \in db.hash[c]})
  <2> HIDE DEF S
  <2>1. IsFiniteSet(S)
    BY DEF S
  <2> QED BY <2>1, SameCount DEF Odd
<1>3. X = Y
  <2> HIDE DEF S, K
  <2> QED BY <1>1, <1>2
<1>4. Calc(f) = SymDiff(Rec(e).own, X)
  BY Zenon DEF Calc, XorOver, Listed
<1>5. CalcHash(db, e) = SymDiff(SymDiff(RowsHash(db.np[e[2]]), RowsHash(db.ep[e])), Y)
  BY Zenon DEF CalcHash, XorOver
<1> HIDE DEF X, Y
<1> QED BY <1>3, <1>4, <1>5, RecIs

-----------------------------------------------------------------------------
(* The tables *)

\* The fields of a database, and its edges between nodes.
Shape(d) ==
    /\ d = [np |-> d.np, edges |-> d.edges, ep |-> d.ep,
            hash |-> d.hash, typ |-> d.typ, root |-> d.root]
    /\ d.edges \in SUBSET EdgeId

\* nodePoints adds no edge.
LEMMA NodeShape ==
    ASSUME NEW d, Shape(d), NEW id, NEW points, NEW now,
           NEW d2 \in NodePoints(d, id, points, now)
    PROVE  Shape(d2)
<1> DEFINE upd == HashUpdate(d.np[id], Collapse(points), now)
<1>1. PICK rows : d2 = [d EXCEPT !.np[id] = rows,
                                 !.hash = UpdateHash(d.edges, @, id, upd)]
  BY DEF NodePoints
<1> HIDE DEF upd
<1>2. PICK h : h = UpdateHash(d.edges, d.hash, id, upd)
  OBVIOUS
<1>3. d2 = [d EXCEPT !.np[id] = rows, !.hash = h]
  BY <1>1, <1>2
<1> QED BY <1>3 DEF Shape

\* edgePoints adds the edge that it is about.
LEMMA EdgeShape ==
    ASSUME NEW d, Shape(d), NEW id \in Node, NEW parent \in Node \cup {"root"},
           NEW points, NEW now, NEW d2 \in EdgeWrites(d, id, parent, points, now)
    PROVE  Shape(d2)
<1> DEFINE e    == <<parent, id>>
           pts  == {p \in Collapse(points) : p.typ # "nodeType"}
           new  == e \notin d.edges
           base == HashUpdate(d.ep[e], pts, now)
           upd  == IF new THEN SymDiff(base, RowsHash(d.np[id])) ELSE base
<1>1. PICK rows : d2 = [d EXCEPT !.ep[e]  = rows,
                                 !.edges  = @ \cup {e},
                                 !.typ[e] = IF new THEN NodeTypeOf(points) ELSE @,
                                 !.root   = IF new /\ parent = "root" THEN id ELSE @,
                                 !.hash   = UpdateHash(d.edges \cup {e}, @, id, upd)]
  BY DEF EdgeWrites
<1>2. e \in EdgeId
  BY DEF EdgeId
<1> HIDE DEF e, upd, new
<1>3. d2.edges = d.edges \cup {e}
  BY <1>1 DEF Shape
<1>4. d2 = [np |-> d2.np, edges |-> d2.edges, ep |-> d2.ep,
            hash |-> d2.hash, typ |-> d2.typ, root |-> d2.root]
  BY <1>1 DEF Shape
<1> QED BY <1>2, <1>3, <1>4 DEF Shape

\* What initRoot leaves.
LEMMA RootShape ==
    ASSUME NEW d \in InitRoot(Root, Admin, AdminPoints)
    PROVE  Shape(d)
<1>1. PICK d2 : d2 \in DB /\ d \in EdgeWrites(d2, Admin, Root, RootPoints("user"), 1)
  BY DEF InitRoot
<1>2. Shape(d2)
  BY <1>1 DEF DB, Shape
<1> QED BY <1>1, <1>2, EdgeShape, MaintAssumption

\* With finitely many nodes a listing is finite.
LEMMA FiniteEdges ==
    ASSUME IsFiniteSet(Node), NEW d, Shape(d), NEW n
    PROVE  IsFiniteSet(EdgesUp(d.edges, n))
<1>1. IsFiniteSet(Node \cup {"root"})
  BY FS_AddElement
<1>2. IsFiniteSet(EdgeId)
  BY <1>1, FS_Product DEF EdgeId
<1>3. EdgesUp(d.edges, n) \subseteq EdgeId
  BY DEF EdgesUp, Shape
<1> QED BY <1>2, <1>3, FS_Subset

-----------------------------------------------------------------------------
(* The pass *)

Recs == {Rec(e) : e \in db.edges}

Frames == [rec : Recs \cup {<<>>}, kids : SUBSET Recs, todo : SUBSET Recs]

\* A frame that was read from the database as it is now.
Current(f) == \E e \in db.edges : f.rec = Rec(e) /\ f.kids = Listed(e[2])

\* The fields of maint; repairs are collected during a pass only.
MaintType ==
    /\ maint = [pc |-> maint.pc, fix |-> maint.fix, stack |-> maint.stack,
                fixes |-> maint.fixes, alone |-> maint.alone, sound |-> maint.sound]
    /\ maint.pc # "verify" => DOMAIN maint.fixes = {}

\* While nothing has been written, what a pass in a sound store has read is what
\* is stored, and it has found nothing to repair.  The frame below all others
\* stands for the call for the root.
ReadInv ==
    maint.pc = "verify" /\ maint.alone /\ maint.sound =>
        /\ HashesCorrect(db)
        /\ DOMAIN maint.fixes = {}
        /\ maint.stack \in Seq(Frames) /\ maint.stack # <<>>
        /\ \A j \in 1 .. Len(maint.stack) - 1 : Current(maint.stack[j])

MaintInv == Shape(db) /\ MaintType /\ ReadInv

\* The fields that a step leaves alone.
LEMMA FieldsOf ==
    ASSUME NEW m, NEW p, NEW f, NEW k, NEW x, NEW a, NEW d, NEW t, NEW y,
           m = [pc |-> p, fix |-> f, stack |-> k, fixes |-> x, alone |-> a, sound |-> d]
    PROVE  /\ [m EXCEPT !.alone = t] =
                  [pc |-> p, fix |-> f, stack |-> k, fixes |-> x, alone |-> t, sound |-> d]
           /\ [m EXCEPT !.stack = t] =
                  [pc |-> p, fix |-> f, stack |-> t, fixes |-> x, alone |-> a, sound |-> d]
           /\ [m EXCEPT !.stack = t, !.fixes = y] =
                  [pc |-> p, fix |-> f, stack |-> t, fixes |-> y, alone |-> a, sound |-> d]
<1>1. [m EXCEPT !.alone = t] =
          [pc |-> p, fix |-> f, stack |-> k, fixes |-> x, alone |-> t, sound |-> d]
  OBVIOUS
<1>2. [m EXCEPT !.stack = t] =
          [pc |-> p, fix |-> f, stack |-> t, fixes |-> x, alone |-> a, sound |-> d]
  OBVIOUS
<1>3. [m EXCEPT !.stack = t, !.fixes = y] = [[m EXCEPT !.stack = t] EXCEPT !.fixes = y]
  BY Zenon
<1>4. [[pc |-> p, fix |-> f, stack |-> t, fixes |-> x, alone |-> a, sound |-> d]
           EXCEPT !.fixes = y] =
          [pc |-> p, fix |-> f, stack |-> t, fixes |-> y, alone |-> a, sound |-> d]
  OBVIOUS
<1> DEFINE A == [m EXCEPT !.stack = t]
           B == [pc |-> p, fix |-> f, stack |-> t, fixes |-> x, alone |-> a, sound |-> d]
           R == [pc |-> p, fix |-> f, stack |-> t, fixes |-> y, alone |-> a, sound |-> d]
<1>5. A = B /\ [B EXCEPT !.fixes = y] = R
  BY <1>2, <1>4
<1> HIDE DEF B, R
<1>6. [A EXCEPT !.fixes = y] = R
  BY <1>5, Zenon
<1> QED BY <1>1, <1>2, <1>3, <1>6 DEF R

\* What is read is the same as long as the database is.
LEMMA SameRead ==
    ASSUME db' = db
    PROVE  /\ Frames' = Frames
           /\ \A f : Current(f)' <=> Current(f)
           /\ HashesCorrect(db)' <=> HashesCorrect(db)
<1>1. \A e : Rec(e)' = Rec(e)
  BY Zenon DEF Rec
<1>2. Recs' = Recs /\ \A n : Listed(n)' = Listed(n)
  BY <1>1 DEF Recs, Listed
<1>3. Frames' = Frames
  BY <1>2 DEF Frames
<1>4. \A f : Current(f)' <=> Current(f)
  BY <1>1, <1>2 DEF Current
<1>5. HashesCorrect(db)' <=> HashesCorrect(db)
  BY Zenon
<1> QED BY <1>3, <1>4, <1>5

\* Two elements in the place of the first.
LEMMA Pushed ==
    ASSUME NEW S, NEW t \in Seq(S), t # <<>>, NEW f \in S, NEW g \in S
    PROVE  LET u == <<f, g>> \o Tail(t) IN
           /\ u \in Seq(S) /\ Len(u) = Len(t) + 1
           /\ u[1] = f /\ u[2] = g
           /\ \A j \in 3 .. Len(t) + 1 : u[j] = t[j-1]
<1>1. Tail(t) \in Seq(S) /\ Len(t) \in Nat /\ Len(t) > 0 /\ Len(Tail(t)) = Len(t) - 1
  OBVIOUS
<1>2. <<f, g>> \in Seq(S) /\ Len(<<f, g>>) = 2 /\ <<f, g>>[1] = f /\ <<f, g>>[2] = g
  OBVIOUS
<1>3. PICK a : a = <<f, g>>
  OBVIOUS
<1>4. PICK b : b = Tail(t)
  OBVIOUS
<1>5. a \in Seq(S) /\ b \in Seq(S) /\ Len(a) = 2 /\ Len(b) = Len(t) - 1
  BY <1>1, <1>2, <1>3, <1>4
<1>6. /\ a \o b \in Seq(S) /\ Len(a \o b) = Len(a) + Len(b)
      /\ \A i \in 1 .. Len(a) + Len(b) :
            (a \o b)[i] = IF i <= Len(a) THEN a[i] ELSE b[i - Len(a)]
  BY <1>5, ConcatProperties
<1>7. a \o b \in Seq(S) /\ Len(a \o b) = Len(t) + 1
  BY <1>1, <1>5, <1>6
<1>8. (a \o b)[1] = a[1] /\ (a \o b)[2] = a[2]
  BY <1>1, <1>5, <1>6
<1>9. ASSUME NEW j \in 3 .. Len(t) + 1 PROVE (a \o b)[j] = t[j-1]
  <2>1. (a \o b)[j] = b[j-2]
    BY <1>1, <1>5, <1>6
  <2>2. b[j-2] = t[j-1]
    BY <1>1, <1>4
  <2> QED BY <2>1, <2>2
<1> QED BY <1>2, <1>3, <1>4, <1>7, <1>8, <1>9

\* A call for a child lists the children of that one as they are now.
LEMMA VerifyReads ==
    ASSUME NEW t \in Seq(Frames), t # <<>>, NEW rec \in t[1].todo,
           \A j \in 1 .. Len(t) - 1 : Current(t[j]),
           NEW u, u = <<Frame(rec, {Rec(c) : c \in EdgesUp(db.edges, rec.e[2])}),
                        [t[1] EXCEPT !.todo = t[1].todo \ {rec}]>> \o Tail(t)
    PROVE  /\ u \in Seq(Frames) /\ u # <<>>
           /\ \A j \in 1 .. Len(u) - 1 : Current(u[j])
<1>1. t[1] \in Frames /\ Tail(t) \in Seq(Frames) /\ Len(t) \in Nat /\ Len(t) > 0
  OBVIOUS
<1>2. PICK e \in db.edges : rec = Rec(e)
  BY <1>1 DEF Frames, Recs
<1>3. rec.e = e
  BY <1>2, RecIs
<1> DEFINE F == Frame(rec, Listed(e[2]))
           G == [t[1] EXCEPT !.todo = t[1].todo \ {rec}]
<1>4. Listed(e[2]) \in SUBSET Recs
  BY DEF Listed, Recs, EdgesUp
<1>5. F \in Frames
  <2>1. rec \in Recs
    BY <1>2 DEF Recs
  <2> QED BY <1>4, <2>1 DEF Frames, Frame
<1>6. Current(F)
  BY <1>2 DEF Current, Frame
<1>7. G \in Frames /\ G.rec = t[1].rec /\ G.kids = t[1].kids
  BY <1>1 DEF Frames
<1>8. Len(t) > 1 => Current(G)
  <2>1. Len(t) > 1 => Current(t[1])
    BY <1>1
  <2> HIDE DEF G
  <2> QED BY <1>7, <2>1 DEF Current
<1>9. u = <<F, G>> \o Tail(t)
  BY <1>3 DEF Listed
<1> HIDE DEF F, G
<1>10. /\ u \in Seq(Frames) /\ Len(u) = Len(t) + 1
       /\ u[1] = F /\ u[2] = G
       /\ \A j \in 3 .. Len(t) + 1 : u[j] = t[j-1]
  <2>1. t \in Seq(Frames) /\ t # <<>>
    OBVIOUS
  <2>2. LET v == <<F, G>> \o Tail(t) IN
        /\ v \in Seq(Frames) /\ Len(v) = Len(t) + 1
        /\ v[1] = F /\ v[2] = G
        /\ \A j \in 3 .. Len(t) + 1 : v[j] = t[j-1]
    BY <1>5, <1>7, <2>1, Pushed
  <2> QED BY <1>9, <2>2, Zenon
<1>11. \A j \in 1 .. Len(u) - 1 : Current(u[j])
  <2> SUFFICES ASSUME NEW j \in 1 .. Len(t) PROVE Current(u[j])
    BY <1>1, <1>10
  <2>1. CASE j = 1
    BY <2>1, <1>6, <1>10
  <2>2. CASE j = 2
    <3>1. Len(t) > 1
      BY <2>2, <1>1
    <3>2. Current(G)
      BY <3>1, <1>8
    <3>3. u[j] = G
      BY <2>2, <1>10
    <3> QED BY <3>2, <3>3
  <2>3. CASE j > 2
    <3>1. j - 1 \in 1 .. Len(t) - 1 /\ j \in 3 .. Len(t) + 1
      BY <2>3, <1>1
    <3> QED BY <3>1, <1>10
  <2> QED BY <2>1, <2>2, <2>3, <1>1
<1> QED BY <1>1, <1>10, <1>11

\* Init
LEMMA MaintInit == Init => MaintInv
<1> SUFFICES ASSUME Init PROVE MaintInv
  OBVIOUS
<1>1. Shape(db)
  BY RootShape DEF Init
<1>2. MaintType
  BY DEF Init, Idle, MaintType
<1>3. maint.pc # "verify"
  BY DEF Init, Idle
<1> QED BY <1>1, <1>2, <1>3 DEF MaintInv, ReadInv

\* A write ends the claim that the pass is alone.
LEMMA WroteStep ==
    ASSUME MaintInv, Wrote PROVE MaintType' /\ ReadInv'
<1>1. maint' = [pc |-> maint.pc, fix |-> maint.fix, stack |-> maint.stack,
                fixes |-> maint.fixes, alone |-> FALSE, sound |-> maint.sound]
  BY FieldsOf DEF Wrote, MaintInv, MaintType
<1> QED BY <1>1 DEF MaintInv, MaintType, ReadInv

\* Start reads the root.
LEMMA StartStep ==
    ASSUME MaintInv, NEW fix, Start(fix) PROVE MaintInv'
<1>1. PICK e \in EdgesDown(db.edges, db.root) :
          maint' = [Idle EXCEPT !.pc = "verify", !.fix = fix,
                                !.stack = <<Frame(<<>>, {Rec(e)})>>,
                                !.sound = HashesCorrect(db)]
  BY DEF Start
<1>2. db' = db
  BY DEF Start
<1> DEFINE t == <<Frame(<<>>, {Rec(e)})>>
           h == HashesCorrect(db)
<1>3. t \in Seq(Frames) /\ Len(t) = 1 /\ t # <<>>
  <2>1. Rec(e) \in Recs
    BY <1>1 DEF EdgesDown, Recs
  <2>2. Frame(<<>>, {Rec(e)}) \in Frames
    BY <2>1 DEF Frames, Frame
  <2> QED BY <2>2
<1>4. h \in BOOLEAN
  BY DEF HashesCorrect
<1> HIDE DEF t, h
<1>5. maint' = [pc |-> "verify", fix |-> fix, stack |-> t, fixes |-> <<>>,
                alone |-> TRUE, sound |-> h]
  <2>1. maint' = [Idle EXCEPT !.pc = "verify", !.fix = fix, !.stack = t, !.sound = h]
    BY <1>1 DEF t, h
  <2> QED BY <2>1, Zenon DEF Idle
<1>6. MaintType'
  BY <1>5 DEF MaintType
<1>7. ReadInv'
  <2>1. maint'.sound = h /\ maint'.stack = t /\ DOMAIN maint'.fixes = {}
    BY <1>5
  <2>2. Frames' = Frames /\ (HashesCorrect(db)' <=> h)
    BY <1>2, SameRead DEF h
  <2> QED BY <2>1, <2>2, <1>3, <1>4 DEF ReadInv
<1>8. Shape(db)'
  BY <1>2 DEF MaintInv, Shape
<1> QED BY <1>6, <1>7, <1>8 DEF MaintInv

\* Verify reads one listing more.
LEMMA VerifyStep ==
    ASSUME MaintInv, Verify PROVE MaintInv'
<1> DEFINE New(rec) ==
               <<Frame(rec, {Rec(c) : c \in EdgesUp(db.edges, rec.e[2])}),
                 [maint.stack[1] EXCEPT !.todo = maint.stack[1].todo \ {rec}]>> \o Tail(maint.stack)
<1>1. PICK rec \in maint.stack[1].todo :
          maint' = [maint EXCEPT !.stack = New(rec)]
  BY Zenon DEF Verify
<1>2. db' = db /\ maint.pc = "verify"
  BY DEF Verify
<1>3. PICK u : u = New(rec)
  OBVIOUS
<1> HIDE DEF New
<1>4. maint' = [maint EXCEPT !.stack = u]
  BY <1>1, <1>3
<1>5. maint' = [pc |-> maint.pc, fix |-> maint.fix, stack |-> u,
                fixes |-> maint.fixes, alone |-> maint.alone, sound |-> maint.sound]
  BY <1>4, FieldsOf DEF MaintInv, MaintType
<1>6. MaintType'
  BY <1>5 DEF MaintInv, MaintType
<1>7. Shape(db)'
  BY <1>2 DEF MaintInv, Shape
<1>8. ReadInv'
  <2> SUFFICES ASSUME maint.alone, maint.sound
               PROVE  /\ HashesCorrect(db)'
                      /\ DOMAIN maint.fixes = {}
                      /\ u \in Seq(Frames') /\ u # <<>>
                      /\ \A j \in 1 .. Len(u) - 1 : Current(u[j])'
    <3>1. /\ maint'.stack = u /\ maint'.fixes = maint.fixes
          /\ maint'.alone = maint.alone /\ maint'.sound = maint.sound
      BY <1>5
    <3> QED BY <3>1 DEF ReadInv, Current
  <2>1. /\ HashesCorrect(db) /\ DOMAIN maint.fixes = {}
        /\ maint.stack \in Seq(Frames) /\ maint.stack # <<>>
        /\ \A j \in 1 .. Len(maint.stack) - 1 : Current(maint.stack[j])
    BY <1>2 DEF MaintInv, ReadInv
  <2>2. /\ u \in Seq(Frames) /\ u # <<>>
        /\ \A j \in 1 .. Len(u) - 1 : Current(u[j])
    BY <1>3, <2>1, VerifyReads DEF New
  <2>3. /\ Frames' = Frames
        /\ \A f : Current(f)' <=> Current(f)
        /\ HashesCorrect(db)' <=> HashesCorrect(db)
    BY <1>2, SameRead
  <2> QED BY <2>1, <2>2, <2>3
<1> QED BY <1>6, <1>7, <1>8 DEF MaintInv

\* The first element taken off.
LEMMA Popped ==
    ASSUME NEW S, NEW t \in Seq(S), Len(t) > 1
    PROVE  /\ Tail(t) \in Seq(S) /\ Len(Tail(t)) = Len(t) - 1 /\ Tail(t) # <<>>
           /\ \A j \in 1 .. Len(Tail(t)) : Tail(t)[j] = t[j+1]
<1>1. t # <<>> /\ Len(t) \in Nat
  OBVIOUS
<1>2. Tail(t) \in Seq(S) /\ Len(Tail(t)) = Len(t) - 1
  BY <1>1
<1>3. \A j \in 1 .. Len(t) - 1 : Tail(t)[j] = t[j+1]
  BY <1>1
<1>4. PICK v : v = Tail(t)
  OBVIOUS
<1>5. v # <<>>
  BY <1>2, <1>4
<1> QED BY <1>2, <1>3, <1>4, <1>5

\* Return in a sound store finds what is stored.
LEMMA ReturnStep ==
    ASSUME IsFiniteSet(Node), MaintInv, Return PROVE MaintInv'
<1> DEFINE f == maint.stack[1]
           x == IF maint.fix /\ Calc(f) # f.rec.hash
                THEN [e \in DOMAIN maint.fixes \cup {f.rec.e} |->
                         IF e = f.rec.e THEN Calc(f) ELSE maint.fixes[e]]
                ELSE maint.fixes
<1>1. maint' = [maint EXCEPT !.stack = Tail(maint.stack), !.fixes = x]
  BY DEF Return
<1>2. db' = db /\ maint.pc = "verify" /\ Len(maint.stack) > 1
  BY DEF Return
<1>3. maint.alone /\ maint.sound => x = maint.fixes
  <2> SUFFICES ASSUME maint.alone, maint.sound PROVE Calc(f) = f.rec.hash
    OBVIOUS
  <2>1. /\ HashesCorrect(db) /\ maint.stack \in Seq(Frames)
        /\ \A j \in 1 .. Len(maint.stack) - 1 : Current(maint.stack[j])
    BY <1>2 DEF MaintInv, ReadInv
  <2>2. Current(f)
    BY <1>2, <2>1
  <2> HIDE DEF f
  <2>3. PICK e \in db.edges : f.rec = Rec(e) /\ f.kids = Listed(e[2])
    BY <2>2 DEF Current
  <2>4. IsFiniteSet(EdgesUp(db.edges, e[2]))
    BY FiniteEdges DEF MaintInv
  <2>5. Calc(f) = CalcHash(db, e)
    BY <2>3, <2>4, CalcIs
  <2> QED BY <2>1, <2>3, <2>5, RecIs DEF HashesCorrect
<1> HIDE DEF x, f
<1>4. maint' = [pc |-> maint.pc, fix |-> maint.fix, stack |-> Tail(maint.stack),
                fixes |-> x, alone |-> maint.alone, sound |-> maint.sound]
  BY <1>1, FieldsOf DEF MaintInv, MaintType
<1>5. MaintType'
  BY <1>2, <1>4 DEF MaintType
<1>6. Shape(db)'
  BY <1>2 DEF MaintInv, Shape
<1>7. ReadInv'
  <2>5. PICK u : u = Tail(maint.stack)
    OBVIOUS
  <2>0. /\ maint'.stack = u /\ maint'.fixes = x
        /\ maint'.alone = maint.alone /\ maint'.sound = maint.sound
    BY <1>4, <2>5
  <2> SUFFICES ASSUME maint.alone, maint.sound
               PROVE  /\ HashesCorrect(db)'
                      /\ DOMAIN maint.fixes = {}
                      /\ u \in Seq(Frames') /\ u # <<>>
                      /\ \A j \in 1 .. Len(u) - 1 : Current(u[j])'
    <3> QED BY <2>0, <1>3 DEF ReadInv, Current
  <2>1. /\ HashesCorrect(db) /\ DOMAIN maint.fixes = {}
        /\ maint.stack \in Seq(Frames)
        /\ \A j \in 1 .. Len(maint.stack) - 1 : Current(maint.stack[j])
    BY <1>2 DEF MaintInv, ReadInv
  <2>2. /\ u \in Seq(Frames) /\ Len(u) = Len(maint.stack) - 1 /\ u # <<>>
        /\ \A j \in 1 .. Len(u) : u[j] = maint.stack[j+1]
    BY <1>2, <2>1, <2>5, Popped
  <2>3. \A j \in 1 .. Len(u) - 1 : Current(u[j])
    <3> SUFFICES ASSUME NEW j \in 1 .. Len(u) - 1 PROVE Current(u[j])
      OBVIOUS
    <3>1. j + 1 \in 1 .. Len(maint.stack) - 1 /\ u[j] = maint.stack[j+1]
      BY <1>2, <2>1, <2>2
    <3> QED BY <2>1, <3>1
  <2>4. /\ Frames' = Frames
        /\ \A g : Current(g)' <=> Current(g)
        /\ HashesCorrect(db)' <=> HashesCorrect(db)
    BY <1>2, SameRead
  <2> QED BY <2>1, <2>2, <2>3, <2>4
<1> QED BY <1>5, <1>6, <1>7 DEF MaintInv

\* Commit ends the pass.
LEMMA CommitStep ==
    ASSUME MaintInv, Commit PROVE MaintInv'
<1>1. PICK h : db' = [db EXCEPT !.hash = h]
  BY DEF Commit
<1>2. Shape(db)'
  BY <1>1 DEF MaintInv, Shape
<1>3. maint' = [pc |-> "done", fix |-> maint.fix, stack |-> <<>>,
                fixes |-> <<>>, alone |-> maint.alone, sound |-> maint.sound]
  <2>1. PICK p, f, k, x, a, d :
            maint = [pc |-> p, fix |-> f, stack |-> k, fixes |-> x, alone |-> a, sound |-> d]
    BY DEF MaintInv, MaintType
  <2>2. maint' = [maint EXCEPT !.pc = "done", !.stack = <<>>, !.fixes = <<>>]
    BY DEF Commit
  <2>3. maint' = [pc |-> "done", fix |-> f, stack |-> <<>>,
                  fixes |-> <<>>, alone |-> a, sound |-> d]
    BY <2>1, <2>2, Zenon
  <2> QED BY <2>1, <2>3
<1>4. MaintType' /\ maint'.pc # "verify"
  BY <1>3 DEF MaintType
<1> QED BY <1>2, <1>4 DEF MaintInv, ReadInv

\* A step of Next keeps what the pass has read up to date.
LEMMA MaintStep ==
    ASSUME IsFiniteSet(Node), MaintInv, [Next]_vars PROVE MaintInv'
<1>1. CASE WriteNode
  <2>1. PICK m : db' \in NodePoints(db, m.id, m.pts, 1)
    BY <1>1 DEF WriteNode
  <2>2. Shape(db')
    BY <2>1, NodeShape DEF MaintInv
  <2> QED BY <1>1, <2>2, WroteStep DEF WriteNode, MaintInv, Shape
<1>2. CASE WriteEdge
  <2>1. PICK m \in Writes : /\ m.parent # Blank
                            /\ db' \in EdgeWrites(db, m.id, m.parent, m.pts, 1)
    BY <1>2 DEF WriteEdge
  <2>2. m.id \in Node /\ m.parent \in Node \cup {"root"}
    BY <2>1, MaintAssumption DEF Msg
  <2>3. Shape(db')
    BY <2>1, <2>2, EdgeShape DEF MaintInv
  <2> QED BY <1>2, <2>3, WroteStep DEF WriteEdge, MaintInv, Shape
<1>3. CASE \E fix \in BOOLEAN : Start(fix)
  BY <1>3, StartStep
<1>4. CASE Verify
  BY <1>4, VerifyStep
<1>5. CASE Return
  BY <1>5, ReturnStep
<1>6. CASE Commit
  BY <1>6, CommitStep
<1>7. CASE Finish
  <2>1. MaintType' /\ maint'.pc # "verify"
    BY <1>7 DEF Finish, Idle, MaintType
  <2> QED BY <1>7, <2>1 DEF Finish, MaintInv, ReadInv, Shape
<1>8. CASE UNCHANGED vars
  <2>1. db' = db /\ maint' = maint
    BY <1>8 DEF vars
  <2>2. /\ Frames' = Frames
        /\ \A f : Current(f)' <=> Current(f)
        /\ HashesCorrect(db)' <=> HashesCorrect(db)
    BY <2>1, SameRead
  <2>3. Shape(db)' /\ MaintType'
    BY <2>1 DEF MaintInv, Shape, MaintType
  <2>4. ReadInv'
    BY <2>1, <2>2 DEF MaintInv, ReadInv, Current
  <2> QED BY <2>3, <2>4 DEF MaintInv
<1> QED BY <1>1, <1>2, <1>3, <1>4, <1>5, <1>6, <1>7, <1>8 DEF Next

\* verifyNodeHashes(true): a pass that no write ran beside changes nothing in a
\* store whose hashes were right, in every finite graph of nodes.
THEOREM SoundStaysUntouched ==
    ASSUME IsFiniteSet(Node)
    PROVE  Spec => []NoSpuriousFix
<1>1. Init => MaintInv
  BY MaintInit
<1>2. MaintInv /\ [Next]_vars => MaintInv'
  BY MaintStep
<1>3. MaintInv => NoSpuriousFix
  BY DEF MaintInv, MaintType, ReadInv, NoSpuriousFix
<1> QED BY <1>1, <1>2, <1>3, PTL DEF Spec

=============================================================================
