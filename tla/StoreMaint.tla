----------------------------- MODULE StoreMaint ------------------------------
(***************************************************************************)
(* verifyNodeHashes, which the store runs on admin.storeVerify and, with   *)
(* fix, on admin.storeMaint, in goroutines beside the ones that write      *)
(* points.  It goes down the tree from the root, child nodes first, and    *)
(* compares each stored hash with the computed one.  It reads through      *)
(* getNodes(nil, ...), which is not part of its transaction: every listing *)
(* of children sees the database of its moment, and none of its own        *)
(* updates.  Those reach the database together, at Commit.                 *)
(***************************************************************************)
EXTENDS SiotDb

CONSTANTS
    Root, Admin, AdminPoints,   \* as in Store
    Writes,       \* messages written while maintenance may run
    MaxWrites     \* bound on the number of writes

Msg == [id : Node, parent : Node \cup {"root", Blank}, pts : Seq(Point)]

ASSUME MaintAssumption ==
    /\ Root \in Node /\ Admin \in Node \ {Root}
    /\ AdminPoints \in Seq(Point)
    /\ Writes \subseteq Msg
    /\ MaxWrites \in Nat

VARIABLES
    db,       \* what SQLite has committed
    maint,    \* the running verifyNodeHashes
    writes,   \* writes made so far
    passes    \* history: fixing passes that ran to the end since the last write

vars == <<db, maint, writes, passes>>

-----------------------------------------------------------------------------
\* A node with its edge as getNodes returned it: hash is the stored hash and
\* own the hash of its points and its edge points.
Rec(e) ==
    [e |-> e, hash |-> db.hash[e],
     own |-> SymDiff(RowsHash(db.np[e[2]]), RowsHash(db.ep[e]))]

\* A call of verify: the node, its children as they were listed, and the
\* children it has not called itself for.  The bottom frame calls it for the
\* root.
Frame(rec, kids) == [rec |-> rec, kids |-> kids, todo |-> kids]

Idle == [pc |-> "idle", fix |-> FALSE, stack |-> <<>>, fixes |-> <<>>,
         alone |-> TRUE, sound |-> FALSE]

\* SQLite's write lock, which the first UPDATE of the transaction takes.
LockHeld == DOMAIN maint.fixes # {}

Init ==
    /\ db \in InitRoot(Root, Admin, AdminPoints)
    /\ maint = Idle
    /\ writes = 0
    /\ passes = 0

\* The transactions of nodePoints and edgePoints; Store has their handlers.
\* They wait for SQLite's write lock (busy_timeout).
Wrote ==
    /\ writes < MaxWrites
    /\ ~LockHeld
    /\ maint' = [maint EXCEPT !.alone = FALSE]
    /\ writes' = writes + 1
    /\ passes' = 0

WriteNode ==
    \E m \in {m \in Writes : m.parent = Blank} :
        /\ db' \in NodePoints(db, m.id, m.pts, 1)
        /\ Wrote

WriteEdge ==
    \E m \in {m \in Writes : m.parent # Blank} :
        /\ ~EdgePointsError(db, db.root, m.id, m.parent, m.pts)
        /\ ~Diverges(db.edges \cup {<<m.parent, m.id>>}, m.id)
        /\ db' \in EdgeWrites(db, m.id, m.parent, m.pts, 1)
        /\ Wrote

\* Begin, and read the root; alone and sound are histories: no write has run
\* beside the pass, and every hash was right when it began.
Start(fix) ==
    /\ maint.pc = "idle"
    /\ \E e \in EdgesDown(db.edges, db.root) :
           maint' = [Idle EXCEPT !.pc = "verify", !.fix = fix,
                                 !.stack = <<Frame(<<>>, {Rec(e)})>>,
                                 !.sound = HashesCorrect(db)]
    /\ UNCHANGED <<db, writes, passes>>

\* Call verify for a child: it starts with listing the children of that one,
\* deleted ones included.
Verify ==
    LET f == maint.stack[1]
        Called(rec) == [f EXCEPT !.todo = f.todo \ {rec}]
    IN
    /\ maint.pc = "verify"
    /\ \E rec \in f.todo :
           maint' = [maint EXCEPT !.stack =
               <<Frame(rec, {Rec(c) : c \in EdgesUp(db.edges, rec.e[2])}),
                 Called(rec)>> \o Tail(maint.stack)]
    /\ UNCHANGED <<db, writes, passes>>

\* Mutant: the children are left out.
CalcShallow(f) == f.rec.own

\* Mutant: the edge points are left out.
CalcNoEdge(f) ==
    SymDiff(RowsHash(db.np[f.rec.e[2]]), XorOver(f.kids, LAMBDA c : c.hash))

\* NodeEdge.CalcHash on what was read.
Calc(f) == SymDiff(f.rec.own, XorOver(f.kids, LAMBDA c : c.hash))

\* The children are done: compare, and UPDATE the edge when told to fix.
Return ==
    LET f == maint.stack[1] IN
    /\ maint.pc = "verify"
    /\ Len(maint.stack) > 1
    /\ f.todo = {}
    /\ maint' = [maint EXCEPT
           !.stack = Tail(@),
           !.fixes = IF maint.fix /\ Calc(f) # f.rec.hash
                     THEN [e \in DOMAIN @ \cup {f.rec.e} |->
                              IF e = f.rec.e THEN Calc(f) ELSE @[e]]
                     ELSE @]
    /\ UNCHANGED <<db, writes, passes>>

\* Commit, and reply: an empty string, whatever was found.
Commit ==
    /\ maint.pc = "verify"
    /\ Len(maint.stack) = 1
    /\ maint.stack[1].todo = {}
    /\ db' = [db EXCEPT !.hash = [e \in EdgeId |->
                  IF e \in DOMAIN maint.fixes THEN maint.fixes[e] ELSE @[e]]]
    /\ maint' = [maint EXCEPT !.pc = "done", !.stack = <<>>, !.fixes = <<>>]
    /\ passes' = IF maint.fix /\ maint.alone /\ passes < Cardinality(EdgeId)
                 THEN passes + 1 ELSE passes
    /\ UNCHANGED writes

Finish ==
    /\ maint.pc = "done"
    /\ maint' = Idle
    /\ UNCHANGED <<db, writes, passes>>

Next ==
    \/ WriteNode \/ WriteEdge
    \/ \E fix \in BOOLEAN : Start(fix)
    \/ Verify \/ Return \/ Commit \/ Finish

Spec == Init /\ [][Next]_vars

-----------------------------------------------------------------------------
(* Properties *)

\* The longest way down below a node, in edges.
Height(E, n) ==
    LET Below[k \in 0 .. Cardinality(Node)] ==
            IF k = 0 THEN {n} ELSE {e[2] : e \in {e \in E : e[1] \in Below[k-1]}}
    IN  Cardinality({k \in 0 .. Cardinality(Node) : Below[k] # {}}) - 1

\* verifyNodeHashes(true): a pass computes a node from the hashes its children
\* had before the pass, so one pass repairs one level.  With no write between,
\* as many passes as the tree has levels leave every hash right.
MaintConverges ==
    passes > Height(db.edges, db.root) => HashesCorrect(db)

\* verifyNodeHashes(true): a pass that no write ran beside changes nothing in
\* a store whose hashes were right.
NoSpuriousFix ==
    maint.alone /\ maint.sound => DOMAIN maint.fixes = {}

=============================================================================
