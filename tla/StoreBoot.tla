------------------------------ MODULE StoreBoot ------------------------------
(***************************************************************************)
(* How a store comes up: NewSqliteDb, with initMeta, runMigrations,        *)
(* initRoot and initJwtKey, and the reset of a process started with        *)
(* -resetStore.  Every statement that writes is a transaction of its own,  *)
(* and the process may die between any two of them.                        *)
(*                                                                         *)
(* uuid.New and a random key are the next one of a supply of fresh IDs.    *)
(***************************************************************************)
EXTENDS Naturals, FiniteSets

CONSTANTS
    GivenIDs,    \* Params.ID, the root IDs a configuration may ask for; 0 is ""
    Legacy,      \* whether a database of a version before 4 may exist
    Resets,      \* what -resetStore may ask for when the process starts
    MaxCrashes,  \* bound on the number of crashes
    MaxID        \* bound on the supply of IDs

ASSUME BootAssumption ==
    /\ GivenIDs \in SUBSET {0, 1} \ {{}}
    /\ Legacy \in BOOLEAN
    /\ Resets \in SUBSET {"no", "wanted"} \ {{}}
    /\ MaxCrashes \in Nat
    /\ MaxID \in Nat /\ MaxID > 2

ID == 0 .. MaxID        \* 0 is the empty string

Meta == [version : {0, 4}, root : ID, jwt : ID]

VARIABLES
    disk,      \* the tables: meta, root edges, user edges, user points, blank keys
    mem,       \* sdb.meta
    pc,        \* the next statement
    init,      \* initRoot's locals: the ID of the root and of the user
    reset,     \* whether this process resets the store: "no", "wanted", "done"
    nextID,
    crashes,
    served     \* history: sdb.meta of the last store that came up by itself,
               \* forgotten at a reset

vars == <<disk, mem, pc, init, reset, nextID, crashes, served>>

NoMeta == [version |-> 0, root |-> 0, jwt |-> 0]

EmptyDisk == [meta |-> {}, roots |-> {}, users |-> {}, named |-> {},
              blankNode |-> FALSE, blankEdge |-> FALSE]

\* What an earlier version of the program leaves: points with blank keys.
LegacyDisk == [meta  |-> {[version |-> 0, root |-> 2, jwt |-> 2]},
               roots |-> {2}, users |-> {<<3, 2>>}, named |-> {3},
               blankNode |-> TRUE, blankEdge |-> TRUE]

Init ==
    /\ disk \in {EmptyDisk} \cup (IF Legacy THEN {LegacyDisk} ELSE {})
    /\ mem = NoMeta
    /\ pc = "initMeta"
    /\ init = [root |-> 0, admin |-> 0]
    /\ reset \in Resets
    /\ nextID = 4
    /\ crashes = 0
    /\ served = NoMeta

Fresh == nextID =< MaxID /\ nextID' = nextID + 1

\* UPDATE meta SET ...: a table without rows stays without.
UpdateMeta(field, val) == {[row EXCEPT ![field] = val] : row \in disk.meta}

\* Mutant: every start makes a new key.
AfterRootNewKey(m) == "initJwtKey"

\* What NewSqliteDb does next, once the migrations or the root are in place.
AfterRoot(m) == IF m.jwt = 0 THEN "initJwtKey" ELSE "findRoot"

\* Mutant: the root is not made.
AfterMigrationsNoRoot(m) == AfterRoot(m)

AfterMigrations(m) == IF m.root = 0 THEN "rootEdge" ELSE AfterRoot(m)

-----------------------------------------------------------------------------
(* NewSqliteDb *)

InitMeta ==
    /\ pc = "initMeta"
    /\ mem' = IF disk.meta = {} THEN NoMeta ELSE CHOOSE row \in disk.meta : TRUE
    /\ disk' = IF disk.meta = {} THEN [disk EXCEPT !.meta = {NoMeta}] ELSE disk
    /\ pc' = IF mem'.version < 4 THEN "migrateNodes" ELSE AfterMigrations(mem')
    /\ UNCHANGED <<init, reset, nextID, crashes, served>>

MigrateNodes ==
    /\ pc = "migrateNodes"
    /\ disk' = [disk EXCEPT !.blankNode = FALSE]
    /\ pc' = "migrateEdges"
    /\ UNCHANGED <<mem, init, reset, nextID, crashes, served>>

MigrateEdges ==
    /\ pc = "migrateEdges"
    /\ disk' = [disk EXCEPT !.blankEdge = FALSE]
    /\ pc' = "migrateVersion"
    /\ UNCHANGED <<mem, init, reset, nextID, crashes, served>>

MigrateVersion ==
    /\ pc = "migrateVersion"
    /\ disk' = [disk EXCEPT !.meta = UpdateMeta("version", 4)]
    /\ mem' = [mem EXCEPT !.version = 4]
    /\ pc' = AfterMigrations(mem')
    /\ UNCHANGED <<init, reset, nextID, crashes, served>>

\* initRoot with the configured ID, or with the root to preserve after the
\* tables were emptied (resetting leaves it in mem).  edgePoints updates meta
\* in its own transaction when the root edge is new.
RootEdge ==
    /\ pc = "rootEdge"
    /\ \E given \in GivenIDs :
       LET want == IF mem.root # 0 THEN mem.root ELSE given
           id   == IF want # 0 THEN want ELSE nextID
           new  == id \notin disk.roots
       IN  /\ IF want # 0 THEN UNCHANGED nextID ELSE Fresh
           /\ init' = [init EXCEPT !.root = id]
           /\ disk' = [disk EXCEPT
                  !.roots = @ \cup {id},
                  !.meta  = IF new THEN UpdateMeta("root", id)
                            ELSE @]
           /\ mem' = [mem EXCEPT !.root = IF new THEN id ELSE @]
    /\ pc' = "adminPoints"
    /\ UNCHANGED <<reset, crashes, served>>

AdminPoints ==
    /\ pc = "adminPoints"
    /\ Fresh
    /\ init' = [init EXCEPT !.admin = nextID]
    /\ disk' = [disk EXCEPT !.named = @ \cup {nextID}]
    /\ pc' = "adminEdge"
    /\ UNCHANGED <<mem, reset, crashes, served>>

AdminEdge ==
    /\ pc = "adminEdge"
    /\ disk' = [disk EXCEPT !.users = @ \cup {<<init.admin, init.root>>}]
    /\ pc' = "setRoot"
    /\ UNCHANGED <<mem, init, reset, nextID, crashes, served>>

SetRoot ==
    /\ pc = "setRoot"
    /\ disk' = [disk EXCEPT !.meta = UpdateMeta("root", init.root)]
    /\ mem' = [mem EXCEPT !.root = init.root]
    /\ pc' = AfterRoot(mem')
    /\ UNCHANGED <<init, reset, nextID, crashes, served>>

\* Mutant: the key is not stored.
InitJwtKeyUnsaved ==
    /\ pc = "initJwtKey"
    /\ Fresh
    /\ mem' = [mem EXCEPT !.jwt = nextID]
    /\ pc' = "findRoot"
    /\ UNCHANGED <<disk, init, reset, crashes, served>>

InitJwtKey ==
    /\ pc = "initJwtKey"
    /\ Fresh
    /\ mem' = [mem EXCEPT !.jwt = nextID]
    /\ disk' = [disk EXCEPT !.meta = UpdateMeta("jwt", nextID)]
    /\ pc' = "findRoot"
    /\ UNCHANGED <<init, reset, crashes, served>>

\* "make sure we find root ID"; then the server resets or runs the store.
FindRoot ==
    /\ pc = "findRoot"
    /\ pc' = IF mem.root \notin disk.roots \cup {u[1] : u \in disk.users}
             THEN "failed"
             ELSE IF reset = "wanted" THEN "deleteMeta" ELSE "running"
    /\ served' = IF pc' = "running" /\ reset = "no" THEN mem ELSE served
    /\ UNCHANGED <<disk, mem, init, reset, nextID, crashes>>

-----------------------------------------------------------------------------
(* reset: empty four tables, then initRoot *)

DeleteMeta ==
    /\ pc = "deleteMeta"
    /\ disk' = [disk EXCEPT !.meta = {}]
    /\ reset' = "done"
    /\ served' = NoMeta
    /\ pc' = "deleteEdges"
    /\ UNCHANGED <<mem, init, nextID, crashes>>

DeleteEdges ==
    /\ pc = "deleteEdges"
    /\ disk' = [disk EXCEPT !.roots = {}, !.users = {}]
    /\ pc' = "deletePoints"
    /\ UNCHANGED <<mem, init, reset, nextID, crashes, served>>

DeletePoints ==
    /\ pc = "deletePoints"
    /\ disk' = [disk EXCEPT !.named = {}]
    /\ pc' = "rootEdge"
    /\ UNCHANGED <<mem, init, reset, nextID, crashes, served>>

-----------------------------------------------------------------------------
Boot ==
    \/ InitMeta \/ MigrateNodes \/ MigrateEdges \/ MigrateVersion
    \/ RootEdge \/ AdminPoints \/ AdminEdge \/ SetRoot \/ InitJwtKey \/ FindRoot
    \/ DeleteMeta \/ DeleteEdges \/ DeletePoints

\* The process dies, or is stopped, and is started again.
Crash ==
    /\ crashes < MaxCrashes
    /\ crashes' = crashes + 1
    /\ mem' = NoMeta
    /\ pc' = "initMeta"
    /\ init' = [root |-> 0, admin |-> 0]
    /\ reset' \in Resets
    /\ UNCHANGED <<disk, nextID, served>>

Next == Boot \/ Crash

Spec == Init /\ [][Next]_vars

\* The process is not stopped for ever in the middle of its start.
FairSpec == Spec /\ WF_vars(Boot)

-----------------------------------------------------------------------------
(* Properties *)

\* NewSqliteDb: a store that is up has stored the root and the key it works
\* with, so that the next start finds them, and no blank keys are left.  (Not
\* so after a reset, which leaves meta without a row.)
MetaStored ==
    pc = "running" /\ reset # "done" =>
        /\ disk.meta = {mem}
        /\ mem.root \in disk.roots
        /\ ~disk.blankNode /\ ~disk.blankEdge

\* NewSqliteDb: the root ID and the JWT key of an instance stay the same from
\* one start to the next, wherever the process died in between, until a reset.
IdentityKept == [][served # NoMeta => served' \in {served, NoMeta}]_vars

\* NewSqliteDb: the store comes up in the end, from whatever the crashed
\* starts left on disk.
ComesUp == <>(pc = "running")

=============================================================================
