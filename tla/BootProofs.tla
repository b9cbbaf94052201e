----------------------------- MODULE BootProofs ------------------------------
(***************************************************************************)
(* A store that comes up has stored what it works with, and keeps its      *)
(* identity, wherever earlier starts were cut short.                       *)
(***************************************************************************)
EXTENDS StoreBoot, TLAPS

-----------------------------------------------------------------------------
(* Types *)

Disk == [meta : SUBSET Meta, roots : SUBSET ID, users : SUBSET (ID \X ID),
         named : SUBSET ID, blankNode : BOOLEAN, blankEdge : BOOLEAN]

Migrating == {"migrateNodes", "migrateEdges", "migrateVersion"}

\* The statements of initRoot that follow the root edge.
Rooting == {"adminPoints", "adminEdge", "setRoot"}

BootType ==
    /\ disk \in Disk
    /\ mem \in Meta
    /\ pc \in {"initMeta", "rootEdge", "initJwtKey", "findRoot", "running", "failed",
               "deleteMeta", "deleteEdges", "deletePoints"} \cup Migrating \cup Rooting
    /\ init \in [root : ID, admin : ID]
    /\ reset \in {"no", "wanted", "done"}
    /\ nextID \in Nat \ {0}
    /\ served \in Meta

\* 0 stands for the empty string, and the fixed IDs are IDs.
LEMMA IDs == {0, 1, 2, 3} \subseteq ID /\ GivenIDs \subseteq ID /\ NoMeta \in Meta
BY BootAssumption DEF ID, NoMeta, Meta

\* A new value for a field of a row of meta.
LEMMA MetaRow ==
    ASSUME NEW row \in Meta, NEW v \in ID
    PROVE  /\ [row EXCEPT !["root"] = v] \in Meta
           /\ [row EXCEPT !["root"] = v] = [row EXCEPT !.root = v]
           /\ [row EXCEPT !["jwt"] = v] \in Meta
           /\ [row EXCEPT !["jwt"] = v] = [row EXCEPT !.jwt = v]
           /\ [row EXCEPT !["version"] = 4] \in Meta
           /\ [row EXCEPT !["version"] = 4] = [row EXCEPT !.version = 4]
BY DEF Meta

\* An empty disk and one of an earlier version have their types.
LEMMA BootTypeInit == Init => BootType
<1>1. EmptyDisk \in Disk
  BY DEF EmptyDisk, Disk
<1>2. LegacyDisk \in Disk
  BY IDs DEF LegacyDisk, Disk, Meta
<1> QED
  BY <1>1, <1>2, IDs, BootAssumption DEF Init, BootType

\* UPDATE meta changes the rows there are.
LEMMA UpdateMetaType ==
    ASSUME BootType, NEW v \in ID
    PROVE  /\ UpdateMeta("root", v) \in SUBSET Meta
           /\ UpdateMeta("jwt", v) \in SUBSET Meta
           /\ UpdateMeta("version", 4) \in SUBSET Meta
<1>1. disk.meta \in SUBSET Meta
  BY DEF BootType, Disk
<1>2. UpdateMeta("root", v) \in SUBSET Meta
  BY <1>1, MetaRow DEF UpdateMeta
<1>3. UpdateMeta("jwt", v) \in SUBSET Meta
  BY <1>1, MetaRow DEF UpdateMeta
<1>4. UpdateMeta("version", 4) \in SUBSET Meta
  BY <1>1, MetaRow DEF UpdateMeta
<1> QED BY <1>2, <1>3, <1>4

\* The statements of a start keep the types.
LEMMA BootTypeStep ==
    ASSUME BootType, [Next]_vars
    PROVE  BootType'
<1> USE DEF BootType
<1>0. /\ disk.meta \in SUBSET Meta /\ disk.roots \in SUBSET ID
      /\ disk.users \in SUBSET (ID \X ID) /\ disk.named \in SUBSET ID
      /\ disk.blankNode \in BOOLEAN /\ disk.blankEdge \in BOOLEAN
      /\ init.root \in ID /\ init.admin \in ID
  BY DEF Disk
<1>1. CASE InitMeta
  <2>1. mem' \in Meta
    BY <1>0, <1>1, IDs DEF InitMeta
  <2>2. [disk EXCEPT !.meta = {NoMeta}] \in Disk
    BY <1>0, IDs DEF Disk
  <2> QED
    BY <1>1, <2>1, <2>2 DEF InitMeta, AfterMigrations, AfterRoot, Migrating
<1>2. CASE MigrateNodes \/ MigrateEdges
  BY <1>0, <1>2 DEF MigrateNodes, MigrateEdges, Disk, Migrating
<1>3. CASE MigrateVersion
  <2>1. UpdateMeta("version", 4) \in SUBSET Meta
    BY IDs, UpdateMetaType
  <2>2. disk' \in Disk
    BY <1>0, <1>3, <2>1 DEF MigrateVersion, Disk
  <2>3. mem' \in Meta
    BY <1>3 DEF MigrateVersion, Meta
  <2> QED
    BY <1>3, <2>2, <2>3 DEF MigrateVersion, AfterMigrations, AfterRoot
<1>4. CASE RootEdge
  <2>1. PICK given \in GivenIDs :
          LET want == IF mem.root # 0 THEN mem.root ELSE given
              id   == IF want # 0 THEN want ELSE nextID
              new  == id \notin disk.roots
          IN  /\ IF want # 0 THEN UNCHANGED nextID ELSE Fresh
              /\ init' = [init EXCEPT !.root = id]
              /\ disk' = [disk EXCEPT
                     !.roots = @ \cup {id},
                     !.meta  = IF new THEN UpdateMeta("root", id) ELSE @]
              /\ mem' = [mem EXCEPT !.root = IF new THEN id ELSE @]
    BY <1>4 DEF RootEdge
  <2> DEFINE want == IF mem.root # 0 THEN mem.root ELSE given
             id   == IF want # 0 THEN want ELSE nextID
  <2>2. want \in ID
    BY IDs DEF Meta
  <2>3. id \in ID /\ nextID' \in Nat \ {0}
    BY <2>1, <2>2 DEF Fresh, ID
  <2>4. UpdateMeta("root", id) \in SUBSET Meta
    BY <2>3, UpdateMetaType
  <2> HIDE DEF id
  <2>5. disk' \in Disk
    BY <1>0, <2>1, <2>3, <2>4 DEF Disk, id
  <2>6. mem' \in Meta /\ init' \in [root : ID, admin : ID]
    BY <2>1, <2>3 DEF Meta, id
  <2> QED
    BY <1>4, <2>3, <2>5, <2>6 DEF RootEdge, Rooting
<1>5. CASE AdminPoints
  <2>1. nextID \in ID /\ nextID' \in Nat \ {0}
    BY <1>5 DEF AdminPoints, Fresh, ID
  <2>2. disk' \in Disk /\ init' \in [root : ID, admin : ID]
    BY <1>0, <1>5, <2>1 DEF AdminPoints, Disk
  <2> QED
    BY <1>5, <2>1, <2>2 DEF AdminPoints, Rooting
<1>6. CASE AdminEdge
  BY <1>0, <1>6 DEF AdminEdge, Disk, Rooting
<1>7. CASE SetRoot
  <2>1. UpdateMeta("root", init.root) \in SUBSET Meta
    BY <1>0, UpdateMetaType
  <2>2. disk' \in Disk
    BY <1>0, <1>7, <2>1 DEF SetRoot, Disk
  <2>3. mem' \in Meta
    BY <1>0, <1>7 DEF SetRoot, Meta
  <2> QED
    BY <1>7, <2>2, <2>3 DEF SetRoot, AfterRoot
<1>8. CASE InitJwtKey
  <2>1. nextID \in ID /\ nextID' \in Nat \ {0}
    BY <1>8 DEF InitJwtKey, Fresh, ID
  <2>2. UpdateMeta("jwt", nextID) \in SUBSET Meta
    BY <2>1, UpdateMetaType
  <2>3. disk' \in Disk
    BY <1>0, <1>8, <2>2 DEF InitJwtKey, Disk
  <2>4. mem' \in Meta
    BY <1>8, <2>1 DEF InitJwtKey, Meta
  <2> QED
    BY <1>8, <2>1, <2>3, <2>4 DEF InitJwtKey
<1>9. CASE FindRoot
  BY <1>9 DEF FindRoot
<1>10. CASE DeleteMeta \/ DeleteEdges \/ DeletePoints
  BY <1>0, <1>10, IDs DEF DeleteMeta, DeleteEdges, DeletePoints, Disk
<1>11. CASE Crash
  BY <1>11, IDs, BootAssumption DEF Crash
<1>12. CASE UNCHANGED vars
  BY <1>12 DEF vars
<1> QED
  BY <1>1, <1>2, <1>3, <1>4, <1>5, <1>6, <1>7, <1>8, <1>9, <1>10, <1>11, <1>12
     DEF Next, Boot

-----------------------------------------------------------------------------
(* What is on disk *)

\* A start that has read meta works with the row that is on disk, and after
\* meta was emptied for a reset there is none.
RowInv ==
    /\ reset = "done" => disk.meta = {} /\ served = NoMeta /\ pc # "initMeta"
    /\ pc \in {"deleteEdges", "deletePoints"} => reset = "done"
    /\ pc # "initMeta" /\ reset # "done" => disk.meta = {mem}
    /\ pc = "initMeta" => disk.meta = {} \/ \E row \in Meta : disk.meta = {row}

\* A row that names a root has its edge beside it, and one of the current
\* version no blank keys.
ContentInv ==
    /\ \A row \in disk.meta :
           /\ row.root # 0 => row.root \in disk.roots
           /\ row.version = 4 => ~disk.blankNode /\ ~disk.blankEdge
    /\ pc \in {"migrateEdges", "migrateVersion"} => ~disk.blankNode
    /\ pc = "migrateVersion" => ~disk.blankEdge
    /\ pc \in Rooting => init.root # 0 /\ init.root \in disk.roots

\* How far a start has come.
ProgressInv ==
    /\ pc \notin {"initMeta"} \cup Migrating => mem.version = 4
    /\ pc \in {"initJwtKey", "findRoot", "running", "deleteMeta"} => mem.root # 0
    /\ pc \in {"findRoot", "running"} => mem.jwt # 0

\* What the last store that came up worked with is on disk, complete, so that
\* no later start has anything to make.
ServedInv ==
    served # NoMeta =>
        /\ disk.meta = {served}
        /\ served.version = 4 /\ served.root # 0 /\ served.jwt # 0
        /\ pc \in {"initMeta", "findRoot", "running", "failed", "deleteMeta"}

BootInv == BootType /\ RowInv /\ ContentInv /\ ProgressInv /\ ServedInv

\* UPDATE meta on the one row there is.
LEMMA UpdateRow ==
    ASSUME BootType, RowInv, NEW field, NEW v
    PROVE  /\ reset = "done" => UpdateMeta(field, v) = {}
           /\ reset # "done" /\ pc # "initMeta" =>
                  UpdateMeta(field, v) = {[mem EXCEPT ![field] = v]}
BY DEF UpdateMeta, RowInv

\* A new database and one of an earlier version are what a start expects.
LEMMA BootInit == Init => BootInv
<1> SUFFICES ASSUME Init PROVE BootInv
  OBVIOUS
<1>1. BootType
  BY BootTypeInit
<1>2. reset \in {"no", "wanted"} /\ pc = "initMeta" /\ served = NoMeta
  BY BootAssumption DEF Init
<1>3. CASE disk = EmptyDisk
  <2>1. disk.meta = {}
    BY <1>3 DEF EmptyDisk
  <2> QED
    BY <1>1, <1>2, <2>1 DEF BootInv, RowInv, ContentInv, ProgressInv, ServedInv,
                            Migrating, Rooting
<1>4. CASE disk = LegacyDisk
  <2> DEFINE row == [version |-> 0, root |-> 2, jwt |-> 2]
  <2>1. disk.meta = {row} /\ disk.roots = {2} /\ row.root = 2 /\ row.version = 0
    BY <1>4 DEF LegacyDisk
  <2>2. row \in Meta
    BY IDs DEF Meta
  <2> HIDE DEF row
  <2> QED
    BY <1>1, <1>2, <2>1, <2>2 DEF BootInv, RowInv, ContentInv, ProgressInv, ServedInv,
                                  Migrating, Rooting
<1> QED
  BY <1>3, <1>4 DEF Init

\* InitMeta reads the row, or makes it.
LEMMA InitMetaInv ==
    ASSUME BootInv, InitMeta
    PROVE  RowInv' /\ ContentInv' /\ ProgressInv' /\ ServedInv'
<1>1. /\ pc = "initMeta" /\ reset # "done" /\ reset' = reset /\ served' = served
      /\ pc' = IF mem'.version < 4 THEN "migrateNodes" ELSE AfterMigrations(mem')
  BY DEF InitMeta, BootInv, RowInv
<1>2. disk.roots \in SUBSET ID /\ disk \in Disk
  BY DEF BootInv, BootType, Disk
<1>3. /\ disk'.meta = {mem'} /\ disk'.roots = disk.roots
      /\ disk'.blankNode = disk.blankNode /\ disk'.blankEdge = disk.blankEdge
      /\ mem' \in Meta
      /\ mem' = NoMeta \/ disk.meta = {mem'}
  <2>1. CASE disk.meta = {}
    BY <1>2, <2>1, IDs DEF InitMeta, Disk
  <2>2. CASE disk.meta # {}
    <3>1. PICK row \in Meta : disk.meta = {row}
      BY <1>1, <2>2 DEF BootInv, RowInv
    <3>2. mem' = row /\ disk' = disk
      BY <2>2, <3>1 DEF InitMeta
    <3> QED
      BY <3>1, <3>2
  <2> QED
    BY <2>1, <2>2
<1>4. mem'.version \in {0, 4} /\ (mem'.version < 4 <=> mem'.version # 4)
  BY <1>3 DEF Meta
<1>5. /\ pc' \in {"migrateNodes", "rootEdge", "initJwtKey", "findRoot"}
      /\ pc' # "migrateNodes" => mem'.version = 4
      /\ pc' \in {"initJwtKey", "findRoot"} => mem'.root # 0
      /\ pc' = "findRoot" => mem'.jwt # 0
      /\ mem'.version = 4 /\ mem'.root # 0 /\ mem'.jwt # 0 => pc' = "findRoot"
  BY <1>1, <1>4 DEF AfterMigrations, AfterRoot
<1>6. NoMeta.root = 0 /\ NoMeta.version = 0
  BY DEF NoMeta
<1>7. RowInv'
  BY <1>1, <1>3, <1>5 DEF RowInv
<1>8. ContentInv'
  BY <1>3, <1>5, <1>6 DEF BootInv, ContentInv, Rooting
<1>9. ProgressInv'
  BY <1>5 DEF ProgressInv, Migrating
<1>10. ServedInv'
  <2>1. SUFFICES ASSUME served # NoMeta PROVE ServedInv'
    BY <1>1 DEF ServedInv
  <2>2. /\ disk.meta = {served} /\ served.version = 4 /\ served.root # 0
        /\ served.jwt # 0
    BY <2>1 DEF BootInv, ServedInv
  <2>3. mem' = served
    BY <2>2 DEF InitMeta
  <2> QED
    BY <1>1, <1>3, <1>5, <2>2, <2>3 DEF ServedInv
<1> QED
  BY <1>7, <1>8, <1>9, <1>10

\* The migrations.
LEMMA MigrateInv ==
    ASSUME BootInv, MigrateNodes \/ MigrateEdges \/ MigrateVersion
    PROVE  RowInv' /\ ContentInv' /\ ProgressInv' /\ ServedInv'
<1>1. /\ pc \in Migrating /\ reset' = reset /\ served' = served /\ init' = init
      /\ disk \in Disk /\ served = NoMeta
  BY DEF MigrateNodes, MigrateEdges, MigrateVersion, Migrating, BootInv, ServedInv,
         BootType
<1>2. CASE MigrateNodes
  <2>1. /\ disk'.meta = disk.meta /\ disk'.roots = disk.roots /\ ~disk'.blankNode
        /\ disk'.blankEdge = disk.blankEdge /\ mem' = mem
        /\ pc = "migrateNodes" /\ pc' = "migrateEdges"
    BY <1>1, <1>2 DEF MigrateNodes, Disk
  <2> QED
    BY <1>1, <2>1 DEF BootInv, RowInv, ContentInv, ProgressInv, ServedInv,
                      Migrating, Rooting
<1>3. CASE MigrateEdges
  <2>1. /\ disk'.meta = disk.meta /\ disk'.roots = disk.roots /\ ~disk'.blankEdge
        /\ disk'.blankNode = disk.blankNode /\ mem' = mem
        /\ pc = "migrateEdges" /\ pc' = "migrateVersion"
    BY <1>1, <1>3 DEF MigrateEdges, Disk
  <2> QED
    BY <1>1, <2>1 DEF BootInv, RowInv, ContentInv, ProgressInv, ServedInv,
                      Migrating, Rooting
<1>4. CASE MigrateVersion
  <2>1. mem \in Meta /\ pc = "migrateVersion"
    BY <1>4 DEF BootInv, BootType, MigrateVersion
  <2>2. /\ mem'.version = 4 /\ mem'.root = mem.root /\ mem'.jwt = mem.jwt
        /\ mem' = [mem EXCEPT !["version"] = 4]
    BY <1>4, <2>1, IDs, MetaRow DEF MigrateVersion, Meta
  <2>3. /\ reset = "done" => UpdateMeta("version", 4) = {}
        /\ reset # "done" => UpdateMeta("version", 4) = {mem'}
    BY <2>1, <2>2, UpdateRow DEF BootInv
  <2>4. /\ disk'.meta = UpdateMeta("version", 4) /\ disk'.roots = disk.roots
        /\ disk'.blankEdge = disk.blankEdge /\ disk'.blankNode = disk.blankNode
    BY <1>1, <1>4 DEF MigrateVersion, Disk
  <2>5. ~disk.blankNode /\ ~disk.blankEdge
    BY <2>1 DEF BootInv, ContentInv
  <2>6. /\ pc' \in {"rootEdge", "initJwtKey", "findRoot"}
        /\ pc' \in {"initJwtKey", "findRoot"} => mem'.root # 0
        /\ pc' = "findRoot" => mem'.jwt # 0
    BY <1>4 DEF MigrateVersion, AfterMigrations, AfterRoot
  <2>7. reset # "done" => disk.meta = {mem}
    BY <2>1 DEF BootInv, RowInv
  <2>8. RowInv'
    BY <1>1, <2>3, <2>4, <2>6 DEF RowInv, BootInv
  <2>9. ContentInv'
    <3>1. reset # "done" => (mem.root # 0 => mem.root \in disk.roots)
      BY <2>7 DEF BootInv, ContentInv
    <3>2. \A row \in disk'.meta : row = mem' /\ reset # "done"
      BY <2>3, <2>4
    <3> QED
      BY <2>2, <2>4, <2>5, <2>6, <3>1, <3>2 DEF ContentInv, Rooting
  <2>10. ProgressInv'
    BY <2>2, <2>6 DEF ProgressInv
  <2> QED
    BY <1>1, <2>8, <2>9, <2>10 DEF ServedInv
<1> QED
  BY <1>2, <1>3, <1>4

\* The root edge, which takes meta along when it is new.
LEMMA RootEdgeInv ==
    ASSUME BootInv, BootType', RootEdge
    PROVE  RowInv' /\ ContentInv' /\ ProgressInv' /\ ServedInv'
<1>1. /\ pc = "rootEdge" /\ pc' = "adminPoints" /\ reset' = reset /\ served' = served
      /\ disk \in Disk /\ mem \in Meta /\ served = NoMeta /\ mem.version = 4
      /\ init \in [root : ID, admin : ID] /\ nextID # 0
  BY DEF RootEdge, BootInv, BootType, ServedInv, ProgressInv, Migrating
<1>2. PICK id :
          /\ id \in ID /\ id # 0
          /\ init' = [init EXCEPT !.root = id]
          /\ disk' = [disk EXCEPT
                 !.roots = @ \cup {id},
                 !.meta  = IF id \notin disk.roots THEN UpdateMeta("root", id) ELSE @]
          /\ mem' = [mem EXCEPT !.root = IF id \notin disk.roots THEN id ELSE @]
  <2>1. PICK given \in GivenIDs :
          LET want == IF mem.root # 0 THEN mem.root ELSE given
              id   == IF want # 0 THEN want ELSE nextID
              new  == id \notin disk.roots
          IN  /\ IF want # 0 THEN UNCHANGED nextID ELSE Fresh
              /\ init' = [init EXCEPT !.root = id]
              /\ disk' = [disk EXCEPT
                     !.roots = @ \cup {id},
                     !.meta  = IF new THEN UpdateMeta("root", id) ELSE @]
              /\ mem' = [mem EXCEPT !.root = IF new THEN id ELSE @]
    BY DEF RootEdge
  <2> DEFINE want == IF mem.root # 0 THEN mem.root ELSE given
             i    == IF want # 0 THEN want ELSE nextID
  <2>2. i # 0
    BY <1>1
  <2>3. i \in ID
    <3>1. init' = [init EXCEPT !.root = i] /\ init' \in [root : ID, admin : ID]
      BY <2>1 DEF BootType
    <3>2. init'.root = i
      BY <1>1, <3>1
    <3> QED
      BY <3>1, <3>2
  <2> WITNESS i
  <2> QED
    BY <2>1, <2>2, <2>3
<1>3. init'.root = id /\ mem'.version = 4
  BY <1>1, <1>2 DEF Meta
<1>4. disk'.roots = disk.roots \cup {id}
      /\ disk'.blankNode = disk.blankNode /\ disk'.blankEdge = disk.blankEdge
  BY <1>1, <1>2 DEF Disk
<1>5. CASE id \in disk.roots
  <2>1. disk'.meta = disk.meta /\ mem' = mem
    BY <1>1, <1>2, <1>5 DEF Disk, Meta
  <2> QED
    BY <1>1, <1>2, <1>3, <1>4, <2>1 DEF BootInv, RowInv, ContentInv, ProgressInv,
                                        ServedInv, Migrating, Rooting
<1>6. CASE id \notin disk.roots
  <2>1. disk'.meta = UpdateMeta("root", id) /\ mem'.root = id
    BY <1>1, <1>2, <1>6 DEF Disk, Meta
  <2>2. mem' = [mem EXCEPT !["root"] = id]
    BY <1>1, <1>2, <1>6, MetaRow
  <2>3. /\ reset = "done" => disk'.meta = {}
        /\ reset # "done" => disk'.meta = {mem'} /\ disk.meta = {mem}
    BY <1>1, <2>1, <2>2, UpdateRow DEF BootInv, RowInv
  <2>4. \A row \in disk'.meta : row.root = id /\ ~disk.blankNode /\ ~disk.blankEdge
    BY <1>1, <2>1, <2>3 DEF BootInv, ContentInv
  <2>5. RowInv'
    BY <1>1, <2>3 DEF BootInv, RowInv
  <2>6. ContentInv'
    BY <1>1, <1>2, <1>3, <1>4, <2>4 DEF ContentInv
  <2> QED
    BY <1>1, <1>3, <2>5, <2>6 DEF ProgressInv, ServedInv
<1> QED
  BY <1>5, <1>6

\* The user below the root.
LEMMA AdminInv ==
    ASSUME BootInv, AdminPoints \/ AdminEdge
    PROVE  RowInv' /\ ContentInv' /\ ProgressInv' /\ ServedInv'
<1>1. /\ pc \in {"adminPoints", "adminEdge"} /\ pc' \in {"adminEdge", "setRoot"}
      /\ reset' = reset /\ served' = served /\ mem' = mem
      /\ disk \in Disk /\ served = NoMeta /\ init \in [root : ID, admin : ID]
  BY DEF AdminPoints, AdminEdge, BootInv, BootType, ServedInv
<1>2. /\ disk'.meta = disk.meta /\ disk'.roots = disk.roots
      /\ disk'.blankNode = disk.blankNode /\ disk'.blankEdge = disk.blankEdge
  BY <1>1 DEF AdminPoints, AdminEdge, Disk
<1>3. init'.root = init.root
  BY <1>1 DEF AdminPoints, AdminEdge
<1> QED
  BY <1>1, <1>2, <1>3 DEF BootInv, RowInv, ContentInv, ProgressInv, ServedInv,
                          Migrating, Rooting

\* meta gets the root ID.
LEMMA SetRootInv ==
    ASSUME BootInv, SetRoot
    PROVE  RowInv' /\ ContentInv' /\ ProgressInv' /\ ServedInv'
<1> DEFINE id == init.root
<1>1. /\ pc = "setRoot" /\ reset' = reset /\ served' = served
      /\ disk \in Disk /\ mem \in Meta /\ served = NoMeta /\ mem.version = 4
      /\ id \in ID /\ id # 0 /\ id \in disk.roots
      /\ disk' = [disk EXCEPT !.meta = UpdateMeta("root", id)]
      /\ mem' = [mem EXCEPT !.root = id]
      /\ pc' = AfterRoot(mem')
  BY DEF SetRoot, BootInv, BootType, ServedInv, ProgressInv, ContentInv, Migrating,
         Rooting
<1> HIDE DEF id
<1>2. mem'.version = 4 /\ mem'.root = id /\ mem' = [mem EXCEPT !["root"] = id]
  BY <1>1, MetaRow DEF Meta
<1>3. /\ disk'.meta = UpdateMeta("root", id) /\ disk'.roots = disk.roots
      /\ disk'.blankNode = disk.blankNode /\ disk'.blankEdge = disk.blankEdge
  BY <1>1 DEF Disk
<1>4. /\ reset = "done" => disk'.meta = {}
      /\ reset # "done" => disk'.meta = {mem'} /\ disk.meta = {mem}
  BY <1>1, <1>2, <1>3, UpdateRow DEF BootInv, RowInv
<1>5. \A row \in disk'.meta : row.root = id /\ ~disk.blankNode /\ ~disk.blankEdge
  BY <1>1, <1>2, <1>4 DEF BootInv, ContentInv
<1>6. pc' \in {"initJwtKey", "findRoot"} /\ (pc' = "findRoot" => mem'.jwt # 0)
  BY <1>1 DEF AfterRoot
<1>7. RowInv'
  BY <1>1, <1>4, <1>6 DEF BootInv, RowInv
<1>8. ContentInv'
  BY <1>1, <1>3, <1>5, <1>6 DEF ContentInv, Rooting
<1>9. ProgressInv'
  BY <1>1, <1>2, <1>6 DEF ProgressInv
<1> QED
  BY <1>1, <1>7, <1>8, <1>9 DEF ServedInv

\* meta gets the key.
LEMMA JwtKeyInv ==
    ASSUME BootInv, InitJwtKey
    PROVE  RowInv' /\ ContentInv' /\ ProgressInv' /\ ServedInv'
<1>1. /\ pc = "initJwtKey" /\ pc' = "findRoot" /\ reset' = reset /\ served' = served
      /\ disk \in Disk /\ mem \in Meta /\ served = NoMeta /\ mem.version = 4
      /\ mem.root # 0 /\ nextID \in ID /\ nextID # 0
      /\ disk' = [disk EXCEPT !.meta = UpdateMeta("jwt", nextID)]
      /\ mem' = [mem EXCEPT !.jwt = nextID]
  BY DEF InitJwtKey, BootInv, BootType, ServedInv, ProgressInv, Migrating, Fresh, ID
<1>2. /\ mem'.version = 4 /\ mem'.root = mem.root /\ mem'.jwt = nextID
      /\ mem' = [mem EXCEPT !["jwt"] = nextID]
  BY <1>1, MetaRow DEF Meta
<1>3. /\ disk'.meta = UpdateMeta("jwt", nextID) /\ disk'.roots = disk.roots
      /\ disk'.blankNode = disk.blankNode /\ disk'.blankEdge = disk.blankEdge
  BY <1>1 DEF Disk
<1>4. /\ reset = "done" => disk'.meta = {}
      /\ reset # "done" => disk'.meta = {mem'} /\ disk.meta = {mem}
  BY <1>1, <1>2, <1>3, UpdateRow DEF BootInv, RowInv
<1>5. \A row \in disk'.meta : /\ row.root \in disk.roots
                              /\ ~disk.blankNode /\ ~disk.blankEdge
  BY <1>1, <1>2, <1>4 DEF BootInv, ContentInv
<1>6. RowInv'
  BY <1>1, <1>4 DEF BootInv, RowInv
<1>7. ContentInv'
  BY <1>1, <1>3, <1>5 DEF ContentInv, Rooting
<1>8. ProgressInv'
  BY <1>1, <1>2 DEF ProgressInv
<1> QED
  BY <1>1, <1>6, <1>7, <1>8 DEF ServedInv

\* The store comes up, or its root is not found.
LEMMA FindRootInv ==
    ASSUME BootInv, FindRoot
    PROVE  RowInv' /\ ContentInv' /\ ProgressInv' /\ ServedInv'
<1>1. /\ pc = "findRoot" /\ pc' \in {"failed", "deleteMeta", "running"}
      /\ served' = IF pc' = "running" /\ reset = "no" THEN mem ELSE served
      /\ disk' = disk /\ mem' = mem /\ init' = init /\ reset' = reset
      /\ mem.version = 4 /\ mem.root # 0 /\ mem.jwt # 0
  BY DEF FindRoot, BootInv, ProgressInv, Migrating
<1>2. reset # "done" => disk.meta = {mem}
  BY <1>1 DEF BootInv, RowInv
<1>3. RowInv'
  BY <1>1, <1>2 DEF BootInv, RowInv
<1>4. ContentInv' /\ ProgressInv'
  BY <1>1 DEF BootInv, ContentInv, ProgressInv, Rooting
<1>5. ServedInv'
  BY <1>1, <1>2 DEF BootInv, ServedInv
<1> QED
  BY <1>3, <1>4, <1>5

\* The tables are emptied.
LEMMA DeleteInv ==
    ASSUME BootInv, DeleteMeta \/ DeleteEdges \/ DeletePoints
    PROVE  RowInv' /\ ContentInv' /\ ProgressInv' /\ ServedInv'
<1>1. /\ pc' \in {"deleteEdges", "deletePoints", "rootEdge"} /\ mem' = mem
      /\ disk \in Disk /\ mem.version = 4
  BY DEF DeleteMeta, DeleteEdges, DeletePoints, BootInv, BootType, ProgressInv,
         Migrating
<1>2. disk'.meta = {} /\ reset' = "done" /\ served' = NoMeta
  BY <1>1 DEF DeleteMeta, DeleteEdges, DeletePoints, BootInv, RowInv, Disk
<1> QED
  BY <1>1, <1>2 DEF RowInv, ContentInv, ProgressInv, ServedInv, Rooting

\* The process dies.
LEMMA CrashInv ==
    ASSUME BootInv, Crash
    PROVE  RowInv' /\ ContentInv' /\ ProgressInv' /\ ServedInv'
<1>1. /\ pc' = "initMeta" /\ disk' = disk /\ served' = served
      /\ reset' \in {"no", "wanted"}
  BY BootAssumption DEF Crash
<1>2. disk.meta = {} \/ \E row \in Meta : disk.meta = {row}
  BY DEF BootInv, BootType, RowInv
<1> QED
  BY <1>1, <1>2 DEF BootInv, RowInv, ContentInv, ProgressInv, ServedInv, Migrating,
                    Rooting

\* BootInv is inductive.
LEMMA BootStep == BootInv /\ [Next]_vars => BootInv'
<1> SUFFICES ASSUME BootInv, [Next]_vars PROVE BootInv'
  OBVIOUS
<1>1. BootType'
  BY BootTypeStep DEF BootInv
<1>2. CASE UNCHANGED vars
  BY <1>1, <1>2 DEF vars, BootInv, RowInv, ContentInv, ProgressInv, ServedInv
<1>3. CASE Next
  BY <1>1, <1>3, InitMetaInv, MigrateInv, RootEdgeInv, AdminInv, SetRootInv,
     JwtKeyInv, FindRootInv, DeleteInv, CrashInv DEF Next, Boot, BootInv
<1> QED
  BY <1>2, <1>3

\* BootInv is an invariant.
LEMMA BootInvariant == Spec => []BootInv
BY BootInit, BootStep, PTL DEF Spec

\* NewSqliteDb: a store that is up has its root and its key on disk, and no
\* blank keys, however often and wherever earlier starts and resets died.
THEOREM RunningIsStored == Spec => []MetaStored
<1>1. BootInv => MetaStored
  <2> SUFFICES ASSUME BootInv, pc = "running", reset # "done"
               PROVE  /\ disk.meta = {mem} /\ mem.root \in disk.roots
                      /\ ~disk.blankNode /\ ~disk.blankEdge
    BY DEF MetaStored
  <2>1. disk.meta = {mem} /\ mem.root # 0 /\ mem.version = 4
    BY DEF BootInv, RowInv, ProgressInv, Migrating
  <2> QED
    BY <2>1 DEF BootInv, ContentInv
<1> QED
  BY <1>1, BootInvariant, PTL

\* NewSqliteDb: between two resets every store that comes up has the root ID
\* and the JWT key of the one before.
THEOREM IdentityStays == Spec => IdentityKept
<1>1. BootInv /\ [Next]_vars => [served # NoMeta => served' \in {served, NoMeta}]_vars
  <2> SUFFICES ASSUME BootInv, [Next]_vars, served # NoMeta
               PROVE  served' \in {served, NoMeta}
    OBVIOUS
  <2>1. CASE FindRoot
    <3>1. disk.meta = {served} /\ (reset = "no" => disk.meta = {mem})
      BY <2>1 DEF BootInv, ServedInv, RowInv, FindRoot
    <3> QED
      BY <2>1, <3>1 DEF FindRoot
  <2> QED
    BY <2>1 DEF Next, Boot, vars, InitMeta, MigrateNodes, MigrateEdges, MigrateVersion,
                RootEdge, AdminPoints, AdminEdge, SetRoot, InitJwtKey, DeleteMeta,
                DeleteEdges, DeletePoints, Crash
<1> QED
  BY <1>1, BootInvariant, PTL DEF Spec, IdentityKept

=============================================================================
