------------------------------ MODULE Network ------------------------------
(***************************************************************************)
(* The NetworkManager client (client/network-manager.go): connections and  *)
(* devices of NetworkManager, reached over D-Bus, and their nodes in the   *)
(* tree are kept the same.                                                 *)
(*                                                                         *)
(*   nm     NetworkManager (external): connections, one device, what a     *)
(*          scan finds (aps), host name and flags;                         *)
(*   tree   the store: the client's node, connection nodes, device node;   *)
(*   cfg    the client's copy, made when it starts;                        *)
(*   gone   deletedConns: managed connections deleted in the tree;         *)
(*   queue  what the store has announced and the client has not taken;     *)
(*   run    Run: place, sync under way, doSync and the delay timer.        *)
(*                                                                         *)
(* Users and NetworkManager make up to scope.max changes, of the sorts in  *)
(* scope.sorts.  The device's field info stands for its fields of the kind *)
(* scope.kind; a node that the device has under another ID is there or not *)
(* (ghost).                                                                *)
(***************************************************************************)
EXTENDS Codec, NetworkConn

CONSTANTS
    Conn,      \* UUIDs of connections
    Scopes,    \* sets of changes that are explored together
    MaxQueue   \* bound: announcements that are left when the next sync starts

ASSUME ConnAssumption == IsFiniteSet(Conn)
ASSUME ScopesAssumption == \A s \in Scopes : s.conns \subseteq Conn

VARIABLES scope, nm, tree, cfg, gone, queue, run, events,
    ever,      \* history: connections that were managed at some time
    raced      \* history: what the client may have wrong until it starts again

vars == <<scope, nm, tree, cfg, gone, queue, run, events, ever, raced>>

AutoIP == [static |-> FALSE, addr |-> "", dns1 |-> "", dns2 |-> ""]
Plain == [name |-> "plain", ip4 |-> AutoIP, ip6 |-> AutoIP, key |-> "", psk |-> ""]

NoConn == [st |-> "none", managed |-> FALSE, set |-> Plain, last |-> 0, error |-> FALSE]
NoNMConn == [there |-> FALSE, dbus |-> ConnDBus(Plain), last |-> 0, active |-> FALSE]

Edge == [to |-> "edge", id |-> "", f |-> <<>>]

-----------------------------------------------------------------------------
(* Client and store *)

\* g with the fields that f has.
Merge(f, g) == [k \in DOMAIN f \cup DOMAIN g |-> IF k \in DOMAIN f THEN f[k] ELSE g[k]]

\* What the store keeps of the points that it is sent.
Put(pts, ps) == FoldLeft(LAMBDA s, p : Merge([k \in {p.key} |-> p], s), pts, ps)
AsSeq(pts) == LET ks == InOrder(DOMAIN pts) IN [i \in DOMAIN ks |-> pts[ks[i]]]

\* newClientState: the node with the children that are not deleted
Loaded ==
    [node |-> tree.node,
     conns |-> [c \in Conn |-> IF tree.conns[c].st = "live" THEN tree.conns[c] ELSE NoConn],
     dev |-> IF tree.dev.st = "live"
             THEN [st |-> "live",
                   info |-> Decode(scope.kind, ZeroOf(scope.kind), AsSeq(tree.dev.info)),
                   aps |-> Decode("slice", ZeroOf("slice"), AsSeq(tree.dev.aps))]
             ELSE [st |-> "none", info |-> ZeroOf(scope.kind), aps |-> ZeroOf("slice")],
     ghost |-> tree.ghost]

\* Mutant: all deleted connections count.
DeletedConnsAll == {c \in Conn : tree.conns[c].st = "deleted"}

\* init: the nodes of deleted connections that are managed
DeletedConns == {c \in Conn : tree.conns[c].st = "deleted" /\ tree.conns[c].managed}

Idle(enabled) ==
    [pc |-> "select", todo |-> {}, found |-> [c \in Conn |-> NoNMConn],
     doSync |-> enabled, timer |-> FALSE, sub |-> enabled, sig |-> FALSE]

\* queueSync
QueueSync(r) == IF r.doSync THEN r ELSE [r EXCEPT !.timer = TRUE]

\* The end of the loop in Run: a scan if one is wanted
After(r, node) == [r EXCEPT !.pc = IF node.scan /\ ~node.disabled THEN "scan" ELSE "select"]

StartClient ==
    /\ cfg' = Loaded
    /\ gone' = IF tree.node.disabled THEN {} ELSE DeletedConns
    /\ queue' = <<>>
    /\ run' = Idle(~tree.node.disabled)
    /\ raced' = {}
    /\ UNCHANGED <<scope, nm, tree, events, ever>>

\* data.MergePoints; there is no such node in cfg: an error that is logged
Merged(m) ==
    CASE m.to = "node" -> [cfg EXCEPT !.node = Merge(m.f, @)]
      [] m.to = "conn" -> IF cfg.conns[m.id].st = "live"
                          THEN [cfg EXCEPT !.conns[m.id] = Merge(m.f, @)] ELSE cfg
      [] m.to = "dev" -> IF cfg.dev.st = "live"
                         THEN [cfg EXCEPT !.dev.info = Decode(scope.kind, @, m.f)] ELSE cfg

\* Run, pointsCh, with init and cleanup
Receive ==
    /\ run.pc = "select" /\ queue # <<>> /\ Head(queue).to # "edge"
    /\ \E c \in {Merged(Head(queue))} :
        LET was == cfg.node.disabled
            now == c.node.disabled
        IN  /\ cfg' = c
            /\ run' = After(CASE now /\ ~was -> [run EXCEPT !.sub = FALSE, !.sig = FALSE]
                              [] now /\ was -> run
                              [] ~now /\ was -> [run EXCEPT !.doSync = TRUE, !.sub = TRUE]
                              [] ~now /\ ~was -> QueueSync(run),
                            c.node)
            /\ gone' = IF was /\ ~now THEN DeletedConns ELSE gone
    /\ queue' = Tail(queue)
    /\ UNCHANGED <<scope, nm, tree, events, ever, raced>>

\* A child comes or goes: the manager stops the client and starts another one.  A Run that
\* has ended with an error is replaced as well; one that is disabled has no D-Bus object
\* that cleanup could use, and the process panics.
Restart ==
    /\ run.pc \in {"select", "dead"} /\ queue # <<>> /\ Head(queue).to = "edge"
    /\ IF run.pc = "select" /\ cfg.node.disabled
       THEN run' = [run EXCEPT !.pc = "panic"]
            /\ UNCHANGED <<scope, nm, tree, cfg, gone, queue, events, ever, raced>>
       ELSE StartClient

\* The process is started again.
Respawn == run.pc = "panic" /\ StartClient

\* syncTick, which has no effect if a sync is to come
SyncTick ==
    /\ run.pc = "select" /\ ~cfg.node.disabled /\ ~run.doSync /\ ~run.timer
    /\ run' = After(QueueSync(run), cfg.node)
    /\ UNCHANGED <<scope, nm, tree, cfg, gone, queue, events, ever, raced>>

\* dbusSub
Signal ==
    /\ run.pc = "select" /\ run.sig
    /\ run' = After(QueueSync([run EXCEPT !.sig = FALSE]), cfg.node)
    /\ UNCHANGED <<scope, nm, tree, cfg, gone, queue, events, ever, raced>>

\* syncDelayTimer: five seconds, in which the client takes all but a few announcements
DelayOver ==
    /\ run.timer /\ run.pc \notin {"dead", "panic"} /\ Len(queue) < MaxQueue
    /\ run' = [run EXCEPT !.timer = FALSE, !.doSync = TRUE]
    /\ UNCHANGED <<scope, nm, tree, cfg, gone, queue, events, ever, raced>>

-----------------------------------------------------------------------------
(* SyncConnections *)

\* A point for the field of a node is on its way to the client.
Pending(to, id, k) ==
    \E i \in DOMAIN queue : queue[i].to = to /\ queue[i].id = id /\ k \in DOMAIN queue[i].f

Die == run' = [run EXCEPT !.pc = "dead", !.todo = {}]
       /\ UNCHANGED <<scope, nm, tree, cfg, gone, queue, events, ever, raced>>

\* NetworkManager reports a change.
Noted(r, change) == [r EXCEPT !.sig = @ \/ (change /\ r.sub)]

\* Connections of NetworkManager that the client has no node for
Unknown == {c \in Conn : nm.conns[c].there /\ cfg.conns[c].st # "live"}

\* SendNodeType of a connection
Detected(c) ==
    [NoConn EXCEPT !.st = "live", !.set = ResolveConn(nm.conns[c].dbus), !.last = nm.conns[c].last]

\* doSync: list the connections, delete those that the tree has deleted, add new ones to it
SyncList ==
    /\ run.pc = "select" /\ run.doSync
    /\ CASE cfg.node.disabled ->
              /\ run' = [run EXCEPT !.pc = "panic"]
              /\ UNCHANGED <<scope, nm, tree, cfg, gone, queue, events, ever, raced>>
         [] ~cfg.node.disabled /\ ~nm.up -> Die
         [] ~cfg.node.disabled /\ nm.up ->
              LET new == Unknown \ gone
                  old == Unknown \cap gone
              IN  /\ run' = Noted([run EXCEPT
                                      !.pc = "conns", !.doSync = FALSE,
                                      !.todo = {c \in Conn : cfg.conns[c].st = "live"},
                                      !.found = [c \in Conn |-> IF cfg.conns[c].st = "live"
                                                                THEN nm.conns[c] ELSE NoNMConn]],
                                  old # {})
                  /\ nm' = [nm EXCEPT !.conns = [c \in Conn |-> IF c \in old THEN NoNMConn ELSE @[c]]]
                  /\ tree' = [tree EXCEPT !.conns = [c \in Conn |-> IF c \in new THEN Detected(c) ELSE @[c]]]
                  /\ queue' = queue \o [i \in 1 .. Cardinality(new) |-> Edge]
                  /\ UNCHANGED <<scope, cfg, gone, events, ever, raced>>

\* emitConnectionError; the points that are to be sent are forgotten
Failed(c, conn, nmconns, changed) ==
    /\ cfg' = [cfg EXCEPT !.conns[c] = [conn EXCEPT !.error = TRUE]]
    /\ tree' = [tree EXCEPT !.conns[c].error = TRUE]
    /\ nm' = [nm EXCEPT !.conns = nmconns]
    /\ run' = Noted([run EXCEPT !.todo = @ \ {c}], changed)
    /\ raced' = raced \cup {k \in {c} : conn.last # cfg.conns[c].last \/ Pending("conn", c, "error")}
    /\ UNCHANGED queue

\* Update has replaced the settings; an active connection is started again.
Updated(c, s) ==
    [nm.conns EXCEPT ![c].dbus = ConnDBus(s), ![c].last = IF nm.conns[c].active THEN 1 - @ ELSE @]

\* Mutant: the connection stays when the update fails.
RefusedKept(c, there) == nm.conns

\* "Delete connection because update failed"
Refused(c, there) == IF there THEN [nm.conns EXCEPT ![c] = NoNMConn] ELSE nm.conns

\* A managed connection that was listed
SyncManaged(c) ==
    LET n == run.found[c]
        conn == [cfg.conns[c] EXCEPT !.last = n.last]
        there == nm.up /\ nm.conns[c].there
        refused == n.dbus.key = "wpa-psk" /\ ~there
        same == ConnEqual(conn.set, WithSecrets(n.dbus))
        accepted == Accepted(ConnDBus(conn.set))
    IN  IF refused THEN Failed(c, conn, nm.conns, FALSE)
        ELSE IF ~same /\ (~there \/ ~accepted)
        THEN Failed(c, conn, Refused(c, there), there)
        ELSE /\ cfg' = [cfg EXCEPT !.conns[c] = conn]
             /\ tree' = [tree EXCEPT !.conns[c].last = IF cfg.conns[c].last # n.last THEN n.last ELSE @]
             /\ nm' = IF same THEN nm ELSE [nm EXCEPT !.conns = Updated(c, conn.set)]
             /\ run' = Noted([run EXCEPT !.todo = @ \ {c}], ~same)
             /\ raced' = raced \cup {k \in {c} : conn.last # cfg.conns[c].last /\ Pending("conn", c, "last")}
             /\ UNCHANGED queue

\* Mutant: the points have the client as origin and do not come back.
SyncUnmanagedOrigin(c) ==
    LET n == run.found[c]
        new == [set |-> ResolveConn(n.dbus), last |-> n.last, error |-> FALSE]
        f == [k \in {k \in DOMAIN new : cfg.conns[c][k] # new[k]} |-> new[k]]
    IN  /\ tree' = [tree EXCEPT !.conns[c] = Merge(f, @)]
        /\ run' = [run EXCEPT !.todo = @ \ {c}]
        /\ UNCHANGED <<nm, cfg, queue, raced>>

\* An unmanaged connection that was listed: the origin is set on copies of the points only,
\* so they come back as points of somebody else and are merged then.
SyncUnmanaged(c) ==
    LET n == run.found[c]
        new == [set |-> ResolveConn(n.dbus), last |-> n.last, error |-> FALSE]
        f == [k \in {k \in DOMAIN new : cfg.conns[c][k] # new[k]} |-> new[k]]
    IN  /\ tree' = [tree EXCEPT !.conns[c] = Merge(f, @)]
        /\ queue' = IF DOMAIN f = {} THEN queue
                    ELSE Append(queue, [to |-> "conn", id |-> c, f |-> f])
        /\ run' = [run EXCEPT !.todo = @ \ {c}]
        /\ UNCHANGED <<nm, cfg, raced>>

\* A managed connection that NetworkManager does not have
SyncAdd(c) ==
    LET conn == cfg.conns[c]
    IN  IF nm.up /\ ~nm.conns[c].there /\ Accepted(ConnDBus(conn.set))
        THEN /\ nm' = [nm EXCEPT !.conns[c] = [NoNMConn EXCEPT !.there = TRUE, !.dbus = ConnDBus(conn.set)]]
             /\ run' = Noted([run EXCEPT !.todo = @ \ {c}], TRUE)
             /\ UNCHANGED <<tree, cfg, queue, raced>>
        ELSE Failed(c, conn, nm.conns, FALSE)

\* An unmanaged one: it is deleted in the tree.
SyncDelete(c) ==
    /\ tree' = [tree EXCEPT !.conns[c].st = IF @ = "live" THEN "deleted" ELSE @]
    /\ queue' = Append(queue, Edge)
    /\ run' = [run EXCEPT !.todo = @ \ {c}]
    /\ UNCHANGED <<nm, cfg, raced>>

SyncConn ==
    /\ run.pc = "conns"
    /\ \E c \in run.todo :
        CASE run.found[c].there /\ cfg.conns[c].managed -> SyncManaged(c)
          [] run.found[c].there /\ ~cfg.conns[c].managed -> SyncUnmanaged(c)
          [] ~run.found[c].there /\ cfg.conns[c].managed -> SyncAdd(c)
          [] ~run.found[c].there /\ ~cfg.conns[c].managed -> SyncDelete(c)
    /\ UNCHANGED <<scope, gone, events, ever>>

-----------------------------------------------------------------------------
(* SyncDevices, SyncHostname, WifiScan *)

\* The flags: points with the client as origin
SyncFlags(node) ==
    [node EXCEPT !.net = nm.net, !.wifi = IF @ = "nil" THEN nm.wifi ELSE @]

Change(sort) == /\ sort \in scope.sorts /\ events < scope.max
                /\ events' = events + 1

\* ResolveDevice: the node that the device has, or "none" if it is not managed.  Properties
\* are read one after the other, and SyncDevices goes on with what was read when one cannot
\* be: whether it is managed comes late, and its type, the start of its ID, after that.
ResolveDevice(d) ==
    \/ /\ d = IF nm.dev.there THEN "dev" ELSE "none"
       /\ UNCHANGED events
    \/ /\ nm.dev.there /\ d \in {"none", "ghost"}
       /\ Change("nmRead")

SyncDevices ==
    /\ run.pc = "conns" /\ run.todo = {}
    /\ \/ ~nm.up /\ Die
       \/ /\ nm.up
          /\ \E ps \in {DiffPoints(scope.kind, cfg.dev.info, nm.dev.info)},
                d \in {"dev", "ghost", "none"} :
               LET known == cfg.dev.st = "live"
                   found == d = "dev"
                   ghost == d = "ghost"
                   nilWifi == cfg.node.wifi = "nil"
                   node == [tree.node EXCEPT !.net = IF cfg.node.net # nm.net THEN nm.net ELSE @,
                                             !.wifi = IF nilWifi THEN nm.wifi ELSE @]
                   dev == CASE known /\ found -> [tree.dev EXCEPT !.info = Put(@, ps)]
                            [] known /\ ~found -> [tree.dev EXCEPT !.st = "deleted"]
                            [] ~known /\ found ->
                                  [tree.dev EXCEPT !.st = "live",
                                                   !.info = Put(@, Encode(scope.kind, nm.dev.info))]
                            [] ~known /\ ~found -> tree.dev
                   points == IF known /\ found /\ ps # <<>>
                             THEN <<[to |-> "dev", id |-> "", f |-> ps]>> ELSE <<>>
                   edges == {x \in {"dev", "ghost"} :
                               IF x = "dev" THEN known # found ELSE cfg.ghost # ghost}
               IN  /\ ResolveDevice(d)
                   /\ tree' = [tree EXCEPT !.node = node, !.dev = dev,
                                           !.ghost = IF cfg.ghost # ghost THEN ghost ELSE @]
                   /\ cfg' = [cfg EXCEPT
                                !.node = SyncFlags(@),
                                !.dev.info = IF known /\ found THEN Decode(scope.kind, @, ps) ELSE @]
                   /\ queue' = queue \o points \o [i \in 1 .. Cardinality(edges) |-> Edge]
                   /\ raced' = raced \cup {k \in {"wifi"} : nilWifi /\ Pending("node", "", k)}
          /\ nm' = [nm EXCEPT !.wifi = IF cfg.node.wifi = "nil" THEN @ ELSE cfg.node.wifi]
          /\ run' = Noted([run EXCEPT !.pc = "host"], nm'.wifi # nm.wifi)
          /\ UNCHANGED <<scope, gone, ever>>

SyncHostname ==
    /\ run.pc = "host"
    /\ IF ~nm.up THEN Die
       ELSE LET blank == cfg.node.host = ""
            IN  /\ cfg' = [cfg EXCEPT !.node.host = IF blank THEN nm.host ELSE @]
                /\ tree' = [tree EXCEPT !.node.host = IF blank THEN nm.host ELSE @]
                /\ nm' = [nm EXCEPT !.host = IF blank THEN @ ELSE cfg.node.host]
                /\ raced' = raced \cup {k \in {"host"} : blank /\ Pending("node", "", k)}
                /\ run' = After(Noted(run, nm'.host # nm.host), cfg.node)
                /\ UNCHANGED <<scope, gone, queue, events, ever>>

\* Points for the access points that were found, and tombstones for those beyond
ScanPoints ==
    LET new == Elems("slice", nm.aps)
    IN  Live(nm.aps, new) \o Dead(Elems("slice", cfg.dev.aps) \ new)

\* ResolveAccessPoint, and ResolveDevice again: if a property cannot be read, the third
\* time for access points, there are no points.
ResolveAccessPoints(ps) ==
    LET seen == nm.up /\ cfg.dev.st = "live" /\ nm.dev.there
    IN  \/ /\ ps = IF seen THEN ScanPoints ELSE <<>>
           /\ UNCHANGED events
        \/ /\ seen /\ ps = <<>>
           /\ Change("nmRead")

\* WifiScan and the request's end.  A new scan (rescan) unsubscribes, and the signals that
\* Run waits for may be gone with it.
Scan ==
    /\ run.pc = "scan"
    /\ \E ps \in {ScanPoints, <<>>}, sub \in {run.sub, FALSE} :
        /\ ResolveAccessPoints(ps)
        /\ tree' = [tree EXCEPT !.dev.aps = Put(@, ps), !.node.scan = FALSE]
        /\ cfg' = [cfg EXCEPT !.dev.aps = Decode("slice", @, ps), !.node.scan = FALSE]
        /\ run' = [run EXCEPT !.pc = "select", !.sub = sub, !.sig = @ /\ sub]
    /\ UNCHANGED <<scope, nm, gone, queue, ever, raced>>

-----------------------------------------------------------------------------
(* Users and NetworkManager *)

\* Points of a user, stored and announced
Tell(to, id, f) ==
    /\ tree' = IF to = "node" THEN [tree EXCEPT !.node = Merge(f, @)]
                              ELSE [tree EXCEPT !.conns[id] = Merge(f, @)]
    /\ queue' = Append(queue, [to |-> to, id |-> id, f |-> f])
    /\ UNCHANGED <<scope, nm, cfg, gone, run, raced>>

UserEdits ==
    /\ Change("edit")
    /\ \E c \in scope.conns, s \in scope.sets :
        tree.conns[c].st = "live" /\ tree.conns[c].set # s /\ Tell("conn", c, [set |-> s])
    /\ UNCHANGED ever

UserManages ==
    /\ Change("manage")
    /\ \E c \in scope.conns :
        /\ tree.conns[c].st = "live"
        /\ Tell("conn", c, [managed |-> ~tree.conns[c].managed])
        /\ ever' = ever \cup {c}

UserCreates ==
    /\ Change("create")
    /\ \E c \in scope.conns, s \in scope.sets :
        /\ tree.conns[c].st # "live"
        /\ tree' = [tree EXCEPT !.conns[c] = [NoConn EXCEPT !.st = "live", !.managed = TRUE, !.set = s]]
        /\ ever' = ever \cup {c}
    /\ queue' = Append(queue, Edge)
    /\ UNCHANGED <<scope, nm, cfg, gone, run, raced>>

UserDeletes ==
    /\ Change("delete")
    /\ \/ \E c \in scope.conns : tree.conns[c].st = "live" /\ tree' = [tree EXCEPT !.conns[c].st = "deleted"]
       \/ tree.dev.st = "live" /\ tree' = [tree EXCEPT !.dev.st = "deleted"]
    /\ queue' = Append(queue, Edge)
    /\ UNCHANGED <<scope, nm, cfg, gone, run, ever, raced>>

UserSets ==
    /\ \/ Change("disable") /\ Tell("node", "", [disabled |-> ~tree.node.disabled])
       \/ Change("scan") /\ Tell("node", "", [scan |-> TRUE])
       \/ Change("host") /\ Tell("node", "", [host |-> "user"])
       \/ Change("wifi") /\ Tell("node", "", [wifi |-> IF tree.node.wifi = "on" THEN "off" ELSE "on"])
    /\ UNCHANGED ever

NMChange(sort, new) ==
    /\ Change(sort)
    /\ nm' = new
    /\ run' = Noted(run, nm.up /\ new.up)
    /\ UNCHANGED <<scope, tree, cfg, gone, queue, ever, raced>>

NMConnection ==
    \E c \in scope.conns :
        \/ /\ nm.conns[c].there
           /\ NMChange("nmConn", [nm EXCEPT !.conns[c] = NoNMConn])
        \/ \E s \in scope.sets :
              /\ Accepted(ConnDBus(s)) /\ (nm.conns[c].there => nm.conns[c].dbus # ConnDBus(s))
              /\ NMChange("nmConn", [nm EXCEPT !.conns[c].there = TRUE, !.conns[c].dbus = ConnDBus(s)])
        \/ /\ nm.conns[c].there
           /\ NMChange("nmConn", [nm EXCEPT !.conns[c].active = TRUE, !.conns[c].last = 1 - @])

NMDevice ==
    \/ \E v \in scope.infos : v # nm.dev.info
          /\ NMChange("nmDev", [nm EXCEPT !.dev.there = TRUE, !.dev.info = v])
    \/ NMChange("nmDev", [nm EXCEPT !.dev.there = ~@])
    \/ \E v \in scope.aps : v # nm.aps /\ NMChange("nmAps", [nm EXCEPT !.aps = v])

NMState ==
    \/ NMChange("nmHost", [nm EXCEPT !.host = "nm2"])
    \/ NMChange("nmHost", [nm EXCEPT !.net = IF @ = "on" THEN "off" ELSE "on"])
    \/ NMChange("nmDown", [nm EXCEPT !.up = ~@])

-----------------------------------------------------------------------------

Init ==
    /\ scope \in Scopes
    /\ nm = [up |-> TRUE, conns |-> [c \in Conn |-> NoNMConn],
             dev |-> [there |-> FALSE, info |-> ZeroOf(scope.kind)],
             aps |-> ZeroOf("slice"), host |-> "nm", wifi |-> "on", net |-> "on"]
    /\ tree = [node |-> [disabled |-> FALSE, scan |-> FALSE, host |-> "", wifi |-> "nil", net |-> "nil"],
               conns |-> [c \in Conn |-> NoConn],
               dev |-> [st |-> "none", info |-> [k \in {} |-> <<>>], aps |-> [k \in {} |-> <<>>]],
               ghost |-> FALSE]
    /\ cfg = Loaded
    /\ gone = {} /\ queue = <<>> /\ run = Idle(TRUE)
    /\ events = 0 /\ ever = {} /\ raced = {}

SyncStep == SyncConn \/ SyncDevices \/ SyncHostname \/ Scan

Next ==
    \/ Receive \/ Restart \/ Respawn \/ SyncTick \/ Signal \/ DelayOver
    \/ SyncList \/ SyncConn \/ SyncDevices \/ SyncHostname \/ Scan
    \/ UserEdits \/ UserManages \/ UserCreates \/ UserDeletes \/ UserSets
    \/ NMConnection \/ NMDevice \/ NMState

\* Go's select takes each of its cases that is ready again and again in the end (Receive,
\* Restart, SyncList); the other steps are those of a goroutine that can go on.
Spec ==
    /\ Init /\ [][Next]_vars
    /\ WF_vars(SyncStep) /\ WF_vars(SyncTick \/ DelayOver) /\ WF_vars(Respawn)
    /\ SF_vars(Receive \/ Restart) /\ SF_vars(SyncList)

-----------------------------------------------------------------------------
(* Properties *)

\* network-manager.go: "unmanaged NetworkManager connections will not be updated or deleted
\* by SimpleIoT": no step of the client changes a connection that no user has ever had
\* managed, whatever nodes were deleted and made again.  And a managed connection that is
\* deleted in the tree does not come back, once the client has started again after that.
Untouched ==
    [][events' = events =>
          \A c \in Conn :
             /\ c \notin ever => nm'.conns[c] = nm.conns[c]
             /\ tree.conns[c].st = "deleted" /\ tree.conns[c].managed /\ Edge \notin ToSet(queue) =>
                   tree'.conns[c].st = "deleted"]_vars

\* What is seen of a field
View(kind, v) == [k \in Elems(kind, v) |-> v.mem[k]]

\* MergePoints, the points that come back and those that do not: the client's copy is what a
\* new client would be given once it has taken everything, although device points are
\* applied twice.  (Left aside, in raced: what the client stores over a point that it has not
\* seen yet, and the time of activation, which a failed update forgets to send.)
ConfigAgrees ==
    run.pc = "select" /\ queue = <<>> =>
        LET new == Loaded
        IN  /\ \A k \in DOMAIN cfg.node \ raced : cfg.node[k] = new.node[k]
            /\ \A c \in Conn \ raced : cfg.conns[c] = new.conns[c]
            /\ cfg.dev.st = new.dev.st /\ cfg.ghost = new.ghost
            /\ cfg.dev.st = "live" =>
                  /\ View(scope.kind, cfg.dev.info) = View(scope.kind, new.dev.info)
                  /\ View("slice", cfg.dev.aps) = View("slice", new.dev.aps)

Working == run.pc \notin {"dead", "panic"} /\ ~tree.node.disabled /\ nm.up

\* A connection is as it is to be: the settings of a managed node are in NetworkManager (or
\* an error is shown and it is not there), an unmanaged node shows NetworkManager's.
InStep(c) ==
    LET t == tree.conns[c]
        n == nm.conns[c]
    IN  CASE t.st # "live" -> ~n.there
          [] t.st = "live" /\ t.managed ->
                IF Accepted(ConnDBus(t.set))
                THEN /\ n.there
                     /\ n.dbus = ConnDBus(t.set) \/ ConnEqual(t.set, WithSecrets(n.dbus))
                     /\ ReadsBack(t.set) /\ c \notin raced => t.last = n.last
                ELSE ~n.there /\ t.error
          [] t.st = "live" /\ ~t.managed ->
                n.there /\ t.set = ResolveConn(n.dbus) /\ (c \in raced \/ (t.last = n.last /\ ~t.error))

\* SyncConnections: while NetworkManager and the client work, every connection gets in step
\* and stays so, whatever users and NetworkManager changed, deleted and made again before.
ConnsFollow == <>[]Working => <>[](\A c \in Conn : InStep(c))

\* SyncDevices, SyncHostname: the tree shows the device and the flags as they are, and the
\* host name and the wireless flag of the tree are NetworkManager's, although a property that
\* cannot be read deletes the device's node or makes another one.
DevicesFollow ==
    <>[]Working =>
        <>[](/\ (tree.dev.st = "live") = nm.dev.there /\ ~tree.ghost
             /\ nm.dev.there =>
                   View(scope.kind, Decode(scope.kind, ZeroOf(scope.kind), AsSeq(tree.dev.info)))
                   = View(scope.kind, nm.dev.info)
             /\ tree.node.net = nm.net
             /\ "host" \in raced \/ tree.node.host = nm.host
             /\ "wifi" \in raced \/ tree.node.wifi = nm.wifi)

\* cleanup ("Stop tickers and nullify channels to ignore any unprocessed ticks", "It's now
\* safe to finish cleanup"): a client that is disabled does no sync any more.
NeverPanics == run.pc # "panic"
=============================================================================
