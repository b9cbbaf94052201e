------------------------------- MODULE Manager -------------------------------
(***************************************************************************)
(* The client manager (client/manager.go, client/client-state.go): it      *)
(* looks for the nodes of one type and runs one client for each.  Its main *)
(* loop (mgr), the callback of its subscription to up.root.> (signals),    *)
(* and for every client a goroutine that runs it and the callback of the   *)
(* subscription to up.<node>.> (inst) run concurrently with each other and *)
(* with the store.                                                         *)
(*                                                                         *)
(* Of the store (modelled in Store) this module keeps what the manager     *)
(* sees: the edges, a version number for the points of each node, and the  *)
(* announcements, which are published after the write they are about.      *)
(***************************************************************************)
EXTENDS Integers, Sequences, FiniteSets

CONSTANTS
    Root,       \* the root node
    Group,      \* nodes of a type the manager looks below (parentTypes)
    ClientNode, \* nodes of the managed type
    Child,      \* nodes that are configuration of a client
    Edge,       \* the edges that users create and delete, <<up, down>>
    Born,       \* edges that are there when the manager starts
    Touched,    \* nodes whose points users change
    Slot,       \* the clientState objects
    MaxEvents   \* bound on the writes of users and the requests that fail

Node == {Root} \cup Group \cup ClientNode \cup Child

\* mapKey: a node is run once for every parent.
Key == {e \in Edge : e[2] \in ClientNode /\ e[1] \in {Root} \cup Group}

ASSUME ManagerAssumption ==
    /\ IsFiniteSet(Node) /\ IsFiniteSet(Slot)
    /\ Edge \subseteq Node \X (Node \ {Root})
    /\ Born \subseteq Edge
    /\ Touched \subseteq ClientNode \cup Child
    /\ Cardinality(Slot) >= Cardinality(Key)
    /\ MaxEvents \in Nat

VARIABLES
    made,     \* edges that were ever created
    live,     \* edges that are not deleted
    ver,      \* version of the points of each node
    wire,     \* announcements the store has still to publish
    mgr,      \* the main loop, Run and scan
    signals,  \* sends to chScan that the callback has still to make
    states,   \* clientStates
    inst,     \* the clientState objects, with their subscriptions
    stop,     \* the channel m.stop is closed
    events    \* writes and failed requests so far

vars == <<made, live, ver, wire, mgr, signals, states, inst, stop, events>>

store == <<made, live, ver, wire>>

-----------------------------------------------------------------------------
(* The store *)

\* A node and its ancestors along the edges E.
Above(E, n) ==
    LET R[k \in 0 .. Cardinality(Node)] ==
            IF k = 0 THEN {n}
            ELSE R[k-1] \cup {e[1] : e \in {e \in E : e[2] \in R[k-1]}}
    IN  R[Cardinality(Node)]

Kids(n) == {e[2] : e \in {e \in live : e[1] = n}}

Announcement == [edge : BOOLEAN, created : BOOLEAN, node : Node, ver : Nat]

\* A user creates, deletes or undeletes an edge; only a new edge comes with a
\* node type.
WriteEdge ==
    \E e \in Edge :
        /\ events < MaxEvents
        /\ events' = events + 1
        /\ made' = made \cup {e}
        /\ live' = IF e \in live THEN live \ {e} ELSE live \cup {e}
        /\ wire' = Append(wire, [edge |-> TRUE, created |-> e \notin made,
                                 node |-> e[2], ver |-> 0])
        /\ UNCHANGED <<ver, mgr, signals, states, inst, stop>>

\* A user changes the points of a node.  Points that the client itself sends
\* are its own already, and its callback drops them.
WritePoints ==
    \E n \in Touched :
        /\ events < MaxEvents
        /\ events' = events + 1
        /\ ver' = [ver EXCEPT ![n] = @ + 1]
        /\ wire' = Append(wire, [edge |-> FALSE, created |-> FALSE,
                                 node |-> n, ver |-> ver[n] + 1])
        /\ UNCHANGED <<made, live, mgr, signals, states, inst, stop>>

\* Mutant: clients that there are already are not skipped.
UnservedAll == DOMAIN mgr.found

\* Nodes that the scan has listed and that have no client yet.
Unserved == DOMAIN mgr.found \ DOMAIN states

\* The store publishes an announcement to the node and its ancestors: deleted
\* edges are followed for edge points only.
Publish ==
    /\ wire # <<>>
    /\ LET a  == Head(wire)
           to == Above(IF a.edge THEN made ELSE live, a.node)
       IN  /\ signals' = IF a.created /\ mgr.pc # "start" /\ ~mgr.stopping
                         THEN signals + 1 ELSE signals
           /\ inst' = [i \in Slot |->
                  IF inst[i].st = "run" /\ inst[i].sub /\ inst[i].key[2] \in to
                  THEN [inst[i] EXCEPT !.queue = Append(@, a)] ELSE inst[i]]
           /\ mgr' = [mgr EXCEPT !.missed =
                         @ \cup {k \in Unserved \cup ({mgr.key} \cap Key) : k[2] \in to}]
    /\ wire' = Tail(wire)
    /\ UNCHANGED <<made, live, ver, states, stop, events>>

-----------------------------------------------------------------------------
(* Clients *)

NoInst == [st |-> "none", key |-> <<>>, view |-> <<>>, sub |-> FALSE,
           queue |-> <<>>, missed |-> FALSE]

\* clientState.stop, which closes chStop once.  What the subscription brings
\* later has no effect on a client that is told to stop, and is left out.
Stopped(c) ==
    IF c.st = "run" THEN [NoInst EXCEPT !.st = "stop", !.key = c.key] ELSE c

\* Mutant: points of the client's node never reach it.
CallbackDropsOwn(i) ==
    /\ inst[i].queue # <<>>
    /\ LET a == Head(inst[i].queue)
           c == [inst[i] EXCEPT !.queue = Tail(@)]
       IN  inst' = [inst EXCEPT ![i] = IF a.edge THEN Stopped(c) ELSE c]
    /\ UNCHANGED <<store, mgr, signals, states, stop, events>>

\* The callback of a client's subscription.  A node that was created, deleted
\* or undeleted below it ends the client, once the callback has seen the change
\* in the database or waited 5 seconds for it.  Points go to the client.
Callback(i) ==
    /\ inst[i].queue # <<>>
    /\ LET a == Head(inst[i].queue)
           c == [inst[i] EXCEPT !.queue = Tail(@)]
       IN  inst' = [inst EXCEPT ![i] =
               IF a.edge THEN Stopped(c)
               ELSE IF a.node \in DOMAIN c.view
               THEN [c EXCEPT !.view[a.node] = a.ver]
               ELSE c]
    /\ UNCHANGED <<store, mgr, signals, states, stop, events>>

\* clientState.run: after stop the client returns, or 5 seconds are over.
RunEnds(i) ==
    /\ inst[i].st = "stop"
    /\ inst' = [inst EXCEPT ![i].st = "ended"]
    /\ UNCHANGED <<store, mgr, signals, states, stop, events>>

-----------------------------------------------------------------------------
(* scan.  missed is a history: nodes that were listed and about which an   *)
(* announcement was published before the scan was over.                    *)

Scan == [mgr EXCEPT !.pc = "list", !.todo = {<<"nodes", Root>>},
                    !.found = <<>>, !.missed = {}]

Select == [mgr EXCEPT !.pc = "select", !.todo = {}, !.found = <<>>, !.missed = {}]

\* The closure scan of Run, and Run's reaction to a client that has ended.
ScanUnlessStopping == IF mgr.stopping THEN mgr ELSE Scan

\* scanHelper: one request for the nodes below an ID, then one for the parents.
\* Siblings come in any order.
ScanList ==
    \E t \in mgr.todo :
        /\ mgr.pc = "list"
        /\ LET keys   == {e \in live : e \in Key /\ e[1] = t[2]}
               groups == {e \in live : e[1] = t[2] /\ e[2] \in Group}
           IN  mgr' = IF t[1] = "nodes"
                      THEN [mgr EXCEPT
                          !.todo  = (@ \ {t}) \cup {<<"parents", t[2]>>},
                          !.found = [k \in keys \cup DOMAIN @ |->
                                         IF k \in keys THEN ver[k[2]] ELSE mgr.found[k]]]
                      ELSE [mgr EXCEPT
                          !.todo = (@ \ {t}) \cup {<<"nodes", e[2]>> : e \in groups}]
        /\ UNCHANGED <<store, signals, states, inst, stop, events>>

\* A request fails: scan returns the error and Run logs it.
ScanFails ==
    /\ mgr.pc = "list"
    /\ events < MaxEvents
    /\ events' = events + 1
    /\ mgr' = Select
    /\ UNCHANGED <<store, signals, states, inst, stop>>

\* Everything is listed; with no node at all scan returns.
ScanListed ==
    /\ mgr.pc = "list"
    /\ mgr.todo = {}
    /\ mgr' = IF DOMAIN mgr.found = {} THEN Select ELSE [mgr EXCEPT !.pc = "create"]
    /\ UNCHANGED <<store, signals, states, inst, stop, events>>

\* newClientState, which requests the children, and the goroutine of the client.
ScanCreate ==
    \E k \in Unserved :
        /\ mgr.pc = "create"
        /\ LET i == CHOOSE i \in Slot : inst[i].st = "none"
           IN  /\ inst' = [inst EXCEPT ![i] =
                      [NoInst EXCEPT !.st = "run", !.key = k,
                          !.view = [n \in {k[2]} \cup Kids(k[2]) |->
                              IF n = k[2] THEN mgr.found[k] ELSE ver[n]]]]
               /\ states' = [x \in DOMAIN states \cup {k} |->
                                 IF x = k THEN i ELSE states[x]]
        /\ mgr' = [mgr EXCEPT !.pc = "subscribe", !.key = k]
        /\ UNCHANGED <<store, signals, stop, events>>

ScanSubscribe ==
    /\ mgr.pc = "subscribe"
    /\ inst' = [inst EXCEPT ![states[mgr.key]].sub = TRUE,
                            ![states[mgr.key]].missed = mgr.key \in mgr.missed]
    /\ mgr' = [mgr EXCEPT !.pc = "create", !.key = <<>>]
    /\ UNCHANGED <<store, signals, states, stop, events>>

StopClients(K) ==
    inst' = [i \in Slot |-> IF \E k \in K : states[k] = i THEN Stopped(inst[i])
                                                          ELSE inst[i]]

\* Mutant: clients of nodes that are not found go on.
ScanRemoveNone ==
    /\ mgr.pc = "create"
    /\ Unserved = {}
    /\ mgr' = Select
    /\ UNCHANGED <<store, inst, signals, states, stop, events>>

\* The clients of nodes that were not found are stopped.
ScanRemove ==
    /\ mgr.pc = "create"
    /\ Unserved = {}
    /\ StopClients(DOMAIN states \ DOMAIN mgr.found)
    /\ mgr' = Select
    /\ UNCHANGED <<store, signals, states, stop, events>>

ScanStep == ScanList \/ ScanFails \/ ScanListed \/ ScanCreate \/ ScanSubscribe
            \/ ScanRemove

-----------------------------------------------------------------------------
(* Run *)

\* Subscribe to up.root.>, then the first scan.
Start ==
    /\ mgr.pc = "start"
    /\ mgr' = Scan
    /\ UNCHANGED <<store, signals, states, inst, stop, events>>

\* Mutant: nothing is done every minute.
SelectTickIdle ==
    /\ mgr.pc = "select"
    /\ UNCHANGED vars

\* time.After(time.Minute)
SelectTick ==
    /\ mgr.pc = "select"
    /\ mgr' = ScanUnlessStopping
    /\ UNCHANGED <<store, signals, states, inst, stop, events>>

SelectScan ==
    /\ mgr.pc = "select"
    /\ signals > 0
    /\ signals' = signals - 1
    /\ mgr' = ScanUnlessStopping
    /\ UNCHANGED <<store, states, inst, stop, events>>

\* chDeleteCS: unsubscribe, and forget the client.
SelectDelete(i) ==
    /\ mgr.pc = "select"
    /\ inst[i].st = "ended"
    /\ inst' = [inst EXCEPT ![i] = NoInst]
    /\ states' = [k \in DOMAIN states \ {inst[i].key} |-> states[k]]
    /\ mgr' = IF mgr.stopping /\ DOMAIN states' = {}
              THEN [mgr EXCEPT !.pc = "done"] ELSE ScanUnlessStopping
    /\ UNCHANGED <<store, signals, stop, events>>

\* Mutant: the clients are not told.
SelectStopOnly ==
    /\ mgr.pc = "select"
    /\ stop
    /\ mgr' = [mgr EXCEPT !.stopping = TRUE,
                          !.pc = IF DOMAIN states = {} THEN "done" ELSE @]
    /\ UNCHANGED <<store, signals, states, inst, stop, events>>

\* m.stop stays closed, so this case is ready in every later select too.  Each
\* time it sets the shutdown timer anew: its 5 seconds are never over.
SelectStop ==
    /\ mgr.pc = "select"
    /\ stop
    /\ StopClients(DOMAIN states)
    /\ mgr' = [mgr EXCEPT !.stopping = TRUE,
                          !.pc = IF DOMAIN states = {} THEN "done" ELSE @]
    /\ UNCHANGED <<store, signals, states, stop, events>>

\* Manager.Stop
Stop ==
    /\ ~stop
    /\ stop' = TRUE
    /\ UNCHANGED <<store, mgr, signals, states, inst, events>>

Init ==
    /\ made = Born
    /\ live = Born
    /\ ver = [n \in Node |-> 0]
    /\ wire = <<>>
    /\ mgr = [pc |-> "start", todo |-> {}, found |-> <<>>, missed |-> {},
              key |-> <<>>, stopping |-> FALSE]
    /\ signals = 0
    /\ states = <<>>
    /\ inst = [i \in Slot |-> NoInst]
    /\ stop = FALSE
    /\ events = 0

Next ==
    \/ WriteEdge \/ WritePoints \/ Publish \/ Stop
    \/ \E i \in Slot : Callback(i) \/ RunEnds(i) \/ SelectDelete(i)
    \/ ScanList \/ ScanFails \/ ScanListed \/ ScanCreate \/ ScanSubscribe
    \/ ScanRemove
    \/ Start \/ SelectTick \/ SelectScan \/ SelectStop

Spec == Init /\ [][Next]_vars

\* Every goroutine that can run does.  select chooses among the cases that are
\* ready at random, so a case that is ready again and again is taken.
FairSpec ==
    /\ Spec
    /\ WF_vars(Publish)
    /\ \A i \in Slot : WF_vars(Callback(i) \/ RunEnds(i)) /\ SF_vars(SelectDelete(i))
    /\ WF_vars(Start \/ ScanStep \/ SelectTick)
    /\ SF_vars(SelectScan) /\ SF_vars(SelectStop)

-----------------------------------------------------------------------------
(* Properties *)

Running(k) == \E i \in Slot : inst[i].st = "run" /\ inst[i].key = k

\* Nodes that the manager is to run: live, below live groups.
Wanted ==
    {k \in Key \cap live :
        Root \in Above({e \in live : e[2] \in Group}, k[1])}

\* clientStates: a client stays in the map until it has ended, and nobody else
\* runs for its node meanwhile, whatever scans, restarts and ends interleave.
OneClient ==
    \A i \in Slot : inst[i].st # "none" =>
        inst[i].key \in DOMAIN states /\ states[inst[i].key] = i

\* Manager: a node that is there gets a client and keeps it, also when the
\* announcement came at any point of a scan or of a restart; and the client of
\* a node that is deleted, or that is below a group that is deleted, is stopped
\* (as long as there is another node of the type: a scan that finds none
\* returns before it compares).
ClientsFollow ==
    \A k \in Key :
        /\ <>[](k \in Wanted /\ ~stop) => <>[]Running(k)
        /\ <>[](k \notin Wanted /\ Wanted # {} /\ ~stop) => <>[]~Running(k)

\* Manager.Stop: Run returns, and no client is left.
StopEnds == stop ~> (mgr.pc = "done" /\ \A i \in Slot : inst[i].st = "none")

\* What the store has for a client: its points and those of its children.
Config(k) == [n \in {k[2]} \cup Kids(k[2]) |-> ver[n]]

UpToDate(i) ==
    inst[i].st = "run" /\ inst[i].sub /\ inst[i].queue = <<>> /\ wire = <<>> =>
        inst[i].view = Config(inst[i].key)

\* newClientState and the subscription: a client that has seen everything has
\* the configuration the store has, and the children, unless an announcement
\* came between the request for its node and its subscription: that one is lost.
FreshUnlessMissed == \A i \in Slot : inst[i].missed \/ UpToDate(i)

=============================================================================
