--------------------------- MODULE ManagerProofs ---------------------------
(***************************************************************************)
(* The client manager, for every set of nodes, edges and clients and any   *)
(* number of writes: a node never has two clients, and a client that has   *)
(* seen everything has the configuration that the store has.               *)
(***************************************************************************)
EXTENDS Manager, FiniteSetTheorems, NaturalsInduction, WellFoundedInduction, TLAPS

-----------------------------------------------------------------------------
(* The types of the variables *)

\* Functions on a part of a set.
Partial(S, T) == UNION {[R -> T] : R \in SUBSET S}

MgrType ==
    [pc       : {"start", "list", "create", "subscribe", "select", "done"},
     todo     : SUBSET ({"nodes", "parents"} \X Node),
     found    : Partial(Key, Nat),
     missed   : SUBSET Key,
     key      : Key \cup {<<>>},
     stopping : BOOLEAN]

InstType ==
    [st     : {"none", "run", "stop", "ended"},
     key    : Key \cup {<<>>},
     view   : Partial(Node, Nat),
     sub    : BOOLEAN,
     queue  : Seq(Announcement),
     missed : BOOLEAN]

MType ==
    /\ made \in SUBSET Edge
    /\ live \in SUBSET made
    /\ ver \in [Node -> Nat]
    /\ wire \in Seq(Announcement)
    /\ mgr \in MgrType
    /\ signals \in Nat
    /\ states \in Partial(Key, Slot)
    /\ inst \in [Slot -> InstType]
    /\ stop \in BOOLEAN
    /\ events \in Nat

-----------------------------------------------------------------------------
(* One client for a node *)

\* clientStates and the clients that there are correspond, one to one.
ClientInv ==
    /\ OneClient
    /\ \A k \in DOMAIN states : inst[states[k]].st # "none" /\ inst[states[k]].key = k
    /\ \A i \in Slot : inst[i].st # "none" => inst[i].key \in Key

\* What a scan has found is forgotten when it is over; the client that it is
\* about to subscribe is in the map and runs.
ScanInv ==
    /\ mgr.pc \notin {"list", "create", "subscribe"} => DOMAIN mgr.found = {}
    /\ mgr.pc = "subscribe" =>
          /\ mgr.key \in DOMAIN states
          /\ LET c == inst[states[mgr.key]]
             IN  c.st = "run" /\ ~c.sub /\ c.queue = <<>>

-----------------------------------------------------------------------------
(* The configuration of a client *)

\* Announcements of points of node n.
IsPoint(a, n) == ~a.edge /\ a.node = n

None(s, n) == \A j \in DOMAIN s : ~IsPoint(s[j], n)

\* The last announcement of node n in a sequence has version v.
LastIs(s, n, v) ==
    \E j \in DOMAIN s :
        /\ IsPoint(s[j], n) /\ s[j].ver = v
        /\ \A l \in DOMAIN s : j < l => ~IsPoint(s[l], n)

\* What the store has still to publish about a node ends with its newest version.
WireInv == \A n \in Node : None(wire, n) \/ LastIs(wire, n, ver[n])

\* Version x of node n is the newest one in v once the announcements w are
\* published that there are about n.
Awaited(x, n, w, v) == LastIs(w, n, v[n]) \/ (None(w, n) /\ x = v[n])

\* Client c has the newest version of a node once it has taken everything.
Arrives(c, n, w, v) ==
    \/ LastIs(w, n, v[n])
    \/ None(w, n) /\ LastIs(c.queue, n, v[n])
    \/ None(w, n) /\ None(c.queue, n) /\ c.view[n] = v[n]

\* An announcement that ends the client of k is in its queue, or is going to be.
EdgeQueued(c) == \E j \in DOMAIN c.queue : c.queue[j].edge

EdgeOnWire(k, w, m) == \E j \in DOMAIN w : w[j].edge /\ k[2] \in Above(m, w[j].node)

\* A client has the children that there are along the edges l, and gets the
\* newest versions of its points and of theirs.
Fresh(c, w, v, l) ==
    /\ DOMAIN c.view = {c.key[2]} \cup {e[2] : e \in {e \in l : e[1] = c.key[2]}}
    /\ \A n \in DOMAIN c.view : Arrives(c, n, w, v)

\* What the scan has found, and what a client was made with, is new or is going
\* to be, unless something was published that is not known to it.
FoundInv == \A k \in Unserved : k \in mgr.missed \/ Awaited(mgr.found[k], k[2], wire, ver)

MadeInv ==
    mgr.pc = "subscribe" =>
        \/ mgr.key \in mgr.missed
        \/ EdgeOnWire(mgr.key, wire, made)
        \/ Fresh(inst[states[mgr.key]], wire, ver, live)

\* A client that has missed nothing is about to be ended, or is fresh.
Served(c, w, v, l, m) ==
    c.st = "run" /\ c.sub =>
        c.missed \/ EdgeQueued(c) \/ EdgeOnWire(c.key, w, m) \/ Fresh(c, w, v, l)

ServedInv == \A i \in Slot : Served(inst[i], wire, ver, live, made)

MInv == MType /\ ClientInv /\ ScanInv

CInv == MInv /\ WireInv /\ FoundInv /\ MadeInv /\ ServedInv

-----------------------------------------------------------------------------
(* Types are kept *)

\* The empty function is a function on a part of any set.
LEMMA EmptyPartial == ASSUME NEW S, NEW T PROVE <<>> \in Partial(S, T)
<1>1. <<>> \in [{} -> T]
  OBVIOUS
<1> QED BY <1>1 DEF Partial

\* A function belongs to the partial functions if its domain and values do.
LEMMA IsPartial ==
    ASSUME NEW S, NEW T, NEW R \in SUBSET S, NEW f \in [R -> T]
    PROVE  f \in Partial(S, T)
BY DEF Partial

\* Domain and values of a partial function.
LEMMA PartialIs ==
    ASSUME NEW S, NEW T, NEW f \in Partial(S, T)
    PROVE  /\ DOMAIN f \subseteq S /\ f \in [DOMAIN f -> T]
           /\ \A x \in DOMAIN f : f[x] \in T
BY DEF Partial

\* A key of clientStates is an edge to a node of the managed type.
LEMMA KeyIs == ASSUME NEW k \in Key PROVE k[2] \in Node /\ k \in Edge /\ k[2] \in ClientNode
BY ManagerAssumption DEF Key, Node

\* The client that stands for no client, and one that is told to stop.
LEMMA NoInstType == NoInst \in InstType
<1>1. <<>> \in Partial(Node, Nat)
  BY EmptyPartial
<1> QED BY <1>1 DEF NoInst, InstType

\* A client with another queue is a client, and the same otherwise.
LEMMA WithQueue ==
    ASSUME NEW c \in InstType, NEW q \in Seq(Announcement)
    PROVE  LET d == [c EXCEPT !.queue = q]
           IN  /\ d \in InstType /\ d.queue = q
               /\ d.st = c.st /\ d.key = c.key /\ d.view = c.view
               /\ d.sub = c.sub /\ d.missed = c.missed
BY DEF InstType

\* clientState.stop: a client that runs is told to stop and keeps its key;
\* others stay as they are.
LEMMA StoppedType ==
    ASSUME NEW c \in InstType
    PROVE  /\ Stopped(c) \in InstType
           /\ Stopped(c).key = c.key
           /\ Stopped(c).st = IF c.st = "run" THEN "stop" ELSE c.st
           /\ c.st # "run" => Stopped(c) = c
BY NoInstType DEF Stopped, InstType, NoInst

\* The main loop before a scan and after one.
LEMMA SelectType == ASSUME mgr \in MgrType
                    PROVE  /\ Scan \in MgrType /\ Select \in MgrType /\ ScanUnlessStopping \in MgrType
                           /\ Scan.pc = "list" /\ Select.pc = "select"
                           /\ DOMAIN Scan.found = {} /\ DOMAIN Select.found = {}
                           /\ Scan.key = mgr.key /\ Select.key = mgr.key
<1>1. <<>> \in Partial(Key, Nat) /\ DOMAIN <<>> = {}
  BY EmptyPartial
<1>2. <<"nodes", Root>> \in {"nodes", "parents"} \X Node
  BY DEF Node
<1> QED BY <1>1, <1>2 DEF Scan, Select, ScanUnlessStopping, MgrType

\* A scan finds keys only.
LEMMA UnservedKeys == ASSUME mgr \in MgrType PROVE DOMAIN mgr.found \subseteq Key /\ Unserved \subseteq Key
<1>1. mgr.found \in Partial(Key, Nat)
  BY DEF MgrType
<1> QED BY <1>1, PartialIs DEF Unserved

\* The initial values have their types.
LEMMA MTypeInit == Init => MType
<1> SUFFICES ASSUME Init PROVE MType
  OBVIOUS
<1>1. made \in SUBSET Edge /\ live \in SUBSET made
  BY ManagerAssumption DEF Init
<1>2. mgr \in MgrType
  <2>1. <<>> \in Partial(Key, Nat)
    BY EmptyPartial
  <2> QED BY <2>1 DEF Init, MgrType
<1>3. states \in Partial(Key, Slot)
  BY EmptyPartial DEF Init
<1>4. inst \in [Slot -> InstType]
  BY NoInstType DEF Init
<1>5. wire \in Seq(Announcement) /\ ver \in [Node -> Nat]
  BY DEF Init
<1>6. signals \in Nat /\ stop \in BOOLEAN /\ events \in Nat
  BY DEF Init
<1> QED BY <1>1, <1>2, <1>3, <1>4, <1>5, <1>6 DEF MType

\* Stopping clients keeps their types.
LEMMA StopClientsType ==
    ASSUME MType, NEW K, StopClients(K)
    PROVE  inst' \in [Slot -> InstType]
<1>1. \A i \in Slot : inst[i] \in InstType /\ Stopped(inst[i]) \in InstType
  BY StoppedType DEF MType
<1> QED BY <1>1 DEF StopClients

\* As long as a node has no client, a clientState is free: those that are in
\* use are those of other nodes.
LEMMA FreeSlot ==
    ASSUME MType, ClientInv, Unserved # {}
    PROVE  /\ (CHOOSE i \in Slot : inst[i].st = "none") \in Slot
           /\ inst[CHOOSE i \in Slot : inst[i].st = "none"].st = "none"
<1> SUFFICES ASSUME \A i \in Slot : inst[i].st # "none" PROVE FALSE
  OBVIOUS
<1>1. PICK k \in Unserved : TRUE
  OBVIOUS
<1>2. k \in Key /\ k \notin DOMAIN states
  BY UnservedKeys DEF MType, Unserved
<1> DEFINE f == [i \in Slot |-> inst[i].key]
           K == Key \ {k}
<1>3. IsFiniteSet(Key) /\ IsFiniteSet(Slot)
  <2>1. IsFiniteSet(Node) /\ IsFiniteSet(Slot)
    BY ManagerAssumption
  <2>2. IsFiniteSet(Node \X Node)
    BY <2>1, FS_Product
  <2>3. Key \subseteq Node \X Node
    BY ManagerAssumption DEF Key
  <2> QED BY <2>1, <2>2, <2>3, FS_Subset
<1>4. f \in Injection(Slot, K)
  <2>1. \A i \in Slot : inst[i].key \in Key /\ inst[i].key # k
    BY <1>2 DEF ClientInv, OneClient
  <2>2. \A i, j \in Slot : inst[i].key = inst[j].key => i = j
    BY DEF ClientInv, OneClient
  <2>3. f \in [Slot -> K]
    BY <2>1
  <2> QED BY <2>2, <2>3 DEF Injection, IsInjective
<1>5. IsFiniteSet(K) /\ Cardinality(K) = Cardinality(Key) - 1
  BY <1>2, <1>3, FS_RemoveElement
<1>6. Cardinality(Slot) <= Cardinality(K)
  <2> HIDE DEF f, K
  <2> QED BY <1>3, <1>4, <1>5, FS_Injection
<1>7. Cardinality(Key) \in Nat /\ Cardinality(Slot) \in Nat
  BY <1>3, FS_CardinalityType
<1>8. Cardinality(Slot) >= Cardinality(Key)
  BY ManagerAssumption
<1> QED BY <1>5, <1>6, <1>7, <1>8

\* What ScanSubscribe does to the client that was made last.
LEMMA SubscribeIs ==
    ASSUME MType, ScanInv, ScanSubscribe
    PROVE  LET i == states[mgr.key]
               c == [inst[i] EXCEPT !.sub = TRUE, !.missed = mgr.key \in mgr.missed]
           IN  /\ i \in Slot /\ mgr.key \in DOMAIN states
               /\ c \in InstType /\ c.sub /\ c.missed = (mgr.key \in mgr.missed)
               /\ c.st = inst[i].st /\ c.key = inst[i].key /\ c.view = inst[i].view
               /\ c.queue = inst[i].queue
               /\ inst' = [inst EXCEPT ![i] = c]
<1> DEFINE i == states[mgr.key]
           b == mgr.key \in mgr.missed
           c == [inst[i] EXCEPT !.sub = TRUE, !.missed = b]
<1>1. i \in Slot /\ mgr.key \in DOMAIN states
  BY PartialIs DEF ScanSubscribe, ScanInv, MType
<1>2. inst' = [inst EXCEPT ![i].sub = TRUE, ![i].missed = b]
  BY DEF ScanSubscribe
<1>3. inst[i] \in InstType /\ inst \in [Slot -> InstType] /\ b \in BOOLEAN
  BY <1>1 DEF MType
<1> HIDE DEF i, b
<1>4. /\ c \in InstType /\ c.sub /\ c.missed = b
      /\ c.st = inst[i].st /\ c.key = inst[i].key /\ c.view = inst[i].view
      /\ c.queue = inst[i].queue
  BY <1>3 DEF InstType
<1>5. inst' = [inst EXCEPT ![i] = c]
  BY <1>1, <1>2, <1>3 DEF InstType
<1> QED BY <1>1, <1>4, <1>5 DEF i, b

\* Every step keeps the types.
LEMMA MTypeStep == MInv /\ [Next]_vars => MType'
<1> SUFFICES ASSUME MType, ClientInv, ScanInv, [Next]_vars PROVE MType'
  BY DEF MInv
<1>1. CASE WriteEdge
  <2>1. PICK e \in Edge :
            /\ events' = events + 1
            /\ made' = made \cup {e}
            /\ live' = IF e \in live THEN live \ {e} ELSE live \cup {e}
            /\ wire' = Append(wire, [edge |-> TRUE, created |-> e \notin made,
                                     node |-> e[2], ver |-> 0])
            /\ UNCHANGED <<ver, mgr, signals, states, inst, stop>>
    BY <1>1 DEF WriteEdge
  <2>2. e[2] \in Node
    BY ManagerAssumption
  <2>3. [edge |-> TRUE, created |-> e \notin made, node |-> e[2], ver |-> 0] \in Announcement
    BY <2>2 DEF Announcement
  <2> QED BY <2>1, <2>3 DEF MType
<1>2. CASE WritePoints
  <2>1. PICK n \in Touched :
            /\ events' = events + 1
            /\ ver' = [ver EXCEPT ![n] = @ + 1]
            /\ wire' = Append(wire, [edge |-> FALSE, created |-> FALSE,
                                     node |-> n, ver |-> ver[n] + 1])
            /\ UNCHANGED <<made, live, mgr, signals, states, inst, stop>>
    BY <1>2 DEF WritePoints
  <2>2. n \in Node
    BY ManagerAssumption DEF Node
  <2>3. [edge |-> FALSE, created |-> FALSE, node |-> n, ver |-> ver[n] + 1] \in Announcement
    BY <2>2 DEF Announcement, MType
  <2> QED BY <2>1, <2>2, <2>3 DEF MType
<1>3. CASE Publish
  <2> DEFINE a  == Head(wire)
             to == Above(IF a.edge THEN made ELSE live, a.node)
  <2>1. /\ wire # <<>>
        /\ signals' \in {signals, signals + 1}
        /\ inst' = [i \in Slot |->
                  IF inst[i].st = "run" /\ inst[i].sub /\ inst[i].key[2] \in to
                  THEN [inst[i] EXCEPT !.queue = Append(@, a)] ELSE inst[i]]
        /\ mgr' = [mgr EXCEPT !.missed =
                         @ \cup {k \in Unserved \cup ({mgr.key} \cap Key) : k[2] \in to}]
        /\ wire' = Tail(wire)
        /\ UNCHANGED <<made, live, ver, states, stop, events>>
    BY <1>3 DEF Publish
  <2>2. a \in Announcement /\ wire' \in Seq(Announcement)
    BY <2>1 DEF MType
  <2> HIDE DEF a, to
  <2>3. inst' \in [Slot -> InstType]
    <3>1. \A i \in Slot : [inst[i] EXCEPT !.queue = Append(@, a)] \in InstType
      <4> TAKE i \in Slot
      <4>1. inst[i] \in InstType
        BY DEF MType
      <4>2. Append(inst[i].queue, a) \in Seq(Announcement)
        BY <2>2, <4>1 DEF InstType
      <4> QED BY <4>1, <4>2, WithQueue
    <3> QED BY <2>1, <3>1 DEF MType
  <2>4. mgr' \in MgrType
    <3>1. Unserved \subseteq Key
      BY UnservedKeys DEF MType
    <3> QED BY <3>1, <2>1 DEF MType, MgrType
  <2> QED BY <2>1, <2>2, <2>3, <2>4 DEF MType
<1>4. CASE Stop
  BY <1>4 DEF Stop, store, MType
<1>5. ASSUME NEW i \in Slot, Callback(i) PROVE MType'
  <2> DEFINE a == Head(inst[i].queue)
             c == [inst[i] EXCEPT !.queue = Tail(@)]
             d == IF a.edge THEN Stopped(c)
                  ELSE IF a.node \in DOMAIN c.view
                  THEN [c EXCEPT !.view[a.node] = a.ver]
                  ELSE c
  <2>1. inst[i].queue # <<>> /\ inst' = [inst EXCEPT ![i] = d]
        /\ UNCHANGED <<store, mgr, signals, states, stop, events>>
    BY <1>5 DEF Callback
  <2>2. a \in Announcement /\ c \in InstType
    <3>1. inst[i] \in InstType
      BY DEF MType
    <3>2. inst[i].queue \in Seq(Announcement)
      BY <3>1 DEF InstType
    <3>3. a \in Announcement /\ Tail(inst[i].queue) \in Seq(Announcement)
      BY <2>1, <3>2
    <3> QED BY <3>1, <3>3, WithQueue
  <2>3. d \in InstType
    <3> HIDE DEF c, a
    <3>1. Stopped(c) \in InstType
      BY <2>2, StoppedType
    <3>2. CASE a.node \in DOMAIN c.view
      <4>1. DOMAIN c.view \subseteq Node /\ c.view \in [DOMAIN c.view -> Nat]
        BY <2>2, PartialIs DEF InstType
      <4>2. [c.view EXCEPT ![a.node] = a.ver] \in [DOMAIN c.view -> Nat]
        BY <2>2, <4>1, <3>2 DEF Announcement
      <4>3. [c.view EXCEPT ![a.node] = a.ver] \in Partial(Node, Nat)
        BY <4>1, <4>2, IsPartial
      <4>4. [c EXCEPT !.view[a.node] = a.ver] \in InstType
        BY <2>2, <4>3 DEF InstType
      <4> QED BY <3>1, <4>4, <2>2
    <3> QED BY <3>1, <3>2, <2>2
  <2> HIDE DEF d
  <2> QED BY <2>1, <2>3 DEF MType, store
<1>6. ASSUME NEW i \in Slot, RunEnds(i) PROVE MType'
  BY <1>6 DEF RunEnds, store, MType, InstType
<1>7. ASSUME NEW i \in Slot, SelectDelete(i) PROVE MType'
  <2>1. states' \in Partial(Key, Slot)
    <3>1. states \in Partial(Key, Slot)
      BY DEF MType
    <3>2. DOMAIN states \subseteq Key /\ \A x \in DOMAIN states : states[x] \in Slot
      BY <3>1, PartialIs
    <3> DEFINE R == DOMAIN states \ {inst[i].key}
    <3>3. states' \in [R -> Slot] /\ R \in SUBSET Key
      BY <1>7, <3>2 DEF SelectDelete
    <3> QED BY <3>3, IsPartial
  <2>2. mgr' \in MgrType
    <3>1. ScanUnlessStopping \in MgrType
      BY SelectType DEF MType
    <3>2. [mgr EXCEPT !.pc = "done"] \in MgrType
      BY DEF MType, MgrType
    <3> QED BY <1>7, <3>1, <3>2 DEF SelectDelete
  <2>3. inst' \in [Slot -> InstType]
    BY <1>7, NoInstType DEF SelectDelete, MType
  <2> QED BY <1>7, <2>1, <2>2, <2>3 DEF SelectDelete, store, MType
<1>8. CASE ScanList
  <2>1. PICK t \in mgr.todo :
          LET keys   == {e \in live : e \in Key /\ e[1] = t[2]}
              groups == {e \in live : e[1] = t[2] /\ e[2] \in Group}
          IN  mgr' = IF t[1] = "nodes"
                      THEN [mgr EXCEPT
                          !.todo  = (@ \ {t}) \cup {<<"parents", t[2]>>},
                          !.found = [k \in keys \cup DOMAIN @ |->
                                         IF k \in keys THEN ver[k[2]] ELSE mgr.found[k]]]
                      ELSE [mgr EXCEPT
                          !.todo = (@ \ {t}) \cup {<<"nodes", e[2]>> : e \in groups}]
    BY <1>8 DEF ScanList
  <2> DEFINE keys   == {e \in live : e \in Key /\ e[1] = t[2]}
             groups == {e \in live : e[1] = t[2] /\ e[2] \in Group}
             found  == [k \in keys \cup DOMAIN mgr.found |->
                           IF k \in keys THEN ver[k[2]] ELSE mgr.found[k]]
  <2>2. found \in Partial(Key, Nat)
    <3>1. mgr.found \in Partial(Key, Nat) /\ ver \in [Node -> Nat]
      BY DEF MType, MgrType
    <3>2. DOMAIN mgr.found \subseteq Key /\ \A x \in DOMAIN mgr.found : mgr.found[x] \in Nat
      BY <3>1, PartialIs
    <3> DEFINE R == keys \cup DOMAIN mgr.found
    <3>3. R \in SUBSET Key
      BY <3>2
    <3>4. \A k \in keys : ver[k[2]] \in Nat
      BY <3>1, KeyIs
    <3>5. found \in [R -> Nat]
      BY <3>2, <3>4
    <3> HIDE DEF R, found
    <3> QED BY <3>3, <3>5, IsPartial
  <2>3. /\ <<"parents", t[2]>> \in {"nodes", "parents"} \X Node
        /\ \A e \in groups : <<"nodes", e[2]>> \in {"nodes", "parents"} \X Node
    <3>1. t \in {"nodes", "parents"} \X Node
      BY DEF MType, MgrType
    <3>2. \A e \in groups : e[2] \in Node
      BY DEF Node
    <3> QED BY <3>1, <3>2
  <2>4. mgr' = IF t[1] = "nodes"
               THEN [mgr EXCEPT !.todo  = (@ \ {t}) \cup {<<"parents", t[2]>>}, !.found = found]
               ELSE [mgr EXCEPT !.todo = (@ \ {t}) \cup {<<"nodes", e[2]>> : e \in groups}]
    BY <2>1
  <2> HIDE DEF found, groups
  <2>5. mgr' \in MgrType
    <3> DEFINE down == {<<"nodes", e[2]>> : e \in groups}
    <3>1. down \in SUBSET ({"nodes", "parents"} \X Node)
      BY <2>3
    <3> HIDE DEF down
    <3>2. mgr' = IF t[1] = "nodes"
                 THEN [mgr EXCEPT !.todo = (@ \ {t}) \cup {<<"parents", t[2]>>}, !.found = found]
                 ELSE [mgr EXCEPT !.todo = (@ \ {t}) \cup down]
      BY <2>4 DEF down
    <3>3. /\ (mgr.todo \ {t}) \cup {<<"parents", t[2]>>} \in SUBSET ({"nodes", "parents"} \X Node)
          /\ (mgr.todo \ {t}) \cup down \in SUBSET ({"nodes", "parents"} \X Node)
      BY <3>1, <2>3 DEF MType, MgrType
    <3> QED BY <3>2, <3>3, <2>2 DEF MType, MgrType
  <2> QED BY <1>8, <2>5 DEF ScanList, store, MType
<1>9. CASE ScanFails
  BY <1>9, SelectType DEF ScanFails, store, MType
<1>10. CASE ScanListed
  <2>1. [mgr EXCEPT !.pc = "create"] \in MgrType /\ Select \in MgrType
    BY SelectType DEF MType, MgrType
  <2> QED BY <1>10, <2>1 DEF ScanListed, store, MType
<1>11. CASE ScanCreate
  <2> DEFINE i == CHOOSE i \in Slot : inst[i].st = "none"
  <2>1. PICK k \in Unserved :
            /\ inst' = [inst EXCEPT ![i] =
                      [NoInst EXCEPT !.st = "run", !.key = k,
                          !.view = [n \in {k[2]} \cup Kids(k[2]) |->
                              IF n = k[2] THEN mgr.found[k] ELSE ver[n]]]]
            /\ states' = [x \in DOMAIN states \cup {k} |->
                                 IF x = k THEN i ELSE states[x]]
            /\ mgr' = [mgr EXCEPT !.pc = "subscribe", !.key = k]
            /\ UNCHANGED <<store, signals, stop, events>>
    BY <1>11 DEF ScanCreate
  <2>2. k \in Key /\ k[2] \in Node /\ k \in DOMAIN mgr.found
    BY UnservedKeys, KeyIs DEF MType, Unserved
  <2>3. i \in Slot
    BY <1>11, FreeSlot DEF ScanCreate
  <2> HIDE DEF i
  <2> DEFINE D == {k[2]} \cup Kids(k[2])
             view == [n \in D |-> IF n = k[2] THEN mgr.found[k] ELSE ver[n]]
             c == [NoInst EXCEPT !.st = "run", !.key = k, !.view = view]
  <2>4. D \in SUBSET Node
    BY <2>2, ManagerAssumption DEF Kids, MType
  <2>5. view \in [D -> Nat]
    <3>1. mgr.found[k] \in Nat
      BY <2>2, PartialIs DEF MType, MgrType
    <3> HIDE DEF D
    <3> QED BY <2>4, <3>1 DEF MType
  <2>6. view \in Partial(Node, Nat)
    <3> HIDE DEF view, D
    <3> QED BY <2>4, <2>5, IsPartial
  <2>7. c \in InstType
    <3> HIDE DEF view
    <3> QED BY <2>2, <2>6, NoInstType DEF InstType
  <2>8. inst' = [inst EXCEPT ![i] = c]
    BY <2>1
  <2> HIDE DEF c
  <2>9. inst' \in [Slot -> InstType]
    BY <2>7, <2>8 DEF MType
  <2>10. states' \in Partial(Key, Slot)
    <3>1. states \in Partial(Key, Slot)
      BY DEF MType
    <3>2. DOMAIN states \subseteq Key /\ \A x \in DOMAIN states : states[x] \in Slot
      BY <3>1, PartialIs
    <3> DEFINE R == DOMAIN states \cup {k}
    <3>3. states' \in [R -> Slot] /\ R \in SUBSET Key
      BY <2>1, <2>2, <2>3, <3>2
    <3> QED BY <3>3, IsPartial
  <2>11. mgr' \in MgrType
    BY <2>1, <2>2 DEF MType, MgrType
  <2> QED BY <2>1, <2>9, <2>10, <2>11 DEF MType, store
<1>12. CASE ScanSubscribe
  <2>1. inst' \in [Slot -> InstType]
    BY <1>12, SubscribeIs DEF MType
  <2>2. mgr' \in MgrType
    BY <1>12 DEF ScanSubscribe, MType, MgrType
  <2> QED BY <1>12, <2>1, <2>2 DEF ScanSubscribe, store, MType
<1>13. CASE ScanRemove
  BY <1>13, StopClientsType, SelectType DEF ScanRemove, store, MType
<1>14. CASE Start
  BY <1>14, SelectType DEF Start, store, MType
<1>15. CASE SelectTick
  BY <1>15, SelectType DEF SelectTick, store, MType
<1>16. CASE SelectScan
  BY <1>16, SelectType DEF SelectScan, store, MType
<1>17. CASE SelectStop
  <2>1. mgr' \in MgrType
    BY <1>17 DEF SelectStop, MType, MgrType
  <2> QED BY <1>17, <2>1, StopClientsType DEF SelectStop, store, MType
<1>18. CASE UNCHANGED vars
  BY <1>18 DEF vars, MType
<1> QED
  BY <1>1, <1>2, <1>3, <1>4, <1>5, <1>6, <1>7, <1>8, <1>9, <1>10, <1>11, <1>12,
     <1>13, <1>14, <1>15, <1>16, <1>17, <1>18 DEF Next

-----------------------------------------------------------------------------
(* One client for a node: the steps *)

\* Clients may go on, be stopped or end, and the map stays as it is.
SameClients ==
    /\ states' = states
    /\ \A i \in Slot : /\ inst'[i].key = inst[i].key
                       /\ inst'[i].st = "none" <=> inst[i].st = "none"

\* Map and clients still correspond when no client comes or goes.
LEMMA SameClientsKeep ==
    ASSUME MType, ClientInv, SameClients PROVE ClientInv'
<1>1. \A k \in DOMAIN states : states[k] \in Slot
  BY PartialIs DEF MType
<1> QED BY <1>1 DEF ClientInv, OneClient, SameClients

\* Stopping clients takes none away.
LEMMA StopClientsKeep ==
    ASSUME MType, NEW K, StopClients(K), states' = states
    PROVE  SameClients
<1> SUFFICES ASSUME NEW i \in Slot
             PROVE  /\ inst'[i].key = inst[i].key
                    /\ inst'[i].st = "none" <=> inst[i].st = "none"
  BY DEF SameClients
<1>1. inst[i] \in InstType
  BY DEF MType
<1>2. inst'[i] \in {inst[i], Stopped(inst[i])}
  BY DEF StopClients
<1> QED BY <1>1, <1>2, StoppedType

\* What the callback of a client's subscription does: an edge stops the client,
\* a point is in its configuration afterwards, if the node is.
LEMMA CallbackIs ==
    ASSUME MType, NEW i \in Slot, Callback(i)
    PROVE  LET q == inst[i].queue
               a == Head(q)
               d == inst'[i]
           IN  /\ q # <<>> /\ q \in Seq(Announcement) /\ a \in Announcement
               /\ \A j \in Slot \ {i} : inst'[j] = inst[j]
               /\ d.key = inst[i].key
               /\ d.st = "none" <=> inst[i].st = "none"
               /\ d.st = "run" => inst[i].st = "run"
               /\ a.edge => d.st # "run"
               /\ ~a.edge => /\ d.st = inst[i].st /\ d.sub = inst[i].sub
                             /\ d.missed = inst[i].missed
                             /\ d.queue = Tail(q)
                             /\ d.view = IF a.node \in DOMAIN inst[i].view
                                         THEN [inst[i].view EXCEPT ![a.node] = a.ver]
                                         ELSE inst[i].view
<1> DEFINE a == Head(inst[i].queue)
           c == [inst[i] EXCEPT !.queue = Tail(@)]
           d == IF a.edge THEN Stopped(c)
                ELSE IF a.node \in DOMAIN c.view
                THEN [c EXCEPT !.view[a.node] = a.ver]
                ELSE c
<1>1. inst[i].queue # <<>> /\ inst' = [inst EXCEPT ![i] = d]
  BY DEF Callback
<1>2. inst[i] \in InstType /\ inst[i].queue \in Seq(Announcement)
  BY DEF MType, InstType
<1>3. a \in Announcement /\ Tail(inst[i].queue) \in Seq(Announcement)
  BY <1>1, <1>2
<1>4. /\ c \in InstType /\ c.queue = Tail(inst[i].queue) /\ c.st = inst[i].st
      /\ c.key = inst[i].key /\ c.view = inst[i].view /\ c.sub = inst[i].sub
      /\ c.missed = inst[i].missed
  BY <1>2, <1>3, WithQueue
<1>5. inst'[i] = d /\ \A j \in Slot \ {i} : inst'[j] = inst[j]
  <2> HIDE DEF d
  <2> QED BY <1>1 DEF MType
<1> HIDE DEF a, c
<1>6. CASE a.edge
  <2>1. d = Stopped(c)
    BY <1>6
  <2> QED BY <1>1, <1>2, <1>3, <1>4, <1>5, <1>6, <2>1, StoppedType DEF a
<1>7. CASE ~a.edge /\ a.node \in DOMAIN c.view
  <2>1. d = [c EXCEPT !.view = [c.view EXCEPT ![a.node] = a.ver]]
    BY <1>7
  <2>2. /\ d.queue = c.queue /\ d.st = c.st /\ d.key = c.key /\ d.sub = c.sub
        /\ d.missed = c.missed /\ d.view = [c.view EXCEPT ![a.node] = a.ver]
    <3> HIDE DEF d
    <3> QED BY <1>4, <2>1 DEF InstType
  <2> HIDE DEF d
  <2> QED BY <1>1, <1>2, <1>3, <1>4, <1>5, <1>7, <2>2 DEF a
<1>8. CASE ~a.edge /\ a.node \notin DOMAIN c.view
  <2>1. d = c
    BY <1>8
  <2> HIDE DEF d
  <2> QED BY <1>1, <1>2, <1>3, <1>4, <1>5, <1>8, <2>1 DEF a
<1> QED BY <1>6, <1>7, <1>8

\* What Publish does: the clients that are subscribed above the node get the
\* announcement, the keys that the scan is to serve are marked.
LEMMA PublishIs ==
    ASSUME MType, Publish
    PROVE  LET a  == Head(wire)
               to == Above(IF a.edge THEN made ELSE live, a.node)
           IN  /\ wire # <<>> /\ a \in Announcement /\ wire' = Tail(wire)
               /\ \A i \in Slot :
                     /\ inst'[i].key = inst[i].key /\ inst'[i].st = inst[i].st
                     /\ inst'[i].sub = inst[i].sub /\ inst'[i].view = inst[i].view
                     /\ inst'[i].missed = inst[i].missed
                     /\ inst'[i].queue =
                           IF inst[i].st = "run" /\ inst[i].sub /\ inst[i].key[2] \in to
                           THEN Append(inst[i].queue, a) ELSE inst[i].queue
               /\ mgr'.pc = mgr.pc /\ mgr'.key = mgr.key /\ mgr'.found = mgr.found
               /\ mgr'.missed = mgr.missed
                     \cup {k \in Unserved \cup ({mgr.key} \cap Key) : k[2] \in to}
               /\ UNCHANGED <<made, live, ver, states>>
<1> DEFINE a  == Head(wire)
           to == Above(IF a.edge THEN made ELSE live, a.node)
<1>1. /\ wire # <<>>
      /\ inst' = [i \in Slot |->
                  IF inst[i].st = "run" /\ inst[i].sub /\ inst[i].key[2] \in to
                  THEN [inst[i] EXCEPT !.queue = Append(@, a)] ELSE inst[i]]
      /\ mgr' = [mgr EXCEPT !.missed =
                         @ \cup {k \in Unserved \cup ({mgr.key} \cap Key) : k[2] \in to}]
      /\ wire' = Tail(wire)
      /\ UNCHANGED <<made, live, ver, states>>
  BY DEF Publish
<1>2. a \in Announcement
  BY <1>1 DEF MType
<1> HIDE DEF a, to
<1>3. ASSUME NEW i \in Slot
      PROVE  /\ inst'[i].key = inst[i].key /\ inst'[i].st = inst[i].st
             /\ inst'[i].sub = inst[i].sub /\ inst'[i].view = inst[i].view
             /\ inst'[i].missed = inst[i].missed
             /\ inst'[i].queue =
                   IF inst[i].st = "run" /\ inst[i].sub /\ inst[i].key[2] \in to
                   THEN Append(inst[i].queue, a) ELSE inst[i].queue
  <2>1. inst[i] \in InstType
    BY DEF MType
  <2>2. Append(inst[i].queue, a) \in Seq(Announcement)
    BY <1>2, <2>1 DEF InstType
  <2>3. inst'[i] = IF inst[i].st = "run" /\ inst[i].sub /\ inst[i].key[2] \in to
                   THEN [inst[i] EXCEPT !.queue = Append(inst[i].queue, a)] ELSE inst[i]
    BY <1>1
  <2> QED BY <2>1, <2>2, <2>3, WithQueue
<1>4. /\ mgr'.pc = mgr.pc /\ mgr'.key = mgr.key /\ mgr'.found = mgr.found
      /\ mgr'.missed = mgr.missed
             \cup {k \in Unserved \cup ({mgr.key} \cap Key) : k[2] \in to}
  BY <1>1 DEF MType, MgrType
<1> QED BY <1>1, <1>2, <1>3, <1>4 DEF a, to

\* What ScanCreate does: node k gets client i.
Creates(k, i) ==
    /\ mgr.pc = "create" /\ inst[i].st = "none"
    /\ \A j \in Slot \ {i} : inst'[j] = inst[j]
    /\ inst'[i].st = "run" /\ inst'[i].key = k /\ ~inst'[i].sub
    /\ inst'[i].queue = <<>>
    /\ inst'[i].view = [n \in {k[2]} \cup Kids(k[2]) |->
                           IF n = k[2] THEN mgr.found[k] ELSE ver[n]]
    /\ states' = [x \in DOMAIN states \cup {k} |-> IF x = k THEN i ELSE states[x]]
    /\ mgr'.pc = "subscribe" /\ mgr'.key = k
    /\ mgr'.found = mgr.found /\ mgr'.missed = mgr.missed
    /\ UNCHANGED <<made, live, ver, wire>>

\* ScanCreate takes a clientState that is free.
LEMMA CreateIs ==
    ASSUME MType, ClientInv, ScanCreate
    PROVE  \E k \in Unserved, i \in Slot : Creates(k, i)
<1> DEFINE i == CHOOSE i \in Slot : inst[i].st = "none"
<1>1. PICK k \in Unserved :
            /\ mgr.pc = "create"
            /\ inst' = [inst EXCEPT ![i] =
                      [NoInst EXCEPT !.st = "run", !.key = k,
                          !.view = [n \in {k[2]} \cup Kids(k[2]) |->
                              IF n = k[2] THEN mgr.found[k] ELSE ver[n]]]]
            /\ states' = [x \in DOMAIN states \cup {k} |->
                                 IF x = k THEN i ELSE states[x]]
            /\ mgr' = [mgr EXCEPT !.pc = "subscribe", !.key = k]
            /\ UNCHANGED store
  BY DEF ScanCreate
<1>2. i \in Slot /\ inst[i].st = "none"
  BY FreeSlot
<1> HIDE DEF i
<1> DEFINE view == [n \in {k[2]} \cup Kids(k[2]) |-> IF n = k[2] THEN mgr.found[k] ELSE ver[n]]
           c == [NoInst EXCEPT !.st = "run", !.key = k, !.view = view]
<1>3. c.st = "run" /\ c.key = k /\ ~c.sub /\ c.queue = <<>> /\ c.view = view
  <2> HIDE DEF view
  <2> QED BY DEF NoInst
<1>4. inst' = [inst EXCEPT ![i] = c]
  BY <1>1
<1> HIDE DEF c
<1>5. inst'[i] = c /\ \A j \in Slot \ {i} : inst'[j] = inst[j]
  BY <1>2, <1>4 DEF MType
<1>6. mgr'.pc = "subscribe" /\ mgr'.key = k /\ mgr'.found = mgr.found /\ mgr'.missed = mgr.missed
  BY <1>1 DEF MType, MgrType
<1>7. Creates(k, i)
  BY <1>1, <1>2, <1>3, <1>5, <1>6 DEF store, Creates
<1> QED BY <1>2, <1>7

\* Every step keeps the map and the clients in correspondence.
LEMMA ClientStep == MInv /\ [Next]_vars => ClientInv'
<1> SUFFICES ASSUME MType, ClientInv, ScanInv, [Next]_vars PROVE ClientInv'
  BY DEF MInv
<1>1. CASE UNCHANGED <<states, inst>>
  BY <1>1 DEF ClientInv, OneClient
<1>2. CASE Publish
  <2>1. SameClients
    BY <1>2, PublishIs DEF SameClients
  <2> QED BY <2>1, SameClientsKeep
<1>3. ASSUME NEW i \in Slot, Callback(i) PROVE ClientInv'
  <2>1. states' = states
    BY <1>3 DEF Callback
  <2>2. \A j \in Slot : /\ inst'[j].key = inst[j].key
                        /\ inst'[j].st = "none" <=> inst[j].st = "none"
    BY <1>3, CallbackIs
  <2> QED BY <2>1, <2>2, SameClientsKeep DEF SameClients
<1>4. ASSUME NEW i \in Slot, RunEnds(i) PROVE ClientInv'
  <2>1. SameClients
    BY <1>4 DEF RunEnds, SameClients, MType, InstType
  <2> QED BY <2>1, SameClientsKeep
<1>5. ASSUME NEW i \in Slot, SelectDelete(i) PROVE ClientInv'
  <2>1. /\ inst[i].st = "ended"
        /\ inst'[i].st = "none" /\ \A j \in Slot \ {i} : inst'[j] = inst[j]
        /\ states' = [k \in DOMAIN states \ {inst[i].key} |-> states[k]]
    BY <1>5 DEF SelectDelete, MType, NoInst
  <2>2. \A k \in DOMAIN states : states[k] \in Slot
    BY PartialIs DEF MType
  <2>3. \A j \in Slot \ {i} : inst[j].st # "none" => inst[j].key # inst[i].key
    BY <2>1 DEF ClientInv, OneClient
  <2> QED BY <2>1, <2>2, <2>3 DEF ClientInv, OneClient
<1>6. CASE ScanCreate
  <2>1. PICK k \in Unserved, i \in Slot : Creates(k, i)
    BY <1>6, CreateIs
  <2>2. k \in Key /\ k \notin DOMAIN states
    BY UnservedKeys DEF MType, Unserved
  <2>3. \A x \in DOMAIN states : states[x] \in Slot /\ states[x] # i
    BY <2>1, PartialIs DEF MType, ClientInv, Creates
  <2>4. /\ inst'[i].st = "run" /\ inst'[i].key = k
        /\ \A j \in Slot \ {i} : inst'[j] = inst[j]
        /\ states' = [x \in DOMAIN states \cup {k} |-> IF x = k THEN i ELSE states[x]]
    BY <2>1 DEF Creates
  <2>5. states'[k] = i /\ k \in DOMAIN states'
        /\ DOMAIN states' = DOMAIN states \cup {k}
        /\ \A x \in DOMAIN states : states'[x] = states[x] /\ x \in DOMAIN states'
    BY <2>2, <2>4
  <2>6. OneClient'
    BY <2>2, <2>4, <2>5 DEF ClientInv, OneClient
  <2>7. \A x \in DOMAIN states' : inst'[states'[x]].st # "none" /\ inst'[states'[x]].key = x
    BY <2>3, <2>4, <2>5 DEF ClientInv
  <2>8. \A j \in Slot : inst'[j].st # "none" => inst'[j].key \in Key
    BY <2>2, <2>4 DEF ClientInv
  <2> QED BY <2>6, <2>7, <2>8 DEF ClientInv
<1>7. CASE ScanSubscribe
  <2>1. SameClients
    BY <1>7, SubscribeIs DEF SameClients, ScanSubscribe, MType
  <2> QED BY <2>1, SameClientsKeep
<1>8. CASE ScanRemove
  <2>1. SameClients
    BY <1>8, StopClientsKeep DEF ScanRemove
  <2> QED BY <2>1, SameClientsKeep
<1>9. CASE SelectStop
  <2>1. SameClients
    BY <1>9, StopClientsKeep DEF SelectStop
  <2> QED BY <2>1, SameClientsKeep
<1> QED
  BY <1>1, <1>2, <1>3, <1>4, <1>5, <1>6, <1>7, <1>8, <1>9
  DEF Next, vars, WriteEdge, WritePoints, Stop, ScanList, ScanFails, ScanListed, Start,
      SelectTick, SelectScan

\* Every step keeps what is known about the scan.
LEMMA ScanStepInv == MInv /\ [Next]_vars => ScanInv'
<1> SUFFICES ASSUME MType, ClientInv, ScanInv, [Next]_vars PROVE ScanInv'
  BY DEF MInv
<1>1. CASE UNCHANGED <<mgr, states, inst>>
  BY <1>1 DEF ScanInv
<1>2. CASE Publish
  BY <1>2, PublishIs, PartialIs DEF ScanInv, MType
<1>3. ASSUME NEW i \in Slot, Callback(i) PROVE ScanInv'
  <2>1. UNCHANGED <<mgr, states>>
    BY <1>3 DEF Callback
  <2>2. inst[i].queue # <<>> /\ \A j \in Slot \ {i} : inst'[j] = inst[j]
    BY <1>3, CallbackIs
  <2> QED BY <2>1, <2>2, PartialIs DEF ScanInv, MType
<1>4. ASSUME NEW i \in Slot, RunEnds(i) PROVE ScanInv'
  <2>1. UNCHANGED <<mgr, states>> /\ inst[i].st = "stop" /\ \A j \in Slot \ {i} : inst'[j] = inst[j]
    BY <1>4 DEF RunEnds, MType
  <2> QED BY <2>1, PartialIs DEF ScanInv, MType
<1>5. ASSUME NEW i \in Slot, SelectDelete(i) PROVE ScanInv'
  <2>1. mgr' \in {[mgr EXCEPT !.pc = "done"], mgr, Scan} /\ mgr.pc = "select"
    BY <1>5 DEF SelectDelete, ScanUnlessStopping
  <2>2. CASE mgr' = Scan
    BY <2>2, SelectType DEF MType, ScanInv
  <2>3. CASE mgr' \in {[mgr EXCEPT !.pc = "done"], mgr}
    BY <2>1, <2>3 DEF MType, MgrType, ScanInv
  <2> QED BY <2>1, <2>2, <2>3
<1>6. CASE ScanCreate
  <2>1. PICK k \in Unserved, i \in Slot : Creates(k, i)
    BY <1>6, CreateIs
  <2> QED BY <2>1 DEF Creates, ScanInv
<1>7. CASE ScanSubscribe
  BY <1>7 DEF ScanSubscribe, ScanInv, MType, MgrType
<1>8. CASE ScanRemove \/ ScanFails
  <2>1. mgr' = Select
    BY <1>8 DEF ScanRemove, ScanFails
  <2> QED BY <2>1, SelectType DEF MType, ScanInv
<1>9. CASE SelectStop
  BY <1>9 DEF SelectStop, ScanInv, MType, MgrType
<1>10. CASE ScanList
  BY <1>10 DEF ScanList, ScanInv, MType, MgrType
<1>11. CASE ScanListed
  <2>1. mgr' \in {[mgr EXCEPT !.pc = "create"], Select}
    BY <1>11 DEF ScanListed
  <2> QED BY <2>1, SelectType DEF MType, MgrType, ScanInv
<1>12. CASE Start \/ SelectTick \/ SelectScan
  <2>1. mgr' \in {mgr, Scan} /\ mgr.pc \in {"start", "select"}
    BY <1>12 DEF Start, SelectTick, SelectScan, ScanUnlessStopping
  <2>2. CASE mgr' = Scan
    BY <2>2, SelectType DEF MType, ScanInv
  <2>3. CASE mgr' = mgr
    BY <2>1, <2>3 DEF ScanInv
  <2> QED BY <2>1, <2>2, <2>3
<1> QED
  BY <1>1, <1>2, <1>3, <1>4, <1>5, <1>6, <1>7, <1>8, <1>9, <1>10, <1>11, <1>12
  DEF Next, vars, WriteEdge, WritePoints, Stop

\* The invariant holds in the beginning.
LEMMA MInvInit == Init => MInv
<1> SUFFICES ASSUME Init PROVE MInv
  OBVIOUS
<1>1. ClientInv
  BY DEF Init, ClientInv, OneClient, NoInst
<1>2. ScanInv
  BY DEF Init, ScanInv
<1> QED BY <1>1, <1>2, MTypeInit DEF MInv

\* MInv is an invariant.
LEMMA MInvariant == Spec => []MInv
<1>1. MInv /\ [Next]_vars => MInv'
  BY MTypeStep, ClientStep, ScanStepInv DEF MInv
<1> QED BY <1>1, MInvInit, PTL DEF Spec

\* Manager (client/manager.go): a client stays in clientStates until it has
\* ended, and a node never has two clients, however scans, restarts, ends and
\* announcements interleave and however many nodes there are.
THEOREM OneClientEach == Spec => []OneClient
<1>1. MInv => OneClient
  BY DEF MInv, ClientInv
<1> QED BY <1>1, MInvariant, PTL

-----------------------------------------------------------------------------
(* The nodes that an announcement is published to *)

\* A set of numbers that has 0 and every successor has all of them.
LEMMA NatSetInduction ==
    ASSUME NEW S \in SUBSET Nat, 0 \in S, \A n \in S : n + 1 \in S
    PROVE  S = Nat
<1> DEFINE T == Nat \ S
           R == {ss \in Nat \X Nat : ss[1] < ss[2]}
<1>1. IsWellFoundedOn(R, Nat)
  BY NatLessThanWellFounded DEF OpToRel
<1>2. SUFFICES ASSUME T # {} PROVE FALSE
  OBVIOUS
<1>3. PICK x \in T : \A y \in T : <<y, x>> \notin R
  <2> HIDE DEF R
  <2>1. T \subseteq Nat
    OBVIOUS
  <2> HIDE DEF T
  <2> QED
    BY <1>1, <1>2, <2>1, WFMin
<1>4. x \in Nat /\ x # 0 /\ x - 1 \in Nat
  OBVIOUS
<1>5. x - 1 \notin T
  <2>1. <<x - 1, x>> \in R
    BY <1>4
  <2> HIDE DEF R, T
  <2> QED
    BY <1>3, <2>1
<1>6. (x - 1) + 1 \in S
  BY <1>4, <1>5
<1> QED
  BY <1>4, <1>6

\* The step from the nodes that are found to those and their parents.
Up(E, N) == N \cup {e[1] : e \in {e \in E : e[2] \in N}}

IsAbove(g, E, n, m) == g = [k \in 0 .. m |-> IF k = 0 THEN {n} ELSE Up(E, g[k-1])]

\* For every depth there is a function that satisfies the equation of Above.
LEMMA AboveExists ==
    ASSUME NEW E, NEW n
    PROVE  \A m \in Nat : \E g : IsAbove(g, E, n, m)
<1> DEFINE S == {m \in Nat : \E g : IsAbove(g, E, n, m)}
<1>1. 0 \in S
  <2>1. IsAbove([k \in 0 .. 0 |-> {n}], E, n, 0)
    BY DEF IsAbove
  <2> QED BY <2>1
<1>2. ASSUME NEW m \in S PROVE m + 1 \in S
  <2>1. PICK g : IsAbove(g, E, n, m)
    OBVIOUS
  <2> DEFINE h == [k \in 0 .. m + 1 |-> IF k = m + 1 THEN Up(E, g[m]) ELSE g[k]]
  <2>2. \A k \in 0 .. m : h[k] = g[k]
    OBVIOUS
  <2>3. \A k \in 0 .. m + 1 : h[k] = IF k = 0 THEN {n} ELSE Up(E, h[k-1])
    <3> TAKE k \in 0 .. m + 1
    <3>1. CASE k = 0
      BY <2>1, <2>2, <3>1 DEF IsAbove
    <3>2. CASE k = m + 1
      <4>1. h[k-1] = g[m]
        BY <2>2, <3>2
      <4> QED BY <3>2, <4>1
    <3>3. CASE k \in 1 .. m
      <4>1. k - 1 \in 0 .. m /\ k \in 0 .. m /\ k # 0
        BY <3>3
      <4>2. g[k] = Up(E, g[k-1])
        BY <2>1, <4>1 DEF IsAbove
      <4> QED BY <2>2, <4>1, <4>2
    <3> QED BY <3>1, <3>2, <3>3
  <2>4. IsAbove(h, E, n, m + 1)
    <3> DEFINE f == [k \in 0 .. m + 1 |-> IF k = 0 THEN {n} ELSE Up(E, h[k-1])]
    <3>1. h = f
      BY <2>3
    <3> QED BY <3>1 DEF IsAbove
  <2> QED BY <2>4
<1>3. S \in SUBSET Nat
  OBVIOUS
<1> HIDE DEF S
<1>4. S = Nat
  BY <1>1, <1>2, <1>3, NatSetInduction
<1> QED BY <1>4 DEF S

\* Above, depth by depth.
Climbs(g, E, n) ==
    /\ g[0] = {n}
    /\ \A k \in 1 .. Cardinality(Node) : g[k] = Up(E, g[k-1])
    /\ Above(E, n) = g[Cardinality(Node)]

\* There is a node, and the nodes can be counted.
LEMMA NodesCount == Cardinality(Node) \in Nat /\ Cardinality(Node) >= 1
<1>1. IsFiniteSet(Node) /\ Root \in Node
  BY ManagerAssumption DEF Node
<1>2. Cardinality(Node) \in Nat /\ Cardinality(Node) # 0
  BY <1>1, FS_CardinalityType, FS_EmptySet
<1> QED BY <1>2

\* Above is computed depth by depth.
LEMMA AboveIs == ASSUME NEW E, NEW n PROVE \E g : Climbs(g, E, n)
<1> DEFINE M == Cardinality(Node)
           Eq(g) == g = [k \in 0 .. M |-> IF k = 0 THEN {n} ELSE Up(E, g[k-1])]
           R == CHOOSE g : Eq(g)
<1>1. M \in Nat
  BY NodesCount
<1>2. \E g : Eq(g)
  <2>1. \E g : IsAbove(g, E, n, M)
    BY <1>1, AboveExists
  <2> HIDE DEF M
  <2> QED BY <2>1, Zenon DEF IsAbove
<1>3. Eq(R)
  BY <1>2, Zenon
<1>4. Above(E, n) = R[M]
  BY Zenon DEF Above, Up
<1> HIDE DEF R
<1> DEFINE F == [k \in 0 .. M |-> IF k = 0 THEN {n} ELSE Up(E, R[k-1])]
<1>5. R = F
  BY <1>3, Zenon
<1> HIDE DEF M, Eq
<1>6. F[0] = {n} /\ \A k \in 1 .. M : F[k] = Up(E, R[k-1])
  BY <1>1
<1> HIDE DEF F
<1>7. R[0] = {n} /\ \A k \in 1 .. M : R[k] = Up(E, R[k-1])
  BY <1>5, <1>6
<1>8. Climbs(R, E, n)
  BY <1>4, <1>7 DEF Climbs, M
<1> QED BY <1>8

\* A node and its parents are among those that its announcements go to.
LEMMA AboveHas ==
    ASSUME NEW E, NEW n
    PROVE  n \in Above(E, n) /\ \A e \in E : e[2] = n => e[1] \in Above(E, n)
<1>1. PICK g : Climbs(g, E, n)
  BY AboveIs
<1> DEFINE M == Cardinality(Node)
           P == {n} \cup {e[1] : e \in {e \in E : e[2] = n}}
           S == {k \in Nat : k + 1 <= M => P \subseteq g[k+1]}
<1>2. M \in Nat /\ M >= 1
  BY NodesCount
<1>3. g[0] = {n} /\ \A k \in 1 .. M : g[k] = Up(E, g[k-1])
  BY <1>1 DEF Climbs
<1> HIDE DEF M
<1>4. 0 \in S
  <2>1. g[1] = Up(E, {n})
    BY <1>2, <1>3
  <2> QED BY <2>1 DEF Up
<1>5. ASSUME NEW k \in S PROVE k + 1 \in S
  <2> SUFFICES ASSUME (k + 1) + 1 <= M PROVE P \subseteq g[(k+1)+1]
    OBVIOUS
  <2>1. P \subseteq g[k+1]
    BY <1>2
  <2>2. g[(k+1)+1] = Up(E, g[k+1])
    BY <1>2, <1>3
  <2> HIDE DEF P
  <2> QED BY <2>1, <2>2 DEF Up
<1>6. S \in SUBSET Nat
  OBVIOUS
<1>7. S = Nat
  <2> HIDE DEF S
  <2> QED BY <1>4, <1>5, <1>6, NatSetInduction
<1>8. M - 1 \in S
  <2> HIDE DEF S
  <2> QED BY <1>2, <1>7
<1>9. P \subseteq g[M]
  <2> HIDE DEF P
  <2> QED BY <1>2, <1>8
<1> QED BY <1>1, <1>9 DEF Climbs, M

\* With more edges, an announcement goes to more nodes.
LEMMA AboveGrows ==
    ASSUME NEW E, NEW F, E \subseteq F, NEW n
    PROVE  Above(E, n) \subseteq Above(F, n)
<1>1. PICK g : Climbs(g, E, n)
  BY AboveIs
<1>2. PICK h : Climbs(h, F, n)
  BY AboveIs
<1> DEFINE M == Cardinality(Node)
           S == {k \in Nat : k <= M => g[k] \subseteq h[k]}
<1>3. M \in Nat
  BY NodesCount
<1>4. /\ g[0] = {n} /\ \A k \in 1 .. M : g[k] = Up(E, g[k-1])
      /\ h[0] = {n} /\ \A k \in 1 .. M : h[k] = Up(F, h[k-1])
  BY <1>1, <1>2 DEF Climbs
<1> HIDE DEF M
<1>5. 0 \in S
  BY <1>4
<1>6. ASSUME NEW k \in S PROVE k + 1 \in S
  <2> SUFFICES ASSUME k + 1 <= M PROVE g[k+1] \subseteq h[k+1]
    OBVIOUS
  <2>1. g[k] \subseteq h[k]
    BY <1>3
  <2>2. g[k+1] = Up(E, g[k]) /\ h[k+1] = Up(F, h[k])
    BY <1>3, <1>4
  <2> QED BY <2>1, <2>2 DEF Up
<1>7. S \in SUBSET Nat
  OBVIOUS
<1>8. S = Nat
  <2> HIDE DEF S
  <2> QED BY <1>5, <1>6, <1>7, NatSetInduction
<1>9. M \in S
  BY <1>3, <1>8
<1> QED BY <1>1, <1>2, <1>3, <1>9 DEF Climbs, M

-----------------------------------------------------------------------------
(* Announcements that are added and taken *)

\* What an announcement that is added does to the last one about a node.
LEMMA Appended ==
    ASSUME NEW s \in Seq(Announcement), NEW a \in Announcement, NEW n
    PROVE  /\ IsPoint(a, n) => LastIs(Append(s, a), n, a.ver)
           /\ ~IsPoint(a, n) /\ None(s, n) => None(Append(s, a), n)
           /\ \A v : ~IsPoint(a, n) /\ LastIs(s, n, v) => LastIs(Append(s, a), n, v)
<1> DEFINE t == Append(s, a)
<1>1. /\ DOMAIN t = 1 .. Len(s) + 1 /\ DOMAIN s = 1 .. Len(s) /\ Len(s) \in Nat
      /\ t[Len(s) + 1] = a
      /\ \A j \in 1 .. Len(s) : t[j] = s[j]
  OBVIOUS
<1> HIDE DEF t
<1>2. ASSUME IsPoint(a, n) PROVE LastIs(t, n, a.ver)
  <2>1. Len(s) + 1 \in DOMAIN t /\ \A l \in DOMAIN t : ~(Len(s) + 1 < l)
    BY <1>1
  <2> QED BY <1>1, <1>2, <2>1 DEF LastIs
<1>3. ASSUME ~IsPoint(a, n), None(s, n) PROVE None(t, n)
  BY <1>1, <1>3 DEF None
<1>4. ASSUME NEW v, ~IsPoint(a, n), LastIs(s, n, v) PROVE LastIs(t, n, v)
  <2>1. PICK j \in DOMAIN s : /\ IsPoint(s[j], n) /\ s[j].ver = v
                              /\ \A l \in DOMAIN s : j < l => ~IsPoint(s[l], n)
    BY <1>4 DEF LastIs
  <2>2. j \in DOMAIN t /\ IsPoint(t[j], n) /\ t[j].ver = v
    BY <1>1, <2>1
  <2>3. \A l \in DOMAIN t : j < l => ~IsPoint(t[l], n)
    BY <1>1, <1>4, <2>1
  <2> QED BY <2>2, <2>3 DEF LastIs
<1> QED BY <1>2, <1>3, <1>4 DEF t

\* What is left about a node when the first announcement is taken.
LEMMA Taken ==
    ASSUME NEW s \in Seq(Announcement), s # <<>>, NEW n
    PROVE  /\ None(s, n) => None(Tail(s), n) /\ ~IsPoint(Head(s), n)
           /\ \A v : LastIs(s, n, v) =>
                 \/ LastIs(Tail(s), n, v)
                 \/ None(Tail(s), n) /\ IsPoint(Head(s), n) /\ Head(s).ver = v
<1> DEFINE t == Tail(s)
<1>1. /\ DOMAIN t = 1 .. Len(s) - 1 /\ DOMAIN s = 1 .. Len(s) /\ Len(s) \in Nat
      /\ Head(s) = s[1] /\ 1 \in DOMAIN s
      /\ \A j \in DOMAIN t : t[j] = s[j+1]
  OBVIOUS
<1> HIDE DEF t
<1>2. ASSUME None(s, n) PROVE None(t, n) /\ ~IsPoint(Head(s), n)
  <2>1. \A j \in DOMAIN t : j + 1 \in DOMAIN s
    BY <1>1
  <2> QED BY <1>1, <1>2, <2>1 DEF None
<1>3. ASSUME NEW v, LastIs(s, n, v)
      PROVE  LastIs(t, n, v) \/ (None(t, n) /\ IsPoint(Head(s), n) /\ Head(s).ver = v)
  <2>1. PICK j \in DOMAIN s : /\ IsPoint(s[j], n) /\ s[j].ver = v
                              /\ \A l \in DOMAIN s : j < l => ~IsPoint(s[l], n)
    BY <1>3 DEF LastIs
  <2>2. CASE j = 1
    <3>1. \A l \in DOMAIN t : l + 1 \in DOMAIN s /\ j < l + 1
      BY <1>1, <2>2
    <3> QED BY <1>1, <2>1, <2>2, <3>1 DEF None
  <2>3. CASE j # 1
    <3>1. j - 1 \in DOMAIN t /\ t[j-1] = s[j]
      BY <1>1, <2>3
    <3>2. \A l \in DOMAIN t : j - 1 < l => l + 1 \in DOMAIN s /\ j < l + 1
      BY <1>1, <2>3
    <3>3. \A l \in DOMAIN t : j - 1 < l => ~IsPoint(t[l], n)
      BY <1>1, <2>1, <3>2
    <3> QED BY <2>1, <3>1, <3>3 DEF LastIs
  <2> QED BY <2>2, <2>3
<1> QED BY <1>2, <1>3 DEF t

\* Announcement a is of a write that takes the versions from v to x.
Announces(a, v, x) ==
    \A n \in Node : IF IsPoint(a, n) THEN a.ver = x[n] ELSE x[n] = v[n]

\* A write and its announcement keep what is awaited.
LEMMA AwaitedWrite ==
    ASSUME NEW w \in Seq(Announcement), NEW a \in Announcement, NEW v, NEW x,
           Announces(a, v, x), NEW n \in Node
    PROVE  /\ None(w, n) \/ LastIs(w, n, v[n]) =>
                 None(Append(w, a), n) \/ LastIs(Append(w, a), n, x[n])
           /\ \A y : Awaited(y, n, w, v) => Awaited(y, n, Append(w, a), x)
           /\ \A c : Arrives(c, n, w, v) => Arrives(c, n, Append(w, a), x)
<1>1. IF IsPoint(a, n) THEN a.ver = x[n] ELSE x[n] = v[n]
  BY DEF Announces
<1> QED BY <1>1, Appended DEF Awaited, Arrives

\* An edge on the wire still ends the client when more is written, and so does
\* the edge of a write below it.
LEMMA EdgeAppended ==
    ASSUME NEW w \in Seq(Announcement), NEW a \in Announcement, NEW k, NEW m, NEW m2,
           m \subseteq m2
    PROVE  /\ EdgeOnWire(k, w, m) => EdgeOnWire(k, Append(w, a), m2)
           /\ a.edge /\ k[2] \in Above(m2, a.node) => EdgeOnWire(k, Append(w, a), m2)
<1> DEFINE t == Append(w, a)
<1>1. /\ DOMAIN t = 1 .. Len(w) + 1 /\ DOMAIN w = 1 .. Len(w) /\ Len(w) \in Nat
      /\ t[Len(w) + 1] = a
      /\ \A j \in 1 .. Len(w) : t[j] = w[j]
  OBVIOUS
<1> HIDE DEF t
<1>2. ASSUME EdgeOnWire(k, w, m) PROVE EdgeOnWire(k, t, m2)
  <2>1. PICK j \in DOMAIN w : w[j].edge /\ k[2] \in Above(m, w[j].node)
    BY <1>2 DEF EdgeOnWire
  <2>2. k[2] \in Above(m2, w[j].node)
    BY <2>1, AboveGrows
  <2>3. j \in DOMAIN t /\ t[j] = w[j]
    BY <1>1
  <2> QED BY <2>1, <2>2, <2>3 DEF EdgeOnWire
<1>3. ASSUME a.edge, k[2] \in Above(m2, a.node) PROVE EdgeOnWire(k, t, m2)
  <2>1. Len(w) + 1 \in DOMAIN t
    BY <1>1
  <2> QED BY <1>1, <1>3, <2>1 DEF EdgeOnWire
<1> QED BY <1>2, <1>3 DEF t

\* An edge on the wire stays there until it is published.
LEMMA EdgeTaken ==
    ASSUME NEW w \in Seq(Announcement), w # <<>>, NEW k, NEW m, EdgeOnWire(k, w, m)
    PROVE  \/ EdgeOnWire(k, Tail(w), m)
           \/ Head(w).edge /\ k[2] \in Above(m, Head(w).node)
<1> DEFINE t == Tail(w)
<1>1. /\ DOMAIN t = 1 .. Len(w) - 1 /\ DOMAIN w = 1 .. Len(w) /\ Len(w) \in Nat
      /\ Head(w) = w[1]
      /\ \A j \in DOMAIN t : t[j] = w[j+1]
  OBVIOUS
<1> HIDE DEF t
<1>2. PICK j \in DOMAIN w : w[j].edge /\ k[2] \in Above(m, w[j].node)
  BY DEF EdgeOnWire
<1>3. CASE j = 1
  BY <1>1, <1>2, <1>3
<1>4. CASE j # 1
  <2>1. j - 1 \in DOMAIN t /\ t[j-1] = w[j]
    BY <1>1, <1>4
  <2> QED BY <1>2, <2>1 DEF EdgeOnWire, t
<1> QED BY <1>3, <1>4

-----------------------------------------------------------------------------
(* The configuration of a client: writes and announcements *)

\* A write announces itself to the clients that it concerns: points of a node
\* with their version, an edge as one that ends the client above it.
Writes(a, v, v2, l, l2, m, m2) ==
    /\ Announces(a, v, v2) /\ m \subseteq m2
    /\ \/ l2 = l
       \/ \E e \in m2 : a.edge /\ a.node = e[2] /\ l2 \in {l \ {e}, l \cup {e}}

\* A client is still fresh after a write, or the write will end it: one that
\* changes its children is an edge below it.
LEMMA FreshWrite ==
    ASSUME NEW w \in Seq(Announcement), NEW a \in Announcement, NEW v, NEW v2,
           NEW l, NEW l2, NEW m, NEW m2, Writes(a, v, v2, l, l2, m, m2),
           NEW c \in InstType,
           EdgeOnWire(c.key, w, m) \/ Fresh(c, w, v, l)
    PROVE  EdgeOnWire(c.key, Append(w, a), m2) \/ Fresh(c, Append(w, a), v2, l2)
<1>1. CASE EdgeOnWire(c.key, w, m)
  BY <1>1, EdgeAppended DEF Writes
<1>2. CASE Fresh(c, w, v, l)
  <2>1. DOMAIN c.view \subseteq Node
    BY PartialIs DEF InstType
  <2>2. \A n \in DOMAIN c.view : Arrives(c, n, Append(w, a), v2)
    BY <1>2, <2>1, AwaitedWrite DEF Fresh, Writes
  <2>3. CASE \E e \in m2 : a.edge /\ a.node = e[2] /\ e[1] = c.key[2]
    <3>1. c.key[2] \in Above(m2, a.node)
      BY <2>3, AboveHas
    <3> QED BY <2>3, <3>1, EdgeAppended DEF Writes
  <2>4. CASE ~ \E e \in m2 : a.edge /\ a.node = e[2] /\ e[1] = c.key[2]
    <3>1. {e \in l2 : e[1] = c.key[2]} = {e \in l : e[1] = c.key[2]}
      <4>1. CASE l2 = l
        BY <4>1
      <4>2. CASE l2 # l
        <5>1. PICK e \in m2 : a.edge /\ a.node = e[2] /\ l2 \in {l \ {e}, l \cup {e}}
          BY <4>2 DEF Writes
        <5>2. e[1] # c.key[2]
          BY <2>4, <5>1
        <5> QED BY <5>1, <5>2
      <4> QED BY <4>1, <4>2
    <3> QED BY <1>2, <2>2, <3>1 DEF Fresh
  <2> QED BY <2>3, <2>4
<1> QED BY <1>1, <1>2

\* The same for a client that is subscribed.
LEMMA ServedWrite ==
    ASSUME NEW w \in Seq(Announcement), NEW a \in Announcement, NEW v, NEW v2,
           NEW l, NEW l2, NEW m, NEW m2, Writes(a, v, v2, l, l2, m, m2),
           NEW c \in InstType, Served(c, w, v, l, m)
    PROVE  Served(c, Append(w, a), v2, l2, m2)
BY FreshWrite DEF Served

\* Where the announcement a is published to.
To(a, m, l) == Above(IF a.edge THEN m ELSE l, a.node)

\* A client that an announcement is not published to is as fresh as before.
LEMMA FreshPublish ==
    ASSUME NEW w \in Seq(Announcement), w # <<>>, NEW v, NEW l, NEW m,
           NEW c \in InstType, c.key[2] \notin To(Head(w), m, l),
           EdgeOnWire(c.key, w, m) \/ Fresh(c, w, v, l)
    PROVE  EdgeOnWire(c.key, Tail(w), m) \/ Fresh(c, Tail(w), v, l)
<1>1. CASE EdgeOnWire(c.key, w, m)
  BY <1>1, EdgeTaken DEF To
<1>2. CASE Fresh(c, w, v, l)
  <2>1. ASSUME NEW n \in DOMAIN c.view
        PROVE  Arrives(c, n, Tail(w), v)
    <3>1. n = c.key[2] \/ \E e \in l : e[1] = c.key[2] /\ e[2] = n
      BY <1>2 DEF Fresh
    <3>2. ~IsPoint(Head(w), n)
      BY <3>1, AboveHas DEF IsPoint, To
    <3>3. Arrives(c, n, w, v)
      BY <1>2 DEF Fresh
    <3> QED BY <3>2, <3>3, Taken DEF Arrives
  <2> QED BY <1>2, <2>1 DEF Fresh
<1> QED BY <1>1, <1>2

\* One that it is published to has it in its queue.
LEMMA FreshQueue ==
    ASSUME NEW w \in Seq(Announcement), w # <<>>, NEW v, NEW l, NEW m,
           NEW c \in InstType, NEW d, d.view = c.view, d.key = c.key,
           d.queue = Append(c.queue, Head(w)),
           EdgeQueued(c) \/ EdgeOnWire(c.key, w, m) \/ Fresh(c, w, v, l)
    PROVE  EdgeQueued(d) \/ EdgeOnWire(d.key, Tail(w), m) \/ Fresh(d, Tail(w), v, l)
<1> DEFINE a == Head(w)
<1>1. c.queue \in Seq(Announcement) /\ a \in Announcement
  BY DEF InstType
<1> HIDE DEF a
<1>2. /\ DOMAIN c.queue \subseteq DOMAIN d.queue
      /\ \A j \in DOMAIN c.queue : d.queue[j] = c.queue[j]
      /\ \E j \in DOMAIN d.queue : d.queue[j] = a
  <2>1. Len(c.queue) + 1 \in DOMAIN Append(c.queue, a)
    BY <1>1
  <2>2. Append(c.queue, a)[Len(c.queue) + 1] = a
    BY <1>1
  <2> QED BY <1>1, <2>1, <2>2 DEF a
<1>3. CASE EdgeQueued(c) \/ a.edge
  BY <1>2, <1>3 DEF EdgeQueued
<1>4. CASE ~a.edge /\ EdgeOnWire(c.key, w, m)
  BY <1>4, EdgeTaken DEF a
<1>5. CASE ~a.edge /\ Fresh(c, w, v, l)
  <2>1. ASSUME NEW n \in DOMAIN d.view
        PROVE  Arrives(d, n, Tail(w), v)
    <3>1. Arrives(c, n, w, v)
      BY <1>5 DEF Fresh
    <3>2. d.queue = Append(c.queue, a) /\ Head(w) = a
      BY DEF a
    <3>3. CASE IsPoint(a, n)
      <4>1. LastIs(d.queue, n, a.ver)
        BY <1>1, <3>2, <3>3, Appended
      <4>2. ~None(w, n)
        BY <3>2, <3>3, Taken
      <4>3. LastIs(w, n, v[n])
        BY <3>1, <4>2 DEF Arrives
      <4>4. LastIs(Tail(w), n, v[n]) \/ (None(Tail(w), n) /\ a.ver = v[n])
        BY <3>2, <4>3, Taken
      <4> QED BY <4>1, <4>4 DEF Arrives
    <3>4. CASE ~IsPoint(a, n)
      <4>1. /\ None(c.queue, n) => None(d.queue, n)
            /\ LastIs(c.queue, n, v[n]) => LastIs(d.queue, n, v[n])
        BY <1>1, <3>2, <3>4, Appended
      <4>2. /\ None(w, n) => None(Tail(w), n)
            /\ LastIs(w, n, v[n]) => LastIs(Tail(w), n, v[n])
        BY <3>2, <3>4, Taken
      <4> QED BY <3>1, <4>1, <4>2 DEF Arrives
    <3> QED BY <3>3, <3>4
  <2> QED BY <1>5, <2>1 DEF Fresh
<1> QED BY <1>3, <1>4, <1>5

\* A client that takes points is as fresh as before.
LEMMA FreshTake ==
    ASSUME NEW w, NEW v, NEW l, NEW m, NEW c \in InstType, NEW d, c.queue # <<>>,
           ~Head(c.queue).edge,
           d.key = c.key, d.queue = Tail(c.queue),
           d.view = IF Head(c.queue).node \in DOMAIN c.view
                    THEN [c.view EXCEPT ![Head(c.queue).node] = Head(c.queue).ver]
                    ELSE c.view,
           EdgeQueued(c) \/ EdgeOnWire(c.key, w, m) \/ Fresh(c, w, v, l)
    PROVE  EdgeQueued(d) \/ EdgeOnWire(d.key, w, m) \/ Fresh(d, w, v, l)
<1> DEFINE a == Head(c.queue)
<1>1. c.queue \in Seq(Announcement)
  BY DEF InstType
<1>2. CASE EdgeQueued(c)
  <2>1. PICK j \in DOMAIN c.queue : c.queue[j].edge
    BY <1>2 DEF EdgeQueued
  <2>2. j # 1
    BY <1>1, <2>1
  <2>3. j - 1 \in DOMAIN Tail(c.queue) /\ Tail(c.queue)[j - 1] = c.queue[j]
    BY <1>1, <2>2
  <2> QED BY <2>1, <2>3 DEF EdgeQueued
<1>3. CASE Fresh(c, w, v, l)
  <2>1. DOMAIN d.view = DOMAIN c.view
    OBVIOUS
  <2>2. ASSUME NEW n \in DOMAIN c.view
        PROVE  Arrives(d, n, w, v)
    <3>1. Arrives(c, n, w, v)
      BY <1>3 DEF Fresh
    <3>2. CASE LastIs(w, n, v[n])
      BY <3>2 DEF Arrives
    <3>3. CASE None(w, n) /\ LastIs(c.queue, n, v[n])
      <4>1. \/ LastIs(d.queue, n, v[n])
            \/ None(d.queue, n) /\ IsPoint(a, n) /\ a.ver = v[n]
        BY <1>1, <3>3, Taken
      <4>2. IsPoint(a, n) => d.view[n] = a.ver
        BY DEF IsPoint
      <4> QED BY <3>3, <4>1, <4>2 DEF Arrives
    <3>4. CASE None(w, n) /\ None(c.queue, n) /\ c.view[n] = v[n]
      <4>1. None(d.queue, n) /\ ~IsPoint(a, n)
        BY <1>1, <3>4, Taken
      <4>2. a.node # n
        BY <4>1 DEF IsPoint
      <4>3. d.view[n] = c.view[n]
        BY <4>2
      <4> QED BY <3>4, <4>1, <4>3 DEF Arrives
    <3> QED BY <3>1, <3>2, <3>3, <3>4 DEF Arrives
  <2> QED BY <1>3, <2>1, <2>2 DEF Fresh
<1> QED BY <1>2, <1>3

-----------------------------------------------------------------------------
(* The configuration of a client: the steps *)

\* Both writes of users announce what they have written.
LEMMA WriteIs ==
    ASSUME MType, WriteEdge \/ WritePoints
    PROVE  /\ \E a \in Announcement :
                 /\ wire' = Append(wire, a)
                 /\ Writes(a, ver, ver', live, live', made, made')
           /\ UNCHANGED <<mgr, states, inst>>
<1>1. CASE WriteEdge
  <2>1. PICK e \in Edge :
            /\ made' = made \cup {e}
            /\ live' = IF e \in live THEN live \ {e} ELSE live \cup {e}
            /\ wire' = Append(wire, [edge |-> TRUE, created |-> e \notin made,
                                     node |-> e[2], ver |-> 0])
            /\ UNCHANGED <<ver, mgr, states, inst>>
    BY <1>1 DEF WriteEdge
  <2> DEFINE a == [edge |-> TRUE, created |-> e \notin made, node |-> e[2], ver |-> 0]
  <2>2. a \in Announcement
    BY ManagerAssumption DEF Announcement
  <2>3. a.edge /\ a.node = e[2]
    OBVIOUS
  <2>4. wire' = Append(wire, a)
    BY <2>1
  <2> HIDE DEF a
  <2>5. Announces(a, ver, ver')
    BY <2>1, <2>3 DEF Announces, IsPoint
  <2>6. e \in made' /\ live' \in {live \ {e}, live \cup {e}} /\ made \subseteq made'
    BY <2>1
  <2>7. Writes(a, ver, ver', live, live', made, made')
    BY <2>3, <2>5, <2>6 DEF Writes
  <2> QED BY <2>1, <2>2, <2>4, <2>7
<1>2. CASE WritePoints
  <2>1. PICK n \in Touched :
            /\ ver' = [ver EXCEPT ![n] = @ + 1]
            /\ wire' = Append(wire, [edge |-> FALSE, created |-> FALSE,
                                     node |-> n, ver |-> ver[n] + 1])
            /\ UNCHANGED <<made, live, mgr, states, inst>>
    BY <1>2 DEF WritePoints
  <2> DEFINE a == [edge |-> FALSE, created |-> FALSE, node |-> n, ver |-> ver[n] + 1]
  <2>2. n \in Node /\ ver \in [Node -> Nat]
    BY ManagerAssumption DEF Node, MType
  <2>3. a \in Announcement
    BY <2>2 DEF Announcement
  <2>4. ~a.edge /\ a.node = n /\ a.ver = ver[n] + 1
    OBVIOUS
  <2>5. wire' = Append(wire, a)
    BY <2>1
  <2> HIDE DEF a
  <2>6. Announces(a, ver, ver')
    BY <2>1, <2>2, <2>4 DEF Announces, IsPoint
  <2>7. Writes(a, ver, ver', live, live', made, made')
    BY <2>1, <2>6 DEF Writes
  <2> QED BY <2>1, <2>3, <2>5, <2>7
<1> QED BY <1>1, <1>2

\* Every step keeps WireInv.
LEMMA WireStep == MType /\ WireInv /\ [Next]_vars => WireInv'
<1> SUFFICES ASSUME MType, WireInv, [Next]_vars PROVE WireInv'
  OBVIOUS
<1>1. CASE WriteEdge \/ WritePoints
  <2>1. PICK a \in Announcement : /\ wire' = Append(wire, a)
                                  /\ Writes(a, ver, ver', live, live', made, made')
    BY <1>1, WriteIs
  <2>2. wire \in Seq(Announcement)
    BY DEF MType
  <2> QED BY <2>1, <2>2, AwaitedWrite DEF WireInv, Writes
<1>2. CASE Publish
  <2>1. wire # <<>> /\ wire' = Tail(wire) /\ ver' = ver /\ wire \in Seq(Announcement)
    BY <1>2 DEF Publish, MType
  <2> QED BY <2>1, Taken DEF WireInv
<1>3. CASE UNCHANGED <<wire, ver>>
  BY <1>3 DEF WireInv
<1> QED
  BY <1>1, <1>2, <1>3
  DEF Next, vars, store, Stop, Callback, RunEnds, SelectDelete, ScanList, ScanFails,
      ScanListed, ScanCreate, ScanSubscribe, ScanRemove, Start, SelectTick, SelectScan,
      SelectStop

\* Every step keeps what a scan has found new, or marks it as missed.
LEMMA FoundStep == MInv /\ WireInv /\ FoundInv /\ [Next]_vars => FoundInv'
<1> SUFFICES ASSUME MType, ClientInv, ScanInv, WireInv, FoundInv, [Next]_vars
             PROVE  FoundInv'
  BY DEF MInv
<1> USE DEF FoundInv
<1>1. CASE WriteEdge \/ WritePoints
  <2>1. PICK a \in Announcement : /\ wire' = Append(wire, a)
                                  /\ Writes(a, ver, ver', live, live', made, made')
    BY <1>1, WriteIs
  <2>2. wire \in Seq(Announcement) /\ UNCHANGED <<mgr, states>>
    BY <1>1, WriteIs DEF MType
  <2>3. \A k \in Unserved : k[2] \in Node
    BY UnservedKeys, KeyIs DEF MType
  <2>4. \A k \in Unserved : Awaited(mgr.found[k], k[2], wire, ver)
                                => Awaited(mgr.found[k], k[2], wire', ver')
    BY <2>1, <2>2, <2>3, AwaitedWrite DEF Writes
  <2>5. Unserved' = Unserved
    BY <2>2 DEF Unserved
  <2> QED BY <2>2, <2>4, <2>5
<1>2. CASE Publish
  <2> DEFINE a == Head(wire)
  <2>1. /\ wire # <<>> /\ wire \in Seq(Announcement) /\ wire' = Tail(wire)
        /\ mgr'.found = mgr.found /\ UNCHANGED <<ver, states>>
        /\ \A k \in Unserved : k[2] \in To(a, made, live) => k \in mgr'.missed
        /\ mgr.missed \subseteq mgr'.missed
    BY <1>2, PublishIs DEF MType, To
  <2> HIDE DEF a
  <2>2. Unserved' = Unserved
    BY <2>1 DEF Unserved
  <2>3. ASSUME NEW k \in Unserved, k[2] \notin To(a, made, live),
               Awaited(mgr.found[k], k[2], wire, ver)
        PROVE  Awaited(mgr.found[k], k[2], wire', ver')
    <3>1. ~IsPoint(a, k[2])
      BY <2>3, AboveHas DEF IsPoint, To
    <3> QED BY <2>1, <2>3, <3>1, Taken DEF Awaited, a
  <2> QED BY <2>1, <2>2, <2>3
<1>3. CASE ScanList
  <2>1. PICK t \in mgr.todo :
          LET keys   == {e \in live : e \in Key /\ e[1] = t[2]}
              groups == {e \in live : e[1] = t[2] /\ e[2] \in Group}
          IN  mgr' = IF t[1] = "nodes"
                      THEN [mgr EXCEPT
                          !.todo  = (@ \ {t}) \cup {<<"parents", t[2]>>},
                          !.found = [k \in keys \cup DOMAIN @ |->
                                         IF k \in keys THEN ver[k[2]] ELSE mgr.found[k]]]
                      ELSE [mgr EXCEPT
                          !.todo = (@ \ {t}) \cup {<<"nodes", e[2]>> : e \in groups}]
    BY <1>3 DEF ScanList
  <2> DEFINE keys == {e \in live : e \in Key /\ e[1] = t[2]}
  <2>2. mgr'.missed = mgr.missed
    BY <2>1 DEF MType, MgrType
  <2>3. UNCHANGED <<wire, ver, states>>
    BY <1>3 DEF ScanList, store
  <2>4. CASE mgr'.found = mgr.found
    BY <2>2, <2>3, <2>4 DEF Unserved
  <2>5. CASE mgr'.found = [k \in keys \cup DOMAIN mgr.found |->
                               IF k \in keys THEN ver[k[2]] ELSE mgr.found[k]]
    <3>1. \A k \in keys : k[2] \in Node
      BY KeyIs
    <3>2. \A k \in keys : Awaited(ver[k[2]], k[2], wire, ver)
      BY <3>1 DEF WireInv, Awaited
    <3> HIDE DEF keys
    <3> QED BY <2>2, <2>3, <2>5, <3>2 DEF Unserved
  <2>6. \/ mgr'.found = mgr.found
        \/ mgr'.found = [k \in keys \cup DOMAIN mgr.found |->
                               IF k \in keys THEN ver[k[2]] ELSE mgr.found[k]]
    BY <2>1 DEF MType, MgrType
  <2> QED BY <2>4, <2>5, <2>6
<1>4. CASE ScanCreate
  <2>1. PICK k \in Unserved, i \in Slot : Creates(k, i)
    BY <1>4, CreateIs
  <2>2. /\ mgr'.found = mgr.found /\ mgr'.missed = mgr.missed
        /\ UNCHANGED <<ver, wire>> /\ DOMAIN states' = DOMAIN states \cup {k}
    BY <2>1 DEF Creates
  <2> QED BY <2>2 DEF Unserved
<1>5. CASE UNCHANGED <<mgr, states, wire, ver>>
  BY <1>5 DEF Unserved
<1>6. CASE DOMAIN mgr'.found = {}
  BY <1>6 DEF Unserved
<1>7. CASE ScanListed
  <2>1. mgr' \in {[mgr EXCEPT !.pc = "create"], Select}
    BY <1>7 DEF ScanListed
  <2>2. CASE mgr' = Select
    BY <2>2, <1>6, SelectType DEF MType
  <2>3. CASE mgr' = [mgr EXCEPT !.pc = "create"]
    <3>1. mgr'.found = mgr.found /\ mgr'.missed = mgr.missed
      BY <2>3 DEF MType, MgrType
    <3> QED BY <3>1, <1>7 DEF ScanListed, store, Unserved
  <2> QED BY <2>1, <2>2, <2>3
<1>8. CASE ScanSubscribe
  <2>1. mgr'.found = mgr.found /\ mgr'.missed = mgr.missed
    BY <1>8 DEF ScanSubscribe, MType, MgrType
  <2> QED BY <2>1, <1>8 DEF ScanSubscribe, store, Unserved
<1>9. CASE ScanFails \/ ScanRemove \/ Start \/ SelectTick \/ SelectScan \/ SelectStop
           \/ \E i \in Slot : SelectDelete(i)
  <2>1. /\ mgr' \in {Select, Scan, mgr, [mgr EXCEPT !.pc = "done"],
                     [mgr EXCEPT !.stopping = TRUE,
                          !.pc = IF DOMAIN states = {} THEN "done" ELSE @]}
        /\ mgr.pc \in {"start", "select"} \/ mgr' = Select
    BY <1>9 DEF ScanFails, ScanRemove, Start, SelectTick, SelectScan, SelectStop,
                SelectDelete, ScanUnlessStopping
  <2>2. DOMAIN Select.found = {} /\ DOMAIN Scan.found = {}
    BY SelectType DEF MType
  <2>3. mgr' \in {Select, Scan} \/ mgr'.found = mgr.found
    BY <2>1 DEF MType, MgrType
  <2>4. DOMAIN mgr.found = {} \/ mgr' = Select
    BY <2>1 DEF ScanInv
  <2> QED BY <1>6, <2>2, <2>3, <2>4
<1> QED
  BY <1>1, <1>2, <1>3, <1>4, <1>5, <1>7, <1>8, <1>9
  DEF Next, vars, store, Stop, Callback, RunEnds

\* Every step keeps the client that was just made fresh, or marks it.
LEMMA MadeStep == MInv /\ WireInv /\ FoundInv /\ MadeInv /\ [Next]_vars => MadeInv'
<1> SUFFICES ASSUME MType, ClientInv, ScanInv, WireInv, FoundInv, MadeInv, [Next]_vars,
                    mgr'.pc = "subscribe"
             PROVE  \/ mgr'.key \in mgr'.missed
                    \/ EdgeOnWire(mgr'.key, wire', made')
                    \/ Fresh(inst'[states'[mgr'.key]], wire', ver', live')
  BY DEF MInv, MadeInv
<1> DEFINE k == mgr.key
           s == states[mgr.key]
<1>1. ASSUME mgr.pc = "subscribe"
      PROVE  /\ s \in Slot /\ inst[s] \in InstType /\ inst[s].key = k /\ k \in Key
             /\ inst[s].st = "run" /\ ~inst[s].sub /\ inst[s].queue = <<>>
             /\ \/ k \in mgr.missed
                \/ EdgeOnWire(k, wire, made)
                \/ Fresh(inst[s], wire, ver, live)
  <2>1. k \in DOMAIN states /\ inst[s].st = "run" /\ ~inst[s].sub /\ inst[s].queue = <<>>
    BY <1>1 DEF ScanInv
  <2>2. s \in Slot /\ k \in Key
    BY <2>1, PartialIs DEF MType
  <2>3. inst[s] \in InstType /\ inst[s].key = k
    BY <2>1, <2>2 DEF MType, ClientInv
  <2> QED BY <1>1, <2>1, <2>2, <2>3 DEF MadeInv
<1>2. CASE WriteEdge \/ WritePoints
  <2>1. PICK a \in Announcement : /\ wire' = Append(wire, a)
                                  /\ Writes(a, ver, ver', live, live', made, made')
    BY <1>2, WriteIs
  <2>2. wire \in Seq(Announcement) /\ UNCHANGED <<mgr, states, inst>>
    BY <1>2, WriteIs DEF MType
  <2> HIDE DEF k, s
  <2>3. mgr'.key = k /\ inst'[states'[mgr'.key]] = inst[s]
    BY <2>2 DEF k, s
  <2>4. ASSUME EdgeOnWire(k, wire, made) \/ Fresh(inst[s], wire, ver, live)
        PROVE  EdgeOnWire(k, wire', made') \/ Fresh(inst[s], wire', ver', live')
    BY <1>1, <2>1, <2>2, <2>4, FreshWrite
  <2> QED BY <1>1, <2>2, <2>3, <2>4 DEF k
<1>3. CASE Publish
  <2> DEFINE a == Head(wire)
  <2>1. /\ wire # <<>> /\ wire \in Seq(Announcement) /\ wire' = Tail(wire)
        /\ mgr'.key = mgr.key /\ mgr'.pc = mgr.pc /\ UNCHANGED <<made, live, ver, states>>
        /\ k \in Key /\ k[2] \in To(a, made, live) => k \in mgr'.missed
        /\ mgr.missed \subseteq mgr'.missed
    BY <1>3, PublishIs DEF MType, To
  <2>2. mgr.pc = "subscribe"
    BY <2>1
  <2> HIDE DEF a
  <2>3. inst'[s] = inst[s]
    BY <1>1, <1>3, <2>2 DEF Publish
  <2>4. inst'[states'[mgr'.key]] = inst[s]
    BY <2>1, <2>3
  <2> HIDE DEF k, s
  <2>5. CASE k[2] \notin To(a, made, live) /\ k \notin mgr.missed
    <3>1. EdgeOnWire(k, wire', made') \/ Fresh(inst[s], wire', ver', live')
      BY <1>1, <2>1, <2>2, <2>5, FreshPublish DEF a
    <3> QED BY <2>1, <2>4, <3>1 DEF k
  <2> QED BY <1>1, <2>1, <2>2, <2>5 DEF k
<1>4. CASE ScanCreate
  <2>1. PICK x \in Unserved, i \in Slot : Creates(x, i)
    BY <1>4, CreateIs
  <2>2. /\ inst'[i].key = x /\ inst'[i].queue = <<>>
        /\ inst'[i].view = [n \in {x[2]} \cup Kids(x[2]) |->
                               IF n = x[2] THEN mgr.found[x] ELSE ver[n]]
        /\ mgr'.key = x /\ mgr'.missed = mgr.missed
        /\ states' = [y \in DOMAIN states \cup {x} |-> IF y = x THEN i ELSE states[y]]
        /\ UNCHANGED <<made, live, ver, wire>>
    BY <2>1 DEF Creates
  <2>3. states'[mgr'.key] = i
    BY <2>2
  <2>4. CASE x \notin mgr.missed
    <3>1. Awaited(mgr.found[x], x[2], wire, ver)
      BY <2>4 DEF FoundInv
    <3>2. x[2] \in Node
      BY UnservedKeys, KeyIs DEF MType
    <3>3. Kids(x[2]) \subseteq Node
      BY ManagerAssumption DEF Kids, MType
    <3> DEFINE D == {x[2]} \cup Kids(x[2])
               c == inst'[i]
    <3>4. c.queue = <<>> /\ DOMAIN c.view = D
      BY <2>2
    <3>5. \A n \in D : c.view[n] = IF n = x[2] THEN mgr.found[x] ELSE ver[n]
      BY <2>2
    <3>6. D = {c.key[2]} \cup {e[2] : e \in {e \in live : e[1] = c.key[2]}}
      BY <2>2 DEF Kids
    <3> HIDE DEF D, c
    <3>7. ASSUME NEW n \in D PROVE Arrives(c, n, wire, ver)
      <4>1. None(c.queue, n)
        BY <3>4 DEF None
      <4>2. n \in Node
        BY <3>2, <3>3 DEF D
      <4>3. CASE n = x[2]
        BY <3>1, <3>5, <4>1, <4>3 DEF Awaited, Arrives
      <4>4. CASE n # x[2]
        BY <3>5, <4>1, <4>2, <4>4 DEF WireInv, Arrives
      <4> QED BY <4>3, <4>4
    <3>8. Fresh(c, wire, ver, live)
      BY <3>4, <3>6, <3>7 DEF Fresh
    <3> QED BY <2>2, <2>3, <3>8 DEF c
  <2> QED BY <2>2, <2>4
<1>5. ASSUME NEW i \in Slot, Callback(i) \/ RunEnds(i)
      PROVE  \/ mgr'.key \in mgr'.missed
             \/ EdgeOnWire(mgr'.key, wire', made')
             \/ Fresh(inst'[states'[mgr'.key]], wire', ver', live')
  <2>1. UNCHANGED <<made, live, ver, wire, mgr, states>>
    BY <1>5 DEF Callback, RunEnds, store
  <2>2. mgr.pc = "subscribe"
    BY <2>1
  <2>3. inst[i].queue # <<>> \/ inst[i].st = "stop"
    BY <1>5 DEF Callback, RunEnds
  <2>4. s # i
    BY <1>1, <2>2, <2>3
  <2>5. inst'[s] = inst[s]
    BY <1>1, <1>5, <2>2, <2>4 DEF Callback, RunEnds, MType
  <2> QED BY <1>1, <2>1, <2>2, <2>5
<1>6. CASE UNCHANGED <<made, live, ver, wire, mgr, states, inst>>
  BY <1>6 DEF MadeInv
<1>7. mgr'.pc # "subscribe"
      \/ Publish \/ ScanCreate \/ WriteEdge \/ WritePoints
      \/ (\E i \in Slot : Callback(i) \/ RunEnds(i))
      \/ UNCHANGED <<made, live, ver, wire, mgr, states, inst>>
  <2>1. /\ Scan.pc = "list" /\ Select.pc = "select"
    BY SelectType DEF MType
  <2>2. CASE ScanFails \/ ScanRemove \/ Start
    BY <2>1, <2>2 DEF ScanFails, ScanRemove, Start
  <2>3. CASE SelectTick \/ SelectScan \/ SelectStop \/ \E i \in Slot : SelectDelete(i)
    <3>1. /\ mgr' \in {Scan, mgr, [mgr EXCEPT !.pc = "done"],
                       [mgr EXCEPT !.stopping = TRUE,
                          !.pc = IF DOMAIN states = {} THEN "done" ELSE @]}
          /\ mgr.pc = "select"
      BY <2>3 DEF SelectTick, SelectScan, SelectStop, SelectDelete, ScanUnlessStopping
    <3> QED BY <2>1, <3>1 DEF MType, MgrType
  <2>4. CASE ScanList \/ ScanListed \/ ScanSubscribe
    BY <2>1, <2>4 DEF ScanList, ScanListed, ScanSubscribe, MType, MgrType
  <2> QED BY <2>2, <2>3, <2>4 DEF Next, vars, store, Stop
<1> QED BY <1>2, <1>3, <1>4, <1>5, <1>6, <1>7

\* Every step keeps the clients that are subscribed fresh.
LEMMA ServedStep == MInv /\ MadeInv /\ ServedInv /\ [Next]_vars => ServedInv'
<1> SUFFICES ASSUME MType, ClientInv, ScanInv, MadeInv, ServedInv, [Next]_vars,
                    NEW i \in Slot
             PROVE  Served(inst'[i], wire', ver', live', made')
  BY DEF MInv, ServedInv
<1>1. inst[i] \in InstType /\ Served(inst[i], wire, ver, live, made)
  BY DEF MType, ServedInv
<1>2. CASE WriteEdge \/ WritePoints
  <2>1. PICK a \in Announcement : /\ wire' = Append(wire, a)
                                  /\ Writes(a, ver, ver', live, live', made, made')
    BY <1>2, WriteIs
  <2>2. wire \in Seq(Announcement) /\ inst' = inst
    BY <1>2, WriteIs DEF MType
  <2> QED BY <1>1, <2>1, <2>2, ServedWrite
<1>3. CASE Publish
  <2> DEFINE a == Head(wire)
             c == inst[i]
             d == inst'[i]
  <2>1. /\ wire # <<>> /\ wire \in Seq(Announcement) /\ wire' = Tail(wire)
        /\ UNCHANGED <<made, live, ver>>
        /\ d.key = c.key /\ d.st = c.st /\ d.sub = c.sub /\ d.view = c.view
        /\ d.missed = c.missed
        /\ d.queue = IF c.st = "run" /\ c.sub /\ c.key[2] \in To(a, made, live)
                     THEN Append(c.queue, a) ELSE c.queue
    BY <1>3, PublishIs DEF MType, To
  <2>2. CASE c.st = "run" /\ c.sub /\ ~c.missed /\ c.key[2] \in To(a, made, live)
    <3>1. EdgeQueued(c) \/ EdgeOnWire(c.key, wire, made) \/ Fresh(c, wire, ver, live)
      BY <1>1, <2>2 DEF Served
    <3>2. d.queue = Append(c.queue, Head(wire)) /\ c \in InstType
      BY <1>1, <2>1, <2>2
    <3> HIDE DEF c, d, a
    <3>3. EdgeQueued(d) \/ EdgeOnWire(d.key, wire', made') \/ Fresh(d, wire', ver', live')
      BY <2>1, <3>1, <3>2, FreshQueue
    <3> QED BY <3>3 DEF Served, d
  <2>3. CASE c.st = "run" /\ c.sub /\ ~c.missed /\ c.key[2] \notin To(a, made, live)
    <3>1. EdgeQueued(c) \/ EdgeOnWire(c.key, wire, made) \/ Fresh(c, wire, ver, live)
      BY <1>1, <2>3 DEF Served
    <3>2. EdgeOnWire(c.key, wire, made) \/ Fresh(c, wire, ver, live) =>
              EdgeOnWire(c.key, wire', made') \/ Fresh(c, wire', ver', live')
      BY <1>1, <2>1, <2>3, FreshPublish
    <3>3. d = c
      BY <1>3, <2>3 DEF Publish, To
    <3> QED BY <3>1, <3>2, <3>3 DEF Served
  <2>4. CASE ~(c.st = "run" /\ c.sub /\ ~c.missed)
    BY <2>1, <2>4 DEF Served
  <2> QED BY <2>2, <2>3, <2>4
<1>4. ASSUME NEW j \in Slot, Callback(j)
      PROVE  Served(inst'[i], wire', ver', live', made')
  <2>1. UNCHANGED <<made, live, ver, wire>>
    BY <1>4 DEF Callback, store
  <2>2. CASE i # j
    BY <1>1, <1>4, <2>1, <2>2, CallbackIs
  <2>3. CASE i = j
    <3> DEFINE c == inst[i]
               d == inst'[i]
    <3>1. /\ c.queue # <<>> /\ d.key = c.key
          /\ d.st = "run" => c.st = "run" /\ ~Head(c.queue).edge
          /\ ~Head(c.queue).edge =>
                /\ d.sub = c.sub /\ d.missed = c.missed /\ d.queue = Tail(c.queue)
                /\ d.view = IF Head(c.queue).node \in DOMAIN c.view
                            THEN [c.view EXCEPT ![Head(c.queue).node] = Head(c.queue).ver]
                            ELSE c.view
      BY <1>4, <2>3, CallbackIs
    <3>2. c \in InstType /\ Served(c, wire, ver, live, made)
      BY <1>1
    <3> HIDE DEF c, d
    <3>3. CASE d.st = "run" /\ d.sub /\ ~d.missed
      <4>1. EdgeQueued(c) \/ EdgeOnWire(c.key, wire, made) \/ Fresh(c, wire, ver, live)
        BY <3>1, <3>2, <3>3 DEF Served
      <4>2. EdgeQueued(d) \/ EdgeOnWire(d.key, wire, made) \/ Fresh(d, wire, ver, live)
        BY <3>1, <3>2, <3>3, <4>1, FreshTake
      <4> QED BY <2>1, <4>2 DEF Served, d
    <3> QED BY <3>3 DEF Served, d
  <2> QED BY <2>2, <2>3
<1>5. CASE ScanCreate
  <2>1. PICK x \in Unserved, j \in Slot : Creates(x, j)
    BY <1>5, CreateIs
  <2>2. CASE i = j
    BY <2>1, <2>2 DEF Creates, Served
  <2>3. CASE i # j
    BY <1>1, <2>1, <2>3 DEF Creates
  <2> QED BY <2>2, <2>3
<1>6. CASE ScanSubscribe
  <2>1. UNCHANGED <<made, live, ver, wire>> /\ mgr.pc = "subscribe"
    BY <1>6 DEF ScanSubscribe, store
  <2>2. CASE i # states[mgr.key]
    <3>1. inst'[i] = inst[i]
      BY <1>6, <2>2, SubscribeIs DEF MType
    <3> QED BY <1>1, <2>1, <3>1
  <2>3. CASE i = states[mgr.key]
    <3> DEFINE c == inst[i]
               d == inst'[i]
    <3>1. /\ d.missed = (mgr.key \in mgr.missed) /\ d.key = c.key /\ d.view = c.view
          /\ d.queue = c.queue /\ mgr.key \in DOMAIN states
      BY <1>6, <2>3, SubscribeIs DEF MType
    <3>2. c.key = mgr.key
      BY <2>3, <3>1 DEF ClientInv
    <3>3. \/ mgr.key \in mgr.missed
          \/ EdgeOnWire(mgr.key, wire, made)
          \/ Fresh(c, wire, ver, live)
      BY <2>1, <2>3 DEF MadeInv
    <3> HIDE DEF c, d
    <3>4. Fresh(c, wire, ver, live) => Fresh(d, wire, ver, live)
      BY <3>1 DEF Fresh, Arrives
    <3>5. d.missed \/ EdgeOnWire(d.key, wire, made) \/ Fresh(d, wire, ver, live)
      BY <3>1, <3>2, <3>3, <3>4
    <3> QED BY <2>1, <3>5 DEF Served, d
  <2> QED BY <2>2, <2>3
<1>7. CASE UNCHANGED <<made, live, ver, wire>> /\ (inst'[i] = inst[i] \/ inst'[i].st # "run")
  BY <1>1, <1>7 DEF Served
<1>8. CASE ScanRemove \/ SelectStop
  <2>1. PICK K : StopClients(K)
    BY <1>8 DEF ScanRemove, SelectStop
  <2>2. inst'[i] \in {inst[i], Stopped(inst[i])}
    BY <2>1 DEF StopClients
  <2>3. inst'[i] = inst[i] \/ inst'[i].st # "run"
    BY <1>1, <2>2, StoppedType
  <2> QED BY <1>7, <1>8, <2>3 DEF ScanRemove, SelectStop, store
<1>9. ASSUME NEW j \in Slot, RunEnds(j) \/ SelectDelete(j)
      PROVE  Served(inst'[i], wire', ver', live', made')
  <2>1. inst'[i] = inst[i] \/ inst'[i].st # "run"
    <3>1. CASE RunEnds(j)
      BY <3>1, <1>1 DEF RunEnds, MType, InstType
    <3>2. CASE SelectDelete(j)
      BY <3>2 DEF SelectDelete, MType, NoInst
    <3> QED BY <1>9, <3>1, <3>2
  <2> QED BY <1>7, <1>9, <2>1 DEF RunEnds, SelectDelete, store
<1> QED
  BY <1>2, <1>3, <1>4, <1>5, <1>6, <1>7, <1>8, <1>9
  DEF Next, vars, store, Stop, ScanList, ScanFails, ScanListed, Start, SelectTick, SelectScan

\* CInv is an invariant.
LEMMA CInvariant == Spec => []CInv
<1>1. Init => CInv
  <2> SUFFICES ASSUME Init PROVE CInv
    OBVIOUS
  <2>1. WireInv
    BY DEF Init, WireInv, None
  <2>2. FoundInv /\ MadeInv
    BY DEF Init, FoundInv, MadeInv, Unserved
  <2>3. ServedInv
    BY DEF Init, ServedInv, Served, NoInst
  <2> QED BY <2>1, <2>2, <2>3, MInvInit DEF CInv
<1>2. CInv /\ [Next]_vars => CInv'
  <2>1. MInv /\ [Next]_vars => MInv'
    BY MTypeStep, ClientStep, ScanStepInv DEF MInv
  <2>2. MInv => MType
    BY DEF MInv
  <2> QED BY <2>1, <2>2, WireStep, FoundStep, MadeStep, ServedStep DEF CInv
<1> QED BY <1>1, <1>2, PTL DEF Spec

\* newClientState and the subscription (client/manager.go, client-state.go): a
\* client that has taken everything has exactly the children and the versions
\* that the store has, unless an announcement came between the request for its
\* node and its subscription, whatever is written, created and deleted meanwhile.
THEOREM ClientsAreFresh == Spec => []FreshUnlessMissed
<1>1. CInv => FreshUnlessMissed
  <2> SUFFICES ASSUME CInv, NEW i \in Slot, ~inst[i].missed,
                      inst[i].st = "run", inst[i].sub, inst[i].queue = <<>>, wire = <<>>
               PROVE  inst[i].view = Config(inst[i].key)
    BY DEF FreshUnlessMissed, UpToDate
  <2> DEFINE c == inst[i]
             f == Config(c.key)
  <2>1. Served(c, wire, ver, live, made)
    BY DEF CInv, ServedInv
  <2>2. ~EdgeQueued(c) /\ ~EdgeOnWire(c.key, wire, made)
    BY DEF EdgeQueued, EdgeOnWire
  <2>3. Fresh(c, wire, ver, live)
    BY <2>1, <2>2 DEF Served
  <2>4. DOMAIN c.view = {c.key[2]} \cup Kids(c.key[2])
    BY <2>3 DEF Fresh, Kids
  <2>5. \A n \in DOMAIN c.view : c.view[n] = ver[n]
    BY <2>3 DEF Fresh, Arrives, LastIs
  <2>6. c.view \in [DOMAIN c.view -> Nat]
    BY PartialIs DEF CInv, MInv, MType, InstType
  <2>7. f = [n \in DOMAIN c.view |-> ver[n]]
    BY <2>4 DEF Config
  <2> HIDE DEF c
  <2> QED BY <2>5, <2>6, <2>7 DEF c
<1> QED BY <1>1, CInvariant, PTL

=============================================================================
