-------------------------------- MODULE Rule --------------------------------
(***************************************************************************)
(* A rule (client/rule.go): conditions on points of other nodes and on the *)
(* time, and actions that set points of other nodes.  The loop of Run      *)
(* handles one message at a time: points that pass the rule's parent       *)
(* (rulePts), points of the rule and of its conditions and actions that    *)
(* users edit (cfgPts), and a tick every 10 seconds.  What it sends (pub)  *)
(* is stored and announced later, while it goes on.                        *)
(*                                                                         *)
(* A configuration maps the rule, its conditions and its actions to the    *)
(* record of their points; db is the store's copy, which holds the other   *)
(* nodes too.  A point is named by one name for its type and key.          *)
(***************************************************************************)
EXTENDS Schedule, Sequences, SequencesExt, FiniteSets, TLC

CONSTANTS
    Rule,            \* ID of the rule
    Conditions,      \* sequence of IDs of the conditions
    Actions,         \* sequence of IDs of the actions
    ActionsInactive, \* sequence of IDs of the actions of an inactive rule
    Device,          \* other nodes below the rule's parent
    Created,         \* configurations and other nodes that there may be at first
    Edits,           \* edits of users: sets of [id, field, val]
    Batches,         \* points that devices send: [id, pts]
    FirstDay, LastDay, \* bounds on the clock
    MaxEvents        \* bound on edits, batches and restarts

Conds == ToSet(Conditions)
Acts  == ToSet(Actions) \cup ToSet(ActionsInactive)
ID    == {Rule} \cup Conds \cup Acts

ASSUME RuleAssumption ==
    /\ \A c \in Created : DOMAIN c = ID \cup Device
    /\ ID \cap Device = {} /\ Rule \notin Conds \cup Acts /\ Conds \cap Acts = {}
    /\ Actions \in Seq(Acts) /\ ActionsInactive \in Seq(Acts)
    /\ FirstDay \in Int /\ LastDay \in Int /\ FirstDay <= LastDay /\ MaxEvents \in Nat

\* What there is at first, and what is sent: users edit what they configure;
\* conditions watch, and actions set, points of other nodes.
ASSUME ConfigAssumption ==
    /\ \A c \in Created :
          /\ \A i \in ID : /\ c[i] = [f \in DOMAIN c[i] |-> c[i][f]]
                           /\ {"active", "error", "disabled"} \subseteq DOMAIN c[i]
                           /\ "edge" \notin DOMAIN c[i]
          /\ \A i \in Conds : /\ {"type", "node", "point", "vtype", "op", "value", "sched"}
                                    \subseteq DOMAIN c[i]
                              /\ c[i].sched \in Schedule /\ c[i].node \in Device \cup {""}
          /\ \A i \in Acts : {"action", "node", "point", "value"} \subseteq DOMAIN c[i]
                             /\ c[i].node \in Device \cup {""}
    /\ \A e \in Edits :
          /\ e.id \in ID /\ e.field \notin {"active", "error"}
          /\ e.id \in Conds /\ e.field = "sched" => e.val \in Schedule
          /\ e.id \in Conds \cup Acts /\ e.field = "node" => e.val \in Device \cup {""}
    /\ \A b \in Batches : /\ b.id \in Device
                          /\ Len(b.pts) \in Nat /\ DOMAIN b.pts = 1 .. Len(b.pts)

VARIABLES
    db,       \* what the store has
    pub,      \* points that the rule has sent and the store has not handled
    running,  \* Run is in its loop
    cfg,      \* rc.config
    rulePts,  \* messages for newRulePoints
    cfgPts,   \* messages for newPoints and newEdgePoints
    now,      \* the time
    events,   \* edits, batches and restarts so far
    ran,      \* history: actions have been run
    lost,     \* history: a restart lost points of or for the rule
    blind     \* history: conditions that have missed a point or were edited

vars == <<db, pub, running, cfg, rulePts, cfgPts, now, events, ran, lost, blind>>

-----------------------------------------------------------------------------
(* Errors *)

\* The first error in a list of conditions or actions.
FirstError(c, ids) ==
    LET bad == SelectSeq(ids, LAMBDA i : c[i].error # "")
    IN  IF bad = <<>> THEN "" ELSE c[Head(bad)].error

\* The error that the rule shows when one is gone and others may be left.
ErrorLeft(c) ==
    LET left == SelectSeq(<<FirstError(c, Conditions), FirstError(c, Actions),
                            FirstError(c, ActionsInactive)>>, LAMBDA x : x # "")
    IN  IF left = <<>> THEN "" ELSE Last(left)

\* processError, for conditions or actions that go from c to d in the order of
\* ids.  done are those that were looked at: each that has an error shows it in
\* the rule, each whose error is gone shows what is left.
ShowErrors(c, d, ids, done) ==
    LET say == SelectSeq(ids, LAMBDA i : i \in done /\ {c[i].error, d[i].error} # {""})
        e   == d[Last(say)].error
    IN  IF say = <<>> THEN d
        ELSE [d EXCEPT ![Rule].error = IF e # "" THEN e ELSE ErrorLeft(d)]

-----------------------------------------------------------------------------
(* Conditions *)

\* A condition is not concerned by every point.
Concerns(c, id, p) ==
    CASE c.type = "pointValue" ->
             c.node \in {"", id} /\ c.point \in {"", p.point}
      [] c.type = "schedule" -> p.point = "trigger"
      [] OTHER -> TRUE

KnownValue(c) == c.vtype \in {"number", "text", "onOff"}

\* Texts are never compared.
Compare(c, v) ==
    CASE c.vtype = "number" ->
             CASE c.op = ">" -> v > c.value
               [] c.op = "<" -> v < c.value
               [] c.op = "=" -> v = c.value
               [] c.op = "!=" -> v # c.value
               [] OTHER -> FALSE
      [] c.vtype = "onOff" -> (v # 0) = (c.value # 0)
      [] OTHER -> FALSE

Evaluate(c, p) ==
    CASE c.type = "pointValue" -> Compare(c, p.value)
      [] c.type = "schedule" -> ActiveForTime(c.sched, p.time)
      [] OTHER -> FALSE

\* Mutant: a condition that was active stays active.
JudgeSticky(c, p) == [c EXCEPT !.active = @ \/ Evaluate(c, p), !.error = ""]

\* A condition after a point that concerns it.  A schedule that cannot be
\* parsed leaves it active or not, as it was.
Judge(c, p) ==
    IF c.type = "schedule" /\ ~c.valid THEN [c EXCEPT !.error = "schedule"]
    ELSE IF c.type = "pointValue" /\ ~KnownValue(c)
    THEN [c EXCEPT !.active = FALSE, !.error = "value type"]
    ELSE [c EXCEPT !.active = Evaluate(c, p), !.error = ""]

\* All conditions after one point of node id.
JudgeAll(c, id, p) ==
    LET done == {i \in Conds : Concerns(c[i], id, p)}
    IN  ShowErrors(c, [i \in ID |-> IF i \in done THEN Judge(c[i], p) ELSE c[i]],
                   Conditions, done)

\* The rule is active if all conditions are; disabled ones do not count.
AllActive(c) ==
    /\ \A i \in Conds : c[i].active \/ c[i].disabled
    /\ \E i \in Conds : c[i].active /\ ~c[i].disabled

\* The points in their order, then the rule.
ruleProcessPoints(c, id, pts) ==
    LET f[k \in 0 .. Len(pts)] == IF k = 0 THEN c ELSE JudgeAll(f[k-1], id, pts[k])
        d == f[Len(pts)]
    IN  [d EXCEPT ![Rule].active = AllActive(d)]

-----------------------------------------------------------------------------
(* Actions *)

\* Why an action fails, or "".  The store refuses the request that comes before
\* a notification, because it names no parent.
ActionError(a) ==
    CASE a.action = "setValue"  -> IF a.node = "" THEN "node ID"
                                   ELSE IF a.point = "" THEN "point type" ELSE ""
      [] a.action = "notify"    -> "parent"
      [] a.action = "playAudio" -> ""
      [] OTHER -> "unknown action"

\* Actions that are run: a sound file that cannot be played is skipped.
Enabled(c, ids) ==
    {i \in ToSet(ids) : ~c[i].disabled /\ (c[i].action = "playAudio" => c[i].valid)}

ruleRunActions(c, ids) ==
    ShowErrors(c, [i \in ID |-> IF i \in Enabled(c, ids)
                                THEN [c[i] EXCEPT !.active = TRUE,
                                                  !.error = ActionError(c[i])]
                                ELSE c[i]],
               ids, Enabled(c, ids))

ruleInactiveActions(c, ids) ==
    [i \in ID |-> IF i \in ToSet(ids) /\ ~c[i].disabled
                  THEN [c[i] EXCEPT !.active = FALSE] ELSE c[i]]

\* The points that these actions set, in their order.
Sets(c, ids) ==
    LET go(i)    == i \in Enabled(c, ids) /\ ActionError(c[i]) = "" /\ c[i].action = "setValue"
        point(i) == [id |-> c[i].node, field |-> c[i].point, val |-> c[i].value]
    IN  FlattenSeq([k \in DOMAIN ids |-> IF go(ids[k]) THEN <<point(ids[k])>> ELSE <<>>])

\* Mutant: the rule itself is not reported.
ReportNoRule(c, d, acted) ==
    {[id |-> i, field |-> "active", val |-> d[i].active] :
        i \in {i \in ID \ {Rule} : c[i].active # d[i].active \/ i \in acted}}

\* Points about the rule and its parts: sent if they have changed, and always
\* for the actions that are run or made inactive (acted).
Report(c, d, acted) ==
    {[id |-> p.id, field |-> p.field, val |-> d[p.id][p.field]] : p \in
        {p \in [id : ID, field : {"active", "error"}] :
            c[p.id][p.field] # d[p.id][p.field] \/ (p.field = "active" /\ p.id \in acted)}}

-----------------------------------------------------------------------------
(* The closure run *)

Trigger == [point |-> "trigger", value |-> 0, time |-> now]

\* The configuration c becomes d, and points are sent, if there are any.
Send(c, d, acted, sets) ==
    LET msg == [own |-> Report(c, d, acted), sets |-> sets]
    IN  /\ cfg' = d
        /\ pub' = IF msg.own = {} /\ sets = <<>> THEN pub ELSE Append(pub, msg)
        /\ ran' = (ran \/ acted # {})

\* Mutant: an edit that leaves the rule as active as it was runs nothing.
IdleAfterEdit(c, d, pts) == ~c[Rule].disabled /\ d[Rule].active = c[Rule].active

\* Mutant: every point runs the actions.
IdleNever(c, d, pts) == FALSE

\* run returns before the actions: points have not changed the rule.
Idle(c, d, pts) ==
    ~c[Rule].disabled /\ pts # <<>> /\ d[Rule].active = c[Rule].active

\* run for points, and for a configuration that may have changed (pts is empty).
\* The conditions take c to d, the actions d to e.
Run(c, id, pts) ==
    \E d \in {IF c[Rule].disabled THEN c
              ELSE IF pts = <<>> THEN ruleProcessPoints(c, Rule, <<Trigger>>)
              ELSE ruleProcessPoints(c, id, pts)} :
        LET active == d[Rule].active /\ ~c[Rule].disabled
            on     == IF active THEN Actions ELSE ActionsInactive
            off    == IF active THEN ActionsInactive ELSE Actions
            acted  == Enabled(d, on) \cup {i \in ToSet(off) : ~d[i].disabled}
        IN  IF Idle(c, d, pts) THEN Send(c, d, {}, <<>>)
            ELSE \E e \in {ruleInactiveActions(ruleRunActions(d, on), off)} :
                     Send(c, e, acted, Sets(d, on))

-----------------------------------------------------------------------------
(* Run *)

\* Conditions that a message concerns.
Concerned(id, pts) ==
    {i \in Conds : \E k \in DOMAIN pts : Concerns(cfg[i], id, pts[k])}

\* newRulePoints: only points of a node that a condition names run the rule.
NewRulePoints ==
    /\ running
    /\ rulePts # <<>>
    /\ LET m     == Head(rulePts)
           found == \E i \in Conds : cfg[i].type = "pointValue" /\ cfg[i].node = m.id
           seen  == Concerned(m.id, m.pts)
       IN  IF found
           THEN /\ Run(cfg, m.id, m.pts)
                /\ blind' = IF cfg[Rule].disabled THEN blind \cup seen ELSE blind \ seen
           ELSE /\ blind' = blind \cup seen
                /\ UNCHANGED <<cfg, pub, ran>>
    /\ rulePts' = Tail(rulePts)
    /\ UNCHANGED <<db, running, cfgPts, now, events, lost>>

\* newPoints: MergePoints, then run.
NewPoints ==
    /\ running
    /\ cfgPts # <<>>
    /\ Head(cfgPts).field # "edge"
    /\ LET m == Head(cfgPts)
       IN  /\ Run([cfg EXCEPT ![m.id][m.field] = m.val], "", <<>>)
           /\ blind' = IF m.id \in Conds /\ m.field # "disabled"
                       THEN blind \cup {m.id} ELSE blind
    /\ cfgPts' = Tail(cfgPts)
    /\ UNCHANGED <<db, running, rulePts, now, events, lost>>

\* newEdgePoints: a rule has no field for an edge point.
NewEdgePoints ==
    /\ running
    /\ cfgPts # <<>>
    /\ Head(cfgPts).field = "edge"
    /\ Run(cfg, "", <<>>)
    /\ cfgPts' = Tail(cfgPts)
    /\ UNCHANGED <<db, running, rulePts, now, events, lost, blind>>

hasSchedule == \E i \in Conds : cfg[i].type = "schedule"

\* Mutant: the ticker of a rule never fires.
TickNever ==
    /\ running /\ hasSchedule /\ pub = <<>> /\ rulePts = <<>>
    /\ UNCHANGED vars

\* scheduleTicker, which runs when there is a schedule.  The 10 seconds between
\* two ticks are enough for the store and the rule to handle what was sent.
Tick ==
    /\ running /\ hasSchedule /\ pub = <<>> /\ rulePts = <<>>
    /\ Run(cfg, Rule, <<Trigger>>)
    /\ UNCHANGED <<db, running, rulePts, cfgPts, now, events, lost, blind>>

\* Stop, and the end of the subscriptions.
Stop ==
    /\ running
    /\ running' = FALSE
    /\ rulePts' = <<>>
    /\ cfgPts' = <<>>
    /\ lost' = (lost \/ cfgPts # <<>>)
    /\ UNCHANGED <<db, pub, cfg, now, events, ran, blind>>

\* NewRuleClient, with the configuration that the store has.
Start ==
    /\ ~running
    /\ events < MaxEvents
    /\ events' = events + 1
    /\ running' = TRUE
    /\ cfg' = [i \in ID |-> db[i]]
    /\ lost' = (lost \/ pub # <<>>)
    /\ blind' = Conds
    /\ UNCHANGED <<db, pub, rulePts, cfgPts, now, ran>>

-----------------------------------------------------------------------------
(* The store, the users and the devices *)

\* Nodes after points that are written in this order.
Written(nodes, sets) ==
    LET at(i)    == {k \in DOMAIN sets : sets[k].id = i}
        of(i, f) == {k \in at(i) : sets[k].field = f}
    IN  [i \in DOMAIN nodes |->
            [f \in DOMAIN nodes[i] \cup {sets[k].field : k \in at(i)} |->
                IF of(i, f) = {} THEN nodes[i][f] ELSE sets[Max(of(i, f))].val]]

\* The store handles what a turn of the rule has sent.  The manager does not
\* announce a rule's own points to it.  (A restart that would find a part of
\* these points stored counts as lost.)
Store ==
    /\ pub # <<>>
    /\ LET m   == Head(pub)
           own == [i \in DOMAIN db |-> [f \in DOMAIN db[i] |->
                      IF \E p \in m.own : p.id = i /\ p.field = f
                      THEN (CHOOSE p \in m.own : p.id = i /\ p.field = f).val
                      ELSE db[i][f]]]
           up(p) == [id |-> p.id, pts |-> <<[point |-> p.field, value |-> p.val, time |-> now]>>]
       IN  /\ db' = Written(own, m.sets)
           /\ rulePts' = IF running THEN rulePts \o [k \in DOMAIN m.sets |-> up(m.sets[k])]
                         ELSE rulePts
    /\ pub' = Tail(pub)
    /\ UNCHANGED <<running, cfg, cfgPts, now, events, ran, lost, blind>>

\* A device sends points.
DeviceSends ==
    \E b \in Batches :
        /\ events < MaxEvents
        /\ events' = events + 1
        /\ db' = Written(db, [k \in DOMAIN b.pts |->
                     [id |-> b.id, field |-> b.pts[k].point, val |-> b.pts[k].value]])
        /\ rulePts' = IF running THEN Append(rulePts, b) ELSE rulePts
        /\ UNCHANGED <<pub, running, cfg, cfgPts, now, ran, lost, blind>>

\* A user edits the rule, a condition, an action or an edge.
UserEdits ==
    \E e \in Edits :
        /\ events < MaxEvents
        /\ events' = events + 1
        /\ db' = IF e.field = "edge" THEN db ELSE [db EXCEPT ![e.id][e.field] = e.val]
        /\ cfgPts' = IF running THEN Append(cfgPts, e) ELSE cfgPts
        /\ lost' = (lost \/ ~running)
        /\ UNCHANGED <<pub, running, cfg, rulePts, now, ran, blind>>

Clock ==
    /\ now' = IF now.min < Minutes - 1 THEN [now EXCEPT !.min = @ + 1]
              ELSE [day |-> now.day + 1, min |-> 0]
    /\ now'.day <= LastDay
    /\ UNCHANGED <<db, pub, running, cfg, rulePts, cfgPts, events, ran, lost, blind>>

Init ==
    /\ db \in Created
    /\ pub = <<>> /\ rulePts = <<>> /\ cfgPts = <<>>
    /\ running = TRUE
    /\ cfg = [i \in ID |-> db[i]]
    /\ now = [day |-> FirstDay, min |-> 0]
    /\ events = 0
    /\ ran = FALSE /\ lost = FALSE
    /\ blind = Conds

Next == NewRulePoints \/ NewPoints \/ NewEdgePoints \/ Tick \/ Stop \/ Start
        \/ Store \/ DeviceSends \/ UserEdits \/ Clock

Spec == Init /\ [][Next]_vars

\* The store handles what is sent, and a case of the loop that stays ready is
\* taken in the end.
FairSpec ==
    /\ Spec
    /\ WF_vars(Store)
    /\ WF_vars(NewRulePoints) /\ WF_vars(NewPoints \/ NewEdgePoints)
    /\ SF_vars(Tick)

-----------------------------------------------------------------------------
(* Properties *)

Quiet == pub = <<>> /\ rulePts = <<>> /\ cfgPts = <<>>

\* rules.md: "All conditions must be true for the rule to be active", disabled
\* ones aside.  Once everything is stored, the points that the actions of the
\* active (inactive) rule set have the values of these actions, whatever was
\* edited, enabled and disabled in whatever order.  (Points that devices write
\* too are left aside.)
OutputFollows ==
    ran /\ ~lost /\ pub = <<>> =>
        LET on  == ~cfg[Rule].disabled /\ AllActive(cfg)
            ids == ToSet(IF on THEN Actions ELSE ActionsInactive)
        IN  \A i \in ids : ~cfg[i].disabled /\ cfg[i].action = "setValue"
                               /\ ActionError(cfg[i]) = ""
                               /\ cfg[i].node \notin {b.id : b \in Batches} =>
                db[cfg[i].node][cfg[i].point] = cfg[i].value

\* What a field may be: as it is at first, or as a user edits it.
MayBe(i, f) ==
    {c[i][f] : c \in Created} \cup {e.val : e \in {e \in Edits : e.id = i /\ e.field = f}}

\* No two actions that are run together may be given the same point to set.
OutputsApart ==
    \A ids \in {Actions, ActionsInactive} : \A i, j \in ToSet(ids) :
        i # j => \E f \in {"node", "point"} : MayBe(i, f) \cap MayBe(j, f) \subseteq {""}

\* The store's copy of the rule, its conditions and actions is the client's
\* once nothing is under way: a restart then changes nothing.
StoreAgrees ==
    running /\ ~lost /\ pub = <<>> /\ cfgPts = <<>> => cfg = [i \in ID |-> db[i]]

\* A condition on a point agrees with the point that the store has, unless it
\* has missed one: a disabled rule drops points, an edit compares nothing.
ConditionsFollow ==
    running /\ Quiet => \A i \in Conds \ blind :
        cfg[i].type = "pointValue" /\ cfg[i].node # "" /\ cfg[i].point # "" =>
            cfg[i].active = Compare(cfg[i], db[cfg[i].node][cfg[i].point])

\* activeForTime: with the ranges of two days it finds every range that holds
\* the time, also those that run past midnight.
ScheduleExact ==
    \A i \in Conds : cfg[i].type = "schedule" =>
        (ActiveForTime(cfg[i].sched, now)
            <=> Open(cfg[i].sched, now, FirstDay - 2 .. LastDay + 2))

\* A schedule is followed when time passes: the ticks bring the condition to
\* what the schedule says.
ScheduleFollowed ==
    \A i \in Conds : cfg[i].type = "schedule" =>
        (<>[](running /\ ~cfg[Rule].disabled /\ cfg[i].valid)
            => <>[](cfg[i].active = ActiveForTime(cfg[i].sched, now)))

\* rule.go: "make sure the point is in a condition before we run the rule
\* otherwise, we can get into a loop": the rule comes to rest again and again.
Settles == []<>Quiet

=============================================================================
