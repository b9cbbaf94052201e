------------------------------- MODULE MCRule -------------------------------
EXTENDS Rule

FullDay(days) == [start |-> 1, end |-> 1, weekdays |-> days, dates |-> {}]

MCCond(type, node, vtype, value, sched) ==
    [disabled |-> FALSE, type |-> type, node |-> node, point |-> "value",
     vtype |-> vtype, op |-> "=", value |-> value, sched |-> sched, valid |-> TRUE,
     active |-> FALSE, error |-> ""]

MCAct(action, node, value) ==
    [disabled |-> FALSE, action |-> action, node |-> node, point |-> "value",
     value |-> value, valid |-> TRUE, active |-> FALSE, error |-> ""]

MCConditions == <<"c1", "c2">>
MCActions == <<"a1", "a2", "a3">>
MCInactive == <<"i1">>
MCDevice == {"in", "out"}

\* a2 keeps the input up, a3 is a notification.  The input is on at first.
MCRunning ==
    "rule" :> [disabled |-> FALSE, active |-> FALSE, error |-> ""]
    @@ "c1" :> [MCCond("pointValue", "in", "onOff", 1, FullDay({})) EXCEPT !.active = TRUE]
    @@ "c2" :> MCCond("schedule", "", "", 0, FullDay({2}))
    @@ "a1" :> MCAct("setValue", "out", 1)
    @@ "a2" :> MCAct("setValue", "in", 1)
    @@ "a3" :> MCAct("notify", "", 0)
    @@ "i1" :> MCAct("setValue", "out", 0)
    @@ "in" :> [value |-> 1]
    @@ "out" :> [value |-> 0]

MCCreated == {MCRunning, [MCRunning EXCEPT !["rule"].disabled = TRUE]}

MCEdit(id, field, val) == [id |-> id, field |-> field, val |-> val]

MCEdits ==
    {MCEdit("rule", "disabled", b) : b \in BOOLEAN}
    \cup {MCEdit("c2", "valid", b) : b \in BOOLEAN}
    \cup {MCEdit("c2", "disabled", TRUE), MCEdit("c1", "vtype", ""), MCEdit("c1", "edge", 0),
          MCEdit("a1", "value", 2)}

MCSend(v) == [value |-> v, point |-> "value", time |-> At(FirstDay, 0)]
MCBatches == {[id |-> "in", pts |-> <<MCSend(v)>>] : v \in {0, 1}}

\* What the theorem about OutputFollows assumes.
ASSUME MCOutputsApart == OutputsApart

=============================================================================
