------------------------------- MODULE Ledger -------------------------------
(***************************************************************************)
(* What the store promises to those who write to it, without tables,       *)
(* hashes, edges or walks: a ledger that knows, for every point, the time  *)
(* of the newest version it has been given.  A batch of points is applied  *)
(* as a whole or not at all, what was applied is never undone by an older  *)
(* version, by a failure or by a crash, and a batch is acknowledged only   *)
(* after it was applied.  Store implements this specification.             *)
(***************************************************************************)
EXTENDS Integers, FiniteSets

CONSTANTS
    At,         \* where points are: nodes and edges
    Key,        \* what tells the points of one place apart
    Times,      \* times of versions; 0 asks the store to choose one
    Port,       \* the handlers that take batches, each one at a time
    Batch       \* the batches each port is sent: sets of versions

Never == -1

VARIABLES
    newest,     \* the time of the newest version of every point, or Never
    port,       \* what every port is busy with
    acked       \* the newest versions that were acknowledged

ledger == <<newest, port, acked>>

Free == [st |-> "free", batch |-> {}]

\* Of the versions of one point those that are not the newest are forgotten.
Latest(W) ==
    {w \in W : \A v \in W : v.at = w.at /\ v.k = w.k => v.time =< w.time}

\* The time a batch gives to point k of place a, when the clock says now.
Given(B, now, a, k) ==
    {IF w.time = 0 THEN now ELSE w.time : w \in {w \in B : w.at = a /\ w.k = k}}

Later(t, T) == CHOOSE x \in {t} \cup T : \A y \in {t} \cup T : y =< x

-----------------------------------------------------------------------------

Init ==
    /\ newest \in [At -> [Key -> Times \cup {Never}]]
    /\ port = [p \in Port |-> Free]
    /\ acked = {}

Take(p) ==
    /\ port[p] = Free
    /\ \E B \in Batch[p] : port' = [port EXCEPT ![p] = [st |-> "taken", batch |-> B]]
    /\ UNCHANGED <<newest, acked>>

Apply(p) ==
    /\ port[p].st = "taken"
    /\ port' = [port EXCEPT ![p].st = "applied"]
    /\ \E now \in Times \ {0} :
           newest' = [a \in At |-> [k \in Key |->
                          Later(newest[a][k], Given(port[p].batch, now, a, k))]]
    /\ UNCHANGED acked

\* The error may be replied at once, or after the points were announced.
Refuse(p) ==
    /\ port[p].st = "taken"
    /\ port' \in {[port EXCEPT ![p].st = "refused"], [port EXCEPT ![p] = Free]}
    /\ UNCHANGED <<newest, acked>>

Acknowledge(p) ==
    /\ port[p].st = "applied"
    /\ port' = [port EXCEPT ![p] = Free]
    /\ acked' = Latest(acked \cup port[p].batch)
    /\ UNCHANGED newest

Dismiss(p) ==
    /\ port[p].st = "refused"
    /\ port' = [port EXCEPT ![p] = Free]
    /\ UNCHANGED <<newest, acked>>

\* Whatever is under way is lost, applied or not, and never acknowledged.
Crash ==
    /\ port' = [p \in Port |-> Free]
    /\ UNCHANGED <<newest, acked>>

Next ==
    \/ \E p \in Port : Take(p) \/ Apply(p) \/ Refuse(p) \/ Acknowledge(p) \/ Dismiss(p)
    \/ Crash

Spec == Init /\ [][Next]_ledger

=============================================================================
