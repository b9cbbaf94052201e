----------------------------- MODULE RuleProofs -----------------------------
(***************************************************************************)
(* The rule client.  The two ranges that activeForTime builds are enough:  *)
(* for every schedule and every time it finds exactly what the definition  *)
(* Open says, and so does every condition of a rule (ScheduleExact).  The  *)
(* store's copy of a rule, its conditions and its actions is the client's  *)
(* once nothing is under way (StoreAgrees), conditions say what the points *)
(* that they watch do (ConditionsFollow), and what actions set is what the *)
(* actions that are due say (OutputFollows).                               *)
(*                                                                         *)
(* The invariants follow every point on its way: results of the rule       *)
(* (active and error) go from the client to the store, all other points    *)
(* from users and devices through the store to the client.  What is behind *)
(* agrees with what is ahead once the messages between are applied.        *)
(***************************************************************************)
EXTENDS Rule, SequenceTheorems, NaturalsInduction, WellFoundedInduction, TLAPS

-----------------------------------------------------------------------------
(* Schedules *)

\* The schedule is in the range that starts on the day itself, or in the one
\* that has started the day before.
Today(s, t) ==
    Starts(s, t.day) /\ s.start <= t.min /\ (s.start < s.end => t.min < s.end)

Overnight(s, t) ==
    s.end <= s.start /\ Starts(s, t.day - 1) /\ t.min < s.end

\* timeRange.in for a range between two times of day.
LEMMA InRange ==
    ASSUME NEW d \in Int, NEW m \in Int, NEW e \in Int, NEW n \in Int, NEW t \in Time
    PROVE  In([start |-> At(d, m), end |-> At(e, n)], t)
               <=> /\ d < e \/ (d = e /\ m <= n)
                   /\ d < t.day \/ (d = t.day /\ m <= t.min)
                   /\ t.day < e \/ (t.day = e /\ t.min < n)
<1>1. t.day \in Int /\ t.min \in Int
  BY MinutesAssumption DEF Time
<1> QED
  BY <1>1 DEF In, Before, At

\* filterWeekdays and filterDates keep the ranges that start on an allowed day.
LEMMA Filtered ==
    ASSUME NEW s, NEW trs
    PROVE  FilterDates(FilterWeekdays(trs, s), s) = {tr \in trs : Starts(s, tr.start.day)}
BY DEF FilterDates, FilterWeekdays, Starts

\* activeForTime in terms of the two days.
LEMMA ActiveTodayOrOvernight ==
    ASSUME NEW s \in Schedule, NEW t \in Time
    PROVE  ActiveForTime(s, t) <=> Today(s, t) \/ Overnight(s, t)
<1>1. /\ t.day \in Int /\ t.min \in Int
      /\ s.start \in Int /\ s.end \in Int
      /\ 0 <= t.min /\ 0 <= s.start
  BY MinutesAssumption DEF Time, Schedule
<1> DEFINE a == [start |-> At(t.day, s.start), end |-> At(t.day, s.end)]
           b == [start |-> At(t.day, s.start), end |-> At(t.day + 1, s.end)]
           c == [start |-> At(t.day - 1, s.start), end |-> At(t.day, s.end)]
<1>2. TimeRanges(s, t.day) = IF s.start < s.end THEN {a} ELSE {b, c}
  <2>1. Before(At(t.day, s.start), At(t.day, s.end)) <=> s.start < s.end
    BY <1>1 DEF Before, At
  <2>2. /\ AddDate(At(t.day, s.end), 1) = At(t.day + 1, s.end)
        /\ AddDate(At(t.day, s.start), -1) = At(t.day - 1, s.start)
    BY <1>1 DEF AddDate, At
  <2> QED
    BY <2>1, <2>2 DEF TimeRanges
<1>3. /\ a.start.day = t.day /\ b.start.day = t.day
      /\ c.start.day = t.day - 1
  BY DEF At
<1>4. In(a, t) <=> s.start <= s.end /\ s.start <= t.min /\ t.min < s.end
  BY <1>1, InRange
<1>5. In(b, t) <=> s.start <= t.min
  BY <1>1, InRange
<1>6. In(c, t) <=> t.min < s.end
  BY <1>1, InRange
<1>7. ActiveForTime(s, t)
          <=> \E tr \in TimeRanges(s, t.day) : Starts(s, tr.start.day) /\ In(tr, t)
  BY Filtered DEF ActiveForTime
<1> HIDE DEF a, b, c
<1>8. CASE s.start < s.end
  BY <1>8, <1>1, <1>2, <1>3, <1>4, <1>7 DEF Today, Overnight
<1>9. CASE s.end <= s.start
  <2>1. ActiveForTime(s, t) <=> \/ Starts(s, t.day) /\ s.start <= t.min
                                \/ Starts(s, t.day - 1) /\ t.min < s.end
    BY <1>9, <1>1, <1>2, <1>3, <1>5, <1>6, <1>7
  <2> QED
    BY <2>1, <1>9, <1>1 DEF Today, Overnight
<1> QED
  BY <1>1, <1>8, <1>9

\* Open in terms of the two days: a range that has started earlier is over.
LEMMA OpenTodayOrOvernight ==
    ASSUME NEW s \in Schedule, NEW t \in Time, NEW lo \in Int, NEW hi \in Int,
           lo < t.day, t.day <= hi
    PROVE  Open(s, t, lo .. hi) <=> Today(s, t) \/ Overnight(s, t)
<1>1. /\ t.day \in Int /\ t.min \in Int
      /\ s.start \in Int /\ s.end \in Int
  BY MinutesAssumption DEF Time, Schedule
<1>2. \A d \in Int, m \in Int :
          /\ Before(t, At(d, m)) <=> (t.day < d \/ (t.day = d /\ t.min < m))
          /\ \A e \in Int, n \in Int :
                 Before(At(d, m), At(e, n)) <=> (d < e \/ (d = e /\ m < n))
  BY <1>1 DEF Before, At
<1>3. Open(s, t, lo .. hi) <=>
          \E d \in lo .. hi :
              /\ Starts(s, d)
              /\ d < t.day \/ (d = t.day /\ s.start <= t.min)
              /\ \A e \in lo .. hi :
                     d < e \/ (d = e /\ s.start < s.end)
                         => (t.day < e \/ (t.day = e /\ t.min < s.end))
  BY <1>1, <1>2 DEF Open
<1>4. ASSUME Open(s, t, lo .. hi)
      PROVE  Today(s, t) \/ Overnight(s, t)
  <2>1. PICK d \in lo .. hi :
              /\ Starts(s, d)
              /\ d < t.day \/ (d = t.day /\ s.start <= t.min)
              /\ \A e \in lo .. hi :
                     d < e \/ (d = e /\ s.start < s.end)
                         => (t.day < e \/ (t.day = e /\ t.min < s.end))
    BY <1>3, <1>4
  <2>2. CASE d = t.day
    <3>1. s.start < s.end => t.min < s.end
      BY <2>1, <2>2, <1>1
    <3> QED
      BY <2>1, <2>2, <3>1, <1>1 DEF Today
  <2>3. CASE d < t.day
    <3>1. d + 1 \in lo .. hi /\ d < d + 1
      BY <2>3, <1>1
    <3>2. t.day < d + 1 \/ (t.day = d + 1 /\ t.min < s.end)
      BY <2>1, <3>1
    <3>3. t.day = d + 1 /\ t.min < s.end
      BY <3>2, <2>3, <1>1
    <3>4. ~(s.start < s.end)
      BY <2>1, <2>3, <1>1
    <3>5. d = t.day - 1
      BY <3>3, <1>1
    <3> QED
      BY <2>1, <3>3, <3>4, <3>5, <1>1 DEF Overnight
  <2> QED
    BY <2>1, <2>2, <2>3
<1>5. ASSUME Today(s, t)
      PROVE  Open(s, t, lo .. hi)
  <2>1. t.day \in lo .. hi
    BY <1>1
  <2> QED
    BY <2>1, <1>1, <1>3, <1>5 DEF Today
<1>6. ASSUME Overnight(s, t)
      PROVE  Open(s, t, lo .. hi)
  <2>1. t.day - 1 \in lo .. hi
    BY <1>1
  <2>2. Starts(s, t.day - 1) /\ t.min < s.end /\ ~(s.start < s.end)
    BY <1>6, <1>1 DEF Overnight
  <2>3. \A e \in lo .. hi :
            t.day - 1 < e \/ (t.day - 1 = e /\ s.start < s.end)
                => (t.day < e \/ (t.day = e /\ t.min < s.end))
    BY <2>2, <1>1
  <2> QED
    BY <2>1, <2>2, <2>3, <1>1, <1>3
<1> QED
  BY <1>4, <1>5, <1>6

\* activeForTime (client/schedule.go): a schedule is active at a time exactly if
\* it has started on an allowed day and its end has not come since, whether it
\* runs past midnight or not.
THEOREM ScheduleCorrect ==
    ASSUME NEW s \in Schedule, NEW t \in Time, NEW lo \in Int, NEW hi \in Int,
           lo < t.day, t.day <= hi
    PROVE  ActiveForTime(s, t) <=> Open(s, t, lo .. hi)
BY ActiveTodayOrOvernight, OpenTodayOrOvernight

-----------------------------------------------------------------------------
(* Sequences *)

\* A set of numbers that has 0 and every successor has all of them.
LEMMA SetInduction ==
    ASSUME NEW S \in SUBSET Nat, 0 \in S, \A n \in S : n + 1 \in S
    PROVE  S = Nat
<1> DEFINE T == Nat \ S
           R == {ss \in Nat \X Nat : ss[1] < ss[2]}
<1>1. IsWellFoundedOn(R, Nat)
  BY NatLessThanWellFounded DEF OpToRel
<1>2. SUFFICES ASSUME T # {} PROVE FALSE
  OBVIOUS
<1>3. PICK x \in T : \A y \in T : <<y, x>> \notin R
  <2> HIDE DEF R
  <2>1. T \subseteq Nat
    OBVIOUS
  <2> HIDE DEF T
  <2> QED BY <1>1, <1>2, <2>1, WFMin
<1>4. x \in Nat /\ x # 0 /\ x - 1 \in Nat
  OBVIOUS
<1>5. x - 1 \notin T
  <2>1. <<x - 1, x>> \in R
    BY <1>4
  <2> HIDE DEF R, T
  <2> QED BY <1>3, <2>1
<1>6. (x - 1) + 1 \in S
  BY <1>4, <1>5
<1> QED BY <1>4, <1>6

\* The equation of flatten, up to the m-th sequence.
IsFlat(g, q, m) == g = [i \in 1 .. m |-> IF i = 1 THEN q[i] ELSE g[i-1] \o q[i]]

\* Up to every one there is a function that satisfies it.
LEMMA FlatExists ==
    ASSUME NEW q
    PROVE  \A m \in Nat : \E g : IsFlat(g, q, m)
<1> DEFINE S == {m \in Nat : \E g : IsFlat(g, q, m)}
<1>1. 0 \in S
  <2>1. IsFlat([i \in 1 .. 0 |-> q[i]], q, 0)
    BY DEF IsFlat
  <2> QED BY <2>1
<1>2. ASSUME NEW m \in S PROVE m + 1 \in S
  <2>1. PICK g : IsFlat(g, q, m)
    OBVIOUS
  <2> DEFINE last == IF m + 1 = 1 THEN q[m+1] ELSE g[m] \o q[m+1]
             h == [i \in 1 .. m + 1 |-> IF i = m + 1 THEN last ELSE g[i]]
  <2>2. \A i \in 1 .. m : h[i] = g[i]
    OBVIOUS
  <2>3. \A i \in 1 .. m + 1 : h[i] = IF i = 1 THEN q[i] ELSE h[i-1] \o q[i]
    <3> TAKE i \in 1 .. m + 1
    <3>2. CASE i = m + 1
      <4>1. h[i] = last
        BY <3>2
      <4>2. m # 0 => h[i-1] = g[m]
        BY <2>2, <3>2
      <4> HIDE DEF h
      <4> QED BY <3>2, <4>1, <4>2
    <3>3. CASE i \in 1 .. m
      <4>1. h[i] = g[i] /\ (i # 1 => h[i-1] = g[i-1])
        BY <2>2, <3>3
      <4>2. g[i] = IF i = 1 THEN q[i] ELSE g[i-1] \o q[i]
        BY <2>1, <3>3 DEF IsFlat
      <4> HIDE DEF h
      <4> QED BY <4>1, <4>2
    <3> QED BY <3>2, <3>3
  <2>4. IsFlat(h, q, m + 1)
    <3> DEFINE f == [i \in 1 .. m + 1 |-> IF i = 1 THEN q[i] ELSE h[i-1] \o q[i]]
    <3>1. h = f
      BY <2>3
    <3> QED BY <3>1 DEF IsFlat
  <2> QED BY <2>4
<1>3. S \in SUBSET Nat
  OBVIOUS
<1> HIDE DEF S
<1>4. S = Nat
  BY <1>1, <1>2, <1>3, SetInduction
<1> QED BY <1>4 DEF S

\* FlattenSeq: R are the sequences up to each one.
LEMMA FlattenLoop ==
    ASSUME NEW S, NEW q \in Seq(S), Len(q) # 0
    PROVE  \E R : /\ FlattenSeq(q) = R[Len(q)]
                  /\ \A i \in 1 .. Len(q) : R[i] = IF i = 1 THEN q[i] ELSE R[i-1] \o q[i]
<1> DEFINE M == Len(q)
           Eq(g) == g = [i \in 1 .. M |-> IF i = 1 THEN q[i] ELSE g[i-1] \o q[i]]
           R == CHOOSE g : Eq(g)
<1>1. M \in Nat
  OBVIOUS
<1>2. \E g : Eq(g)
  <2>1. \E g : IsFlat(g, q, M)
    BY <1>1, FlatExists
  <2> HIDE DEF M
  <2> QED BY <2>1, Zenon DEF IsFlat
<1>3. Eq(R)
  BY <1>2, Zenon
<1>4. FlattenSeq(q) = R[M]
  BY Zenon DEF FlattenSeq
<1> HIDE DEF R
<1> DEFINE F == [i \in 1 .. M |-> IF i = 1 THEN q[i] ELSE R[i-1] \o q[i]]
<1>5. R = F
  BY <1>3, Zenon
<1> HIDE DEF Eq
<1>6. \A i \in 1 .. M : F[i] = IF i = 1 THEN q[i] ELSE R[i-1] \o q[i]
  <2> HIDE DEF M
  <2> QED BY <1>1
<1> HIDE DEF F
<1>7. \A i \in 1 .. M : R[i] = IF i = 1 THEN q[i] ELSE R[i-1] \o q[i]
  BY <1>5, <1>6
<1> QED BY <1>4, <1>7

\* Sequences from a set that is closed under concatenation, one after the other.
LEMMA FlattenIn ==
    ASSUME NEW S, NEW q \in Seq(S), \A a \in S, b \in S : a \o b \in S
    PROVE  FlattenSeq(q) \in S \/ FlattenSeq(q) = <<>>
<1> DEFINE M == Len(q)
<1>1. M \in Nat /\ \A i \in 1 .. M : q[i] \in S
  OBVIOUS
<1>2. CASE M = 0
  <2>1. FlattenSeq(q) = q
    BY <1>2, Zenon DEF FlattenSeq
  <2>2. q = <<>>
    BY <1>2
  <2> QED BY <2>1, <2>2
<1>3. CASE M # 0
  <2>1. PICK R : /\ FlattenSeq(q) = R[M]
                 /\ \A i \in 1 .. M : R[i] = IF i = 1 THEN q[i] ELSE R[i-1] \o q[i]
    BY <1>3, FlattenLoop
  <2> HIDE DEF M
  <2> DEFINE T == {k \in Nat : k + 1 <= M => R[k+1] \in S}
  <2>2. 0 \in T
    BY <1>1, <1>3, <2>1
  <2>3. ASSUME NEW k \in T PROVE k + 1 \in T
    <3> SUFFICES ASSUME (k + 1) + 1 <= M PROVE R[(k+1)+1] \in S
      OBVIOUS
    <3>1. R[k+1] \in S
      BY <1>1
    <3>2. (k + 1) + 1 \in 1 .. M /\ (k + 1) + 1 # 1 /\ ((k + 1) + 1) - 1 = k + 1
      BY <1>1
    <3>3. R[(k+1)+1] = R[k+1] \o q[(k+1)+1]
      BY <2>1, <3>2
    <3>4. q[(k+1)+1] \in S
      BY <1>1, <3>2
    <3> QED BY <3>1, <3>3, <3>4
  <2>4. T \in SUBSET Nat
    OBVIOUS
  <2>5. T = Nat
    <3> HIDE DEF T
    <3> QED BY <2>2, <2>3, <2>4, SetInduction
  <2>6. M - 1 \in T
    <3> HIDE DEF T
    <3> QED BY <1>1, <1>3, <2>5
  <2>7. R[M] \in S
    BY <1>1, <1>3, <2>6
  <2> QED BY <2>1, <2>7
<1> QED BY <1>2, <1>3

\* A sequence has x.
Has(q, x) == \E k \in DOMAIN q : q[k] = x

\* And so has one that it is a part of.
LEMMA ConcatHas ==
    ASSUME NEW S, NEW a \in Seq(S), NEW b \in Seq(S), NEW x, Has(a, x) \/ Has(b, x)
    PROVE  Has(a \o b, x)
<1> DEFINE r == a \o b
<1>1. /\ Len(a) \in Nat /\ Len(b) \in Nat /\ DOMAIN a = 1 .. Len(a) /\ DOMAIN b = 1 .. Len(b)
      /\ DOMAIN r = 1 .. Len(a) + Len(b)
      /\ \A k \in 1 .. Len(a) : r[k] = a[k]
      /\ \A k \in 1 .. Len(b) : r[Len(a) + k] = b[k]
  OBVIOUS
<1> HIDE DEF r
<1>2. CASE Has(a, x)
  <2>1. PICK k \in DOMAIN a : a[k] = x
    BY <1>2 DEF Has
  <2>2. k \in DOMAIN r /\ r[k] = x
    BY <1>1, <2>1
  <2> QED BY <2>2 DEF Has, r
<1>3. CASE Has(b, x)
  <2>1. PICK k \in DOMAIN b : b[k] = x
    BY <1>3 DEF Has
  <2>2. Len(a) + k \in DOMAIN r /\ r[Len(a) + k] = x
    BY <1>1, <2>1
  <2> QED BY <2>2 DEF Has, r
<1> QED BY <1>2, <1>3

\* Nothing of the sequences is lost when they are put one after the other.
LEMMA FlattenHas ==
    ASSUME NEW S, NEW q \in Seq(Seq(S)), NEW h \in DOMAIN q, NEW x, Has(q[h], x)
    PROVE  Has(FlattenSeq(q), x)
<1> DEFINE M == Len(q)
           Q == Seq(S)
<1>1. M \in Nat /\ h \in 1 .. M /\ \A i \in 1 .. M : q[i] \in Q
  OBVIOUS
<1>2. PICK R : /\ FlattenSeq(q) = R[M]
               /\ \A i \in 1 .. M : R[i] = IF i = 1 THEN q[i] ELSE R[i-1] \o q[i]
  <2>1. M # 0
    BY <1>1
  <2> QED BY <2>1, FlattenLoop
<1>3. \A a \in Q, b \in Q : a \o b \in Q /\ (Has(a, x) \/ Has(b, x) => Has(a \o b, x))
  BY ConcatHas
<1> HIDE DEF M, Q
<1> DEFINE T == {k \in Nat : k + 1 <= M => R[k+1] \in Q /\ (h <= k + 1 => Has(R[k+1], x))}
<1>4. 0 \in T
  <2>1. R[0+1] = q[0+1] /\ q[0+1] \in Q /\ (h <= 0 + 1 => h = 0 + 1)
    BY <1>1, <1>2
  <2> QED BY <2>1
<1>5. ASSUME NEW k \in T PROVE k + 1 \in T
  <2> SUFFICES ASSUME (k + 1) + 1 <= M
               PROVE  R[(k+1)+1] \in Q /\ (h <= (k + 1) + 1 => Has(R[(k+1)+1], x))
    OBVIOUS
  <2>1. R[k+1] \in Q /\ (h <= k + 1 => Has(R[k+1], x))
    BY <1>1
  <2>2. (k + 1) + 1 \in 1 .. M /\ (k + 1) + 1 # 1 /\ ((k + 1) + 1) - 1 = k + 1
    BY <1>1
  <2>3. R[(k+1)+1] = R[k+1] \o q[(k+1)+1] /\ q[(k+1)+1] \in Q
    BY <1>1, <1>2, <2>2
  <2>4. h <= (k + 1) + 1 => h <= k + 1 \/ h = (k + 1) + 1
    BY <1>1
  <2> QED BY <1>3, <2>1, <2>3, <2>4
<1>6. T \in SUBSET Nat
  OBVIOUS
<1>7. T = Nat
  <2> HIDE DEF T
  <2> QED BY <1>4, <1>5, <1>6, SetInduction
<1>8. M - 1 \in T /\ (M - 1) + 1 = M /\ h <= M
  <2> HIDE DEF T
  <2> QED BY <1>1, <1>7
<1> QED BY <1>2, <1>8

-----------------------------------------------------------------------------
(* Configurations *)

\* A record, whatever its fields.
IsRec(r) == r = [f \in DOMAIN r |-> r[f]]

Results == {"active", "error"}

\* Values of points that actions may name.
Val == {e.val : e \in Edits} \cup UNION {UNION {{c[i].point, c[i].value} : i \in Acts} : c \in Created}

\* What a condition is about.
CondFields == {"type", "node", "point", "vtype", "op", "value", "sched"}

\* What an action does.
ActFields == {"action", "node", "point", "value"}

\* The rule, its conditions and its actions, and a configuration.
Parts(c) ==
    /\ \A i \in ID : /\ IsRec(c[i]) /\ Results \subseteq DOMAIN c[i]
                     /\ "disabled" \in DOMAIN c[i] /\ "edge" \notin DOMAIN c[i]
    /\ \A i \in Conds : /\ CondFields \subseteq DOMAIN c[i]
                        /\ c[i].sched \in Schedule /\ c[i].node \in Device \cup {""}
    /\ \A i \in Acts : /\ ActFields \subseteq DOMAIN c[i]
                       /\ c[i].node \in Device \cup {""}
                       /\ c[i].point \in Val /\ c[i].value \in Val

Config(c) == DOMAIN c = ID /\ IsRec(c) /\ Parts(c)

\* Only results differ.
Judged(c, d) ==
    /\ DOMAIN d = ID /\ IsRec(d)
    /\ \A i \in ID : /\ IsRec(d[i]) /\ DOMAIN d[i] = DOMAIN c[i]
                     /\ \A f \in DOMAIN c[i] \ Results : d[i][f] = c[i][f]

\* Parts with other results are parts, and so is a configuration.
LEMMA PartsKept ==
    ASSUME NEW c, NEW d, Parts(c),
           \A i \in ID : /\ IsRec(d[i]) /\ DOMAIN d[i] = DOMAIN c[i]
                         /\ \A f \in DOMAIN c[i] \ Results : d[i][f] = c[i][f]
    PROVE  Parts(d)
<1>1. Conds \subseteq ID /\ Acts \subseteq ID
  BY DEF ID
<1>2. \A i \in Conds : CondFields \subseteq DOMAIN d[i] /\ d[i].sched = c[i].sched /\ d[i].node = c[i].node
  BY <1>1 DEF Parts, Results, CondFields
<1>3. \A i \in Acts : ActFields \subseteq DOMAIN d[i]
                      /\ d[i].node = c[i].node /\ d[i].point = c[i].point /\ d[i].value = c[i].value
  BY <1>1 DEF Parts, Results, ActFields
<1> QED BY <1>2, <1>3 DEF Parts

\* The same of a configuration.
LEMMA JudgedConfig ==
    ASSUME NEW c, NEW d, Config(c), Judged(c, d)
    PROVE  Config(d)
<1>1. Parts(d)
  BY PartsKept DEF Config, Judged
<1> QED BY <1>1 DEF Config, Judged

\* A configuration has its own results.
LEMMA JudgedSelf ==
    ASSUME NEW c, Config(c)
    PROVE  Judged(c, c)
<1>1. DOMAIN c = ID /\ IsRec(c) /\ \A i \in ID : IsRec(c[i])
  BY DEF Config, Parts
<1> QED BY <1>1 DEF Judged

\* Results may be judged again.
LEMMA JudgedTwice ==
    ASSUME NEW c, NEW d, NEW e, Judged(c, d), Judged(d, e)
    PROVE  Judged(c, e)
<1>1. ASSUME NEW i \in ID
      PROVE  /\ IsRec(e[i]) /\ DOMAIN e[i] = DOMAIN c[i]
             /\ \A f \in DOMAIN c[i] \ Results : e[i][f] = c[i][f]
  <2>1. IsRec(e[i]) /\ DOMAIN e[i] = DOMAIN d[i] /\ DOMAIN d[i] = DOMAIN c[i]
    BY DEF Judged
  <2>2. ASSUME NEW f \in DOMAIN c[i] \ Results PROVE e[i][f] = d[i][f] /\ d[i][f] = c[i][f]
    BY <2>1 DEF Judged
  <2> QED BY <2>1, <2>2
<1>2. DOMAIN e = ID /\ IsRec(e)
  BY DEF Judged
<1> QED BY <1>1, <1>2 DEF Judged

\* A part with other results.
Part(r, c) ==
    \/ r = c
    \/ \E x : r = [c EXCEPT !.active = x]
    \/ \E x : r = [c EXCEPT !.error = x]
    \/ \E x, y : r = [c EXCEPT !.active = x, !.error = y]

\* Its fields are the same, and so are the values of the others.
LEMMA PartJudged ==
    ASSUME NEW c, NEW r, IsRec(c), Part(r, c)
    PROVE  /\ IsRec(r) /\ DOMAIN r = DOMAIN c
           /\ \A f \in DOMAIN c \ Results : r[f] = c[f]
<1> DEFINE Goal == /\ IsRec(r) /\ DOMAIN r = DOMAIN c
                   /\ \A f \in DOMAIN c \ Results : r[f] = c[f]
<1>2. CASE r = c
  BY <1>2
<1>3. ASSUME NEW x, r = [c EXCEPT !.active = x] PROVE Goal
  BY <1>3 DEF IsRec, Results
<1>4. ASSUME NEW x, r = [c EXCEPT !.error = x] PROVE Goal
  BY <1>4 DEF IsRec, Results
<1>5. ASSUME NEW x, NEW y, r = [c EXCEPT !.active = x, !.error = y] PROVE Goal
  BY <1>5 DEF IsRec, Results
<1>6. Goal
  <2> HIDE DEF Goal
  <2>1. CASE r = c
    BY <1>2, <2>1 DEF Goal
  <2>2. CASE \E x : r = [c EXCEPT !.active = x]
    BY <1>3, <2>2, Zenon
  <2>3. CASE \E x : r = [c EXCEPT !.error = x]
    BY <1>4, <2>3, Zenon
  <2>4. CASE \E x, y : r = [c EXCEPT !.active = x, !.error = y]
    BY <1>5, <2>4, Zenon
  <2> QED BY <2>1, <2>2, <2>3, <2>4 DEF Part
<1> QED BY <1>6

\* Results of any parts.
LEMMA JudgedParts ==
    ASSUME NEW c, Config(c), NEW r, IsRec(r), DOMAIN r = ID, \A i \in ID : Part(r[i], c[i])
    PROVE  Judged(c, r)
<1>1. ASSUME NEW i \in ID
      PROVE  /\ IsRec(r[i]) /\ DOMAIN r[i] = DOMAIN c[i]
             /\ \A f \in DOMAIN c[i] \ Results : r[i][f] = c[i][f]
  <2>1. IsRec(c[i]) /\ Part(r[i], c[i])
    BY DEF Config, Parts
  <2> QED BY <2>1, PartJudged
<1> QED BY <1>1 DEF Judged

\* processError writes the error of the rule.
LEMMA ShowErrorsJudged ==
    ASSUME NEW c, NEW d, NEW ids, NEW done, Config(d)
    PROVE  Judged(d, ShowErrors(c, d, ids, done))
<1> DEFINE r == ShowErrors(c, d, ids, done)
<1>1. r = d \/ \E x : r = [d EXCEPT ![Rule].error = x]
  BY Zenon DEF ShowErrors
<1> HIDE DEF r
<1>2. ASSUME r = d PROVE Judged(d, r)
  BY <1>2, JudgedSelf
<1>3. ASSUME NEW x, r = [d EXCEPT ![Rule].error = x] PROVE Judged(d, r)
  <2> DEFINE e == [d[Rule] EXCEPT !.error = x]
  <2>1. r = [d EXCEPT ![Rule] = e] /\ DOMAIN d = ID /\ Rule \in ID
    BY <1>3 DEF Config, Parts, ID
  <2> HIDE DEF e
  <2>2. DOMAIN r = ID /\ IsRec(r) /\ \A i \in ID : r[i] = IF i = Rule THEN e ELSE d[i]
    BY <2>1 DEF IsRec
  <2>3. ASSUME NEW i \in ID PROVE Part(r[i], d[i])
    <3>1. CASE i = Rule
      BY <2>2, <3>1 DEF e, Part
    <3>2. CASE i # Rule
      BY <2>2, <3>2 DEF Part
    <3> QED BY <3>1, <3>2
  <2> QED BY <2>2, <2>3, JudgedParts
<1>4. Judged(d, r)
  BY <1>1, <1>2, <1>3, Zenon
<1> QED BY <1>4 DEF r

\* A condition is judged.
LEMMA JudgePart ==
    ASSUME NEW c, NEW p
    PROVE  Part(Judge(c, p), c)
<1> DEFINE v == Evaluate(c, p)
<1>1. \/ Judge(c, p) = [c EXCEPT !.error = "schedule"]
      \/ Judge(c, p) = [c EXCEPT !.active = FALSE, !.error = "value type"]
      \/ Judge(c, p) = [c EXCEPT !.active = v, !.error = ""]
  BY Zenon DEF Judge
<1> HIDE DEF v
<1> QED BY <1>1, Zenon DEF Part

\* All conditions are.
LEMMA JudgeAllJudged ==
    ASSUME NEW c, Config(c), NEW id, NEW p
    PROVE  Judged(c, JudgeAll(c, id, p))
<1> DEFINE done == {i \in Conds : Concerns(c[i], id, p)}
           d == [i \in ID |-> IF i \in done THEN Judge(c[i], p) ELSE c[i]]
<1>1. JudgeAll(c, id, p) = ShowErrors(c, d, Conditions, done)
  BY DEF JudgeAll
<1> HIDE DEF done
<1>2. DOMAIN d = ID /\ IsRec(d) /\ \A i \in ID : d[i] = IF i \in done THEN Judge(c[i], p) ELSE c[i]
  BY DEF IsRec
<1> HIDE DEF d
<1>3. ASSUME NEW i \in ID PROVE Part(d[i], c[i])
  <2>1. CASE i \in done
    BY <1>2, <2>1, JudgePart
  <2>2. CASE i \notin done
    BY <1>2, <2>2 DEF Part
  <2> QED BY <2>1, <2>2
<1>4. Judged(c, d)
  BY <1>2, <1>3, JudgedParts
<1>5. Judged(d, ShowErrors(c, d, Conditions, done))
  BY <1>4, JudgedConfig, ShowErrorsJudged
<1> QED BY <1>1, <1>4, <1>5, JudgedTwice

\* The equation of the points in their order, up to the m-th one.
IsRun(g, c, id, pts, m) ==
    g = [k \in 0 .. m |-> IF k = 0 THEN c ELSE JudgeAll(g[k-1], id, pts[k])]

\* Up to every one there is a function that satisfies it.
LEMMA RunExists ==
    ASSUME NEW c, NEW id, NEW pts
    PROVE  \A m \in Nat : \E g : IsRun(g, c, id, pts, m)
<1> DEFINE S == {m \in Nat : \E g : IsRun(g, c, id, pts, m)}
<1>1. 0 \in S
  <2> DEFINE g == [k \in 0 .. 0 |-> c]
  <2>1. g = [k \in 0 .. 0 |-> IF k = 0 THEN c ELSE JudgeAll(g[k-1], id, pts[k])]
    OBVIOUS
  <2>2. IsRun(g, c, id, pts, 0)
    BY <2>1 DEF IsRun
  <2> QED BY <2>2
<1>2. ASSUME NEW m \in S PROVE m + 1 \in S
  <2>1. PICK g : IsRun(g, c, id, pts, m)
    OBVIOUS
  <2> DEFINE last == JudgeAll(g[m], id, pts[m+1])
             h == [k \in 0 .. m + 1 |-> IF k = m + 1 THEN last ELSE g[k]]
  <2>2. \A k \in 0 .. m : h[k] = g[k]
    OBVIOUS
  <2>3. \A k \in 0 .. m + 1 : h[k] = IF k = 0 THEN c ELSE JudgeAll(h[k-1], id, pts[k])
    <3> TAKE k \in 0 .. m + 1
    <3>2. CASE k = m + 1
      <4>1. h[k] = last /\ k # 0 /\ k - 1 = m /\ m \in 0 .. m
        BY <3>2
      <4>2. h[k-1] = g[m]
        BY <2>2, <4>1
      <4> HIDE DEF h
      <4> QED BY <3>2, <4>1, <4>2
    <3>3. CASE k \in 0 .. m
      <4>1. h[k] = g[k] /\ (k # 0 => h[k-1] = g[k-1])
        BY <2>2, <3>3
      <4>2. g[k] = IF k = 0 THEN c ELSE JudgeAll(g[k-1], id, pts[k])
        BY <2>1, <3>3 DEF IsRun
      <4> HIDE DEF h
      <4> QED BY <4>1, <4>2
    <3> QED BY <3>2, <3>3
  <2>4. IsRun(h, c, id, pts, m + 1)
    <3> DEFINE f == [k \in 0 .. m + 1 |-> IF k = 0 THEN c ELSE JudgeAll(h[k-1], id, pts[k])]
    <3>1. h = f
      BY <2>3
    <3> QED BY <3>1 DEF IsRun
  <2> QED BY <2>4
<1>3. S \in SUBSET Nat
  OBVIOUS
<1> HIDE DEF S
<1>4. S = Nat
  BY <1>1, <1>2, <1>3, SetInduction
<1> QED BY <1>4 DEF S

\* ruleProcessPoints: g are the configurations after each of the points.
IsLoop(g, c, id, pts) ==
    /\ g[0] = c
    /\ \A k \in 1 .. Len(pts) : g[k] = JudgeAll(g[k-1], id, pts[k])

\* The points in their order, and then the rule.
LEMMA ProcessLoop ==
    ASSUME NEW c, NEW id, NEW pts, Len(pts) \in Nat
    PROVE  \E g : /\ IsLoop(g, c, id, pts)
                  /\ ruleProcessPoints(c, id, pts)
                         = [g[Len(pts)] EXCEPT ![Rule].active = AllActive(g[Len(pts)])]
<1> DEFINE M == Len(pts)
           Eq(g) == g = [k \in 0 .. M |-> IF k = 0 THEN c ELSE JudgeAll(g[k-1], id, pts[k])]
           R == CHOOSE g : Eq(g)
           d == R[M]
           r == ruleProcessPoints(c, id, pts)
<1>1. \E g : Eq(g)
  <2>1. \E g : IsRun(g, c, id, pts, M)
    BY RunExists
  <2> HIDE DEF M
  <2> QED BY <2>1, Zenon DEF IsRun
<1>2. Eq(R)
  BY <1>1, Zenon
<1>3. r = [d EXCEPT ![Rule].active = AllActive(d)]
  BY Zenon DEF ruleProcessPoints
<1> HIDE DEF R, r
<1>4. M \in Nat
  OBVIOUS
<1>5. \A k \in 0 .. M : R[k] = IF k = 0 THEN c ELSE JudgeAll(R[k-1], id, pts[k])
  <2> HIDE DEF M
  <2> DEFINE F == [k \in 0 .. M |-> IF k = 0 THEN c ELSE JudgeAll(R[k-1], id, pts[k])]
  <2>1. R = F
    BY <1>2, Zenon
  <2>2. \A k \in 0 .. M : F[k] = IF k = 0 THEN c ELSE JudgeAll(R[k-1], id, pts[k])
    OBVIOUS
  <2> HIDE DEF F
  <2> QED BY <2>1, <2>2
<1> HIDE DEF Eq
<1>6. IsLoop(R, c, id, pts)
  <2>1. R[0] = c
    BY <1>4, <1>5
  <2>2. \A k \in 1 .. Len(pts) : R[k] = JudgeAll(R[k-1], id, pts[k])
    BY <1>4, <1>5
  <2> QED BY <2>1, <2>2 DEF IsLoop
<1> QED BY <1>3, <1>6 DEF r

\* Each of them has judged parts.
LEMMA LoopJudged ==
    ASSUME NEW c, Config(c), NEW id, NEW pts, Len(pts) \in Nat, NEW g, IsLoop(g, c, id, pts)
    PROVE  \A k \in 0 .. Len(pts) : Judged(c, g[k])
<1> DEFINE M == Len(pts)
           T == {k \in Nat : k <= M => Judged(c, g[k])}
<1>1. M \in Nat /\ g[0] = c /\ \A k \in 1 .. M : g[k] = JudgeAll(g[k-1], id, pts[k])
  BY DEF IsLoop
<1> HIDE DEF M
<1>2. 0 \in T
  BY <1>1, JudgedSelf
<1>3. ASSUME NEW k \in T PROVE k + 1 \in T
  <2> SUFFICES ASSUME k + 1 <= M PROVE Judged(c, g[k+1])
    OBVIOUS
  <2>1. Judged(c, g[k])
    BY <1>1
  <2>2. k + 1 \in 1 .. M /\ (k + 1) - 1 = k
    BY <1>1
  <2>3. g[k+1] = JudgeAll(g[k], id, pts[k+1])
    BY <1>1, <2>2
  <2>4. Judged(g[k], g[k+1])
    BY <2>1, <2>3, JudgedConfig, JudgeAllJudged
  <2> QED BY <2>1, <2>4, JudgedTwice
<1>4. T \in SUBSET Nat
  OBVIOUS
<1>5. T = Nat
  <2> HIDE DEF T
  <2> QED BY <1>2, <1>3, <1>4, SetInduction
<1> QED BY <1>1, <1>5 DEF M

\* The conditions after points, and the rule.
LEMMA ProcessJudged ==
    ASSUME NEW c, Config(c), NEW id, NEW pts, Len(pts) \in Nat
    PROVE  Judged(c, ruleProcessPoints(c, id, pts))
<1> DEFINE r == ruleProcessPoints(c, id, pts)
<1>1. PICK g : /\ IsLoop(g, c, id, pts)
               /\ r = [g[Len(pts)] EXCEPT ![Rule].active = AllActive(g[Len(pts)])]
  BY ProcessLoop
<1> HIDE DEF r
<1> DEFINE d == g[Len(pts)]
<1>2. Judged(c, d)
  BY <1>1, LoopJudged
<1>3. r = [d EXCEPT ![Rule].active = AllActive(d)]
  BY <1>1
<1> HIDE DEF d
<1>4. Config(d)
  BY <1>2, JudgedConfig
<1>5. Judged(d, r)
  <2> DEFINE x == AllActive(d)
             e == [d[Rule] EXCEPT !.active = x]
  <2>1. r = [d EXCEPT ![Rule] = e] /\ DOMAIN d = ID /\ Rule \in ID
    BY <1>3, <1>4 DEF Config, Parts, ID
  <2> HIDE DEF x
  <2>2. Part(e, d[Rule])
    BY DEF Part
  <2> HIDE DEF e
  <2>3. DOMAIN r = ID /\ IsRec(r) /\ \A i \in ID : r[i] = IF i = Rule THEN e ELSE d[i]
    BY <2>1 DEF IsRec
  <2>4. ASSUME NEW i \in ID PROVE Part(r[i], d[i])
    <3>1. CASE i = Rule
      BY <2>2, <2>3, <3>1
    <3>2. CASE i # Rule
      BY <2>3, <3>2 DEF Part
    <3> QED BY <3>1, <3>2
  <2> QED BY <1>4, <2>3, <2>4, JudgedParts
<1> QED BY <1>2, <1>5, JudgedTwice DEF r

-----------------------------------------------------------------------------
(* Conditions on points *)

\* A condition on a point of a node.
Watches(c) == c.type = "pointValue" /\ c.node \in Device \ {""} /\ c.point # ""

\* A point is the one that it is about.
Hit(c, id, p) == c.node = id /\ c.point = p.point

\* Points of another name or node do not concern it.
LEMMA WatchConcerns ==
    ASSUME NEW c, Watches(c), NEW id, NEW p
    PROVE  Concerns(c, id, p) <=> Hit(c, id, p)
BY Zenon DEF Concerns, Watches, Hit

Cmp(vtype, op, value, v) ==
    CASE vtype = "number" ->
             CASE op = ">" -> v > value
               [] op = "<" -> v < value
               [] op = "=" -> v = value
               [] op = "!=" -> v # value
               [] OTHER -> FALSE
      [] vtype = "onOff" -> (v # 0) = (value # 0)
      [] OTHER -> FALSE

\* A comparison looks at three fields of the condition.
LEMMA CompareIs ==
    ASSUME NEW c, NEW v
    PROVE  Compare(c, v) = Cmp(c.vtype, c.op, c.value, v)
BY Zenon DEF Compare, Cmp

\* A condition with other results is about the same.
LEMMA SameCond ==
    ASSUME NEW c, NEW d, \A f \in CondFields : d[f] = c[f]
    PROVE  /\ Watches(d) <=> Watches(c)
           /\ \A id, p : Hit(d, id, p) <=> Hit(c, id, p)
           /\ \A v : Compare(d, v) = Compare(c, v)
           /\ d.node = c.node /\ d.point = c.point
<1>1. /\ d.type = c.type /\ d.node = c.node /\ d.point = c.point /\ d.vtype = c.vtype /\ d.op = c.op
      /\ d.value = c.value
  BY DEF CondFields
<1>2. \A v : Compare(d, v) = Compare(c, v)
  BY <1>1, CompareIs
<1> QED BY <1>1, <1>2 DEF Watches, Hit

\* Judged conditions are about the same.
LEMMA JudgedCond ==
    ASSUME NEW c, Config(c), NEW d, Judged(c, d), NEW i \in Conds
    PROVE  \A f \in CondFields : d[i][f] = c[i][f]
<1>1. i \in ID /\ CondFields \subseteq DOMAIN c[i] /\ CondFields \cap Results = {}
  BY DEF ID, Config, Parts, CondFields, Results
<1> QED BY <1>1 DEF Judged

\* A condition on a point compares it.
LEMMA WatchJudge ==
    ASSUME NEW c, IsRec(c), Results \subseteq DOMAIN c, Watches(c), NEW p
    PROVE  Judge(c, p).active = Compare(c, p.value)
<1> DEFINE r == Judge(c, p)
           v == Compare(c, p.value)
<1>1. c.type = "pointValue" /\ "active" \in DOMAIN c
  BY DEF Watches, Results
<1>2. Evaluate(c, p) = v
  BY <1>1, Zenon DEF Evaluate
<1>3. CASE KnownValue(c)
  <2>1. r = [c EXCEPT !.active = v, !.error = ""]
    BY <1>1, <1>2, <1>3, Zenon DEF Judge
  <2> HIDE DEF r, v
  <2>2. r.active = v
    BY <1>1, <2>1 DEF IsRec
  <2> QED BY <2>2 DEF r, v
<1>4. CASE ~KnownValue(c)
  <2>1. r = [c EXCEPT !.active = FALSE, !.error = "value type"]
    BY <1>1, <1>4, Zenon DEF Judge
  <2>2. v = FALSE
    BY <1>4, Zenon DEF Compare, KnownValue
  <2> HIDE DEF r, v
  <2>3. r.active = v
    BY <1>1, <2>1, <2>2 DEF IsRec
  <2> QED BY <2>3 DEF r, v
<1> QED BY <1>3, <1>4

\* processError leaves alone what is active.
LEMMA ShowErrorsActive ==
    ASSUME NEW c, NEW d, NEW ids, NEW done, Config(d), NEW i \in ID
    PROVE  ShowErrors(c, d, ids, done)[i].active = d[i].active
<1> DEFINE r == ShowErrors(c, d, ids, done)
<1>1. r = d \/ \E x : r = [d EXCEPT ![Rule].error = x]
  BY Zenon DEF ShowErrors
<1> HIDE DEF r
<1>2. ASSUME NEW x, r = [d EXCEPT ![Rule].error = x] PROVE r[i].active = d[i].active
  <2> DEFINE e == [d[Rule] EXCEPT !.error = x]
  <2>1. r = [d EXCEPT ![Rule] = e] /\ DOMAIN d = ID /\ Rule \in ID
    BY <1>2 DEF Config, ID
  <2>2. e.active = d[Rule].active
    BY <2>1 DEF Config, Parts, Results, IsRec
  <2> HIDE DEF e
  <2> QED BY <2>1, <2>2
<1> QED BY <1>1, <1>2, Zenon DEF r

\* One point.
LEMMA JudgeAllActive ==
    ASSUME NEW c, Config(c), NEW id, NEW p, NEW i \in Conds, Watches(c[i])
    PROVE  JudgeAll(c, id, p)[i].active
               = IF Hit(c[i], id, p) THEN Compare(c[i], p.value) ELSE c[i].active
<1> DEFINE done == {j \in Conds : Concerns(c[j], id, p)}
           d == [j \in ID |-> IF j \in done THEN Judge(c[j], p) ELSE c[j]]
<1>1. JudgeAll(c, id, p) = ShowErrors(c, d, Conditions, done)
  BY DEF JudgeAll
<1>2. i \in done <=> Hit(c[i], id, p)
  BY WatchConcerns
<1> HIDE DEF done
<1>3. DOMAIN d = ID /\ IsRec(d) /\ \A j \in ID : d[j] = IF j \in done THEN Judge(c[j], p) ELSE c[j]
  BY DEF IsRec
<1> HIDE DEF d
<1>4. ASSUME NEW j \in ID PROVE Part(d[j], c[j])
  <2>1. CASE j \in done
    BY <1>3, <2>1, JudgePart
  <2>2. CASE j \notin done
    BY <1>3, <2>2 DEF Part
  <2> QED BY <2>1, <2>2
<1>5. Config(d)
  BY <1>3, <1>4, JudgedParts, JudgedConfig
<1>6. i \in ID /\ IsRec(c[i]) /\ Results \subseteq DOMAIN c[i]
  BY DEF Config, Parts, ID
<1>7. JudgeAll(c, id, p)[i].active = d[i].active
  BY <1>1, <1>5, <1>6, ShowErrorsActive
<1>8. CASE Hit(c[i], id, p)
  BY <1>2, <1>3, <1>6, <1>7, <1>8, WatchJudge
<1>9. CASE ~Hit(c[i], id, p)
  BY <1>2, <1>3, <1>6, <1>7, <1>9
<1> QED BY <1>8, <1>9

\* After points of node id a condition holds what the last one that it is about says.
Heard(c, id, pts, n, v) ==
    /\ (\A k \in 1 .. n : ~Hit(c, id, pts[k])) => v = c.active
    /\ \A k \in 1 .. n : Hit(c, id, pts[k]) /\ (\A j \in 1 .. n : j > k => ~Hit(c, id, pts[j])) =>
           v = Compare(c, pts[k].value)

\* All points.
LEMMA ProcessActive ==
    ASSUME NEW c, Config(c), NEW id, NEW pts, Len(pts) \in Nat, NEW i \in Conds, Watches(c[i])
    PROVE  Heard(c[i], id, pts, Len(pts), ruleProcessPoints(c, id, pts)[i].active)
<1> DEFINE r == ruleProcessPoints(c, id, pts)
           M == Len(pts)
<1>1. PICK g : /\ IsLoop(g, c, id, pts)
               /\ r = [g[M] EXCEPT ![Rule].active = AllActive(g[M])]
  BY ProcessLoop
<1> HIDE DEF r
<1>2. \A k \in 0 .. M : Judged(c, g[k])
  BY <1>1, LoopJudged
<1>3. M \in Nat /\ g[0] = c /\ \A k \in 1 .. M : g[k] = JudgeAll(g[k-1], id, pts[k])
  BY <1>1 DEF IsLoop
<1> HIDE DEF M
<1> DEFINE T == {k \in Nat : k <= M => Heard(c[i], id, pts, k, g[k][i].active)}
<1>4. 0 \in T
  BY <1>3 DEF Heard
<1>5. ASSUME NEW k \in T PROVE k + 1 \in T
  <2> SUFFICES ASSUME k + 1 <= M PROVE Heard(c[i], id, pts, k + 1, g[k+1][i].active)
    OBVIOUS
  <2> DEFINE d == g[k]
             p == pts[k+1]
  <2>1. Judged(c, d) /\ Heard(c[i], id, pts, k, d[i].active)
    BY <1>2, <1>3
  <2>2. k + 1 \in 1 .. M /\ (k + 1) - 1 = k
    BY <1>3
  <2>3. g[k+1] = JudgeAll(d, id, p)
    BY <1>3, <2>2
  <2> HIDE DEF d, p
  <2>4. /\ Watches(d[i]) /\ (Hit(d[i], id, p) <=> Hit(c[i], id, p))
        /\ Compare(d[i], p.value) = Compare(c[i], p.value)
    <3>1. \A f \in CondFields : d[i][f] = c[i][f]
      BY <2>1, JudgedCond
    <3> QED BY <3>1, SameCond
  <2>5. g[k+1][i].active = IF Hit(c[i], id, p) THEN Compare(c[i], p.value) ELSE d[i].active
    <3>1. Config(d)
      BY <2>1, JudgedConfig
    <3> QED BY <2>3, <2>4, <3>1, JudgeAllActive
  <2> DEFINE a == c[i]
             w == g[k+1][i].active
             hit(j) == Hit(a, id, pts[j])
  <2>6. /\ (\A j \in 1 .. k : ~hit(j)) => d[i].active = a.active
        /\ \A j \in 1 .. k : hit(j) /\ (\A l \in 1 .. k : l > j => ~hit(l)) =>
               d[i].active = Compare(a, pts[j].value)
    BY <2>1 DEF Heard
  <2>7. w = IF hit(k+1) THEN Compare(a, pts[k+1].value) ELSE d[i].active
    BY <2>5 DEF p
  <2> HIDE DEF a, w, hit
  <2>8. ASSUME \A j \in 1 .. k + 1 : ~hit(j) PROVE w = a.active
    BY <2>6, <2>7, <2>8
  <2>9. ASSUME NEW j \in 1 .. k + 1, hit(j), \A l \in 1 .. k + 1 : l > j => ~hit(l)
        PROVE  w = Compare(a, pts[j].value)
    <3>1. CASE j = k + 1
      BY <2>7, <2>9, <3>1
    <3>2. CASE j # k + 1
      <4>1. j \in 1 .. k /\ ~hit(k + 1) /\ \A l \in 1 .. k : l > j => ~hit(l)
        BY <2>9, <3>2
      <4> QED BY <2>6, <2>7, <2>9, <4>1
    <3> QED BY <3>1, <3>2
  <2> QED BY <2>8, <2>9 DEF a, w, hit, Heard
<1>6. T \in SUBSET Nat
  OBVIOUS
<1>7. T = Nat
  <2> HIDE DEF T
  <2> QED BY <1>4, <1>5, <1>6, SetInduction
<1>8. Heard(c[i], id, pts, M, g[M][i].active)
  BY <1>3, <1>7
<1> DEFINE d == g[M]
<1>9. r[i].active = d[i].active
  <2>1. Config(d) /\ r = [d EXCEPT ![Rule].active = AllActive(d)]
    BY <1>1, <1>2, <1>3, JudgedConfig DEF M
  <2> DEFINE x == AllActive(d)
             e == [d[Rule] EXCEPT !.active = x]
  <2>2. r = [d EXCEPT ![Rule] = e] /\ DOMAIN d = ID /\ i # Rule /\ i \in ID
    BY <2>1, RuleAssumption DEF Config, ID
  <2> HIDE DEF e, d
  <2> QED BY <2>2
<1> QED BY <1>8, <1>9 DEF r, M

\* The rule is active if its conditions are.
LEMMA AllActiveSame ==
    ASSUME NEW c, NEW d, \A i \in Conds : d[i].active = c[i].active /\ d[i].disabled = c[i].disabled
    PROVE  AllActive(d) = AllActive(c)
<1>1. AllActive(d) <=> AllActive(c)
  BY DEF AllActive
<1>2. AllActive(c) \in BOOLEAN /\ AllActive(d) \in BOOLEAN
  BY DEF AllActive
<1> QED BY <1>1, <1>2

\* After points it is.
LEMMA ProcessAllActive ==
    ASSUME NEW c, Config(c), NEW id, NEW pts, Len(pts) \in Nat
    PROVE  ruleProcessPoints(c, id, pts)[Rule].active = AllActive(ruleProcessPoints(c, id, pts))
<1> DEFINE r == ruleProcessPoints(c, id, pts)
           M == Len(pts)
<1>1. PICK g : IsLoop(g, c, id, pts) /\ r = [g[M] EXCEPT ![Rule].active = AllActive(g[M])]
  BY ProcessLoop
<1> HIDE DEF r
<1> DEFINE d == g[M]
           x == AllActive(d)
           e == [d[Rule] EXCEPT !.active = x]
<1>2. Judged(c, d)
  BY <1>1, LoopJudged
<1>3. r = [d EXCEPT ![Rule].active = x]
  BY <1>1
<1> HIDE DEF d
<1>4. Config(d)
  BY <1>2, JudgedConfig
<1>5. r = [d EXCEPT ![Rule] = e] /\ DOMAIN d = ID /\ Rule \in ID
  BY <1>3, <1>4 DEF Config, ID
<1> HIDE DEF x
<1>6. e.active = x
  <2>1. IsRec(d[Rule]) /\ Results \subseteq DOMAIN d[Rule]
    BY <1>4, <1>5 DEF Config, Parts
  <2> QED BY <2>1 DEF IsRec, Results
<1> HIDE DEF e
<1>7. \A i \in Conds : i \in ID /\ i # Rule
  BY RuleAssumption DEF ID
<1>8. r[Rule].active = x /\ \A i \in Conds : r[i] = d[i]
  BY <1>5, <1>6, <1>7
<1>9. AllActive(r) = AllActive(d)
  BY <1>8, AllActiveSame
<1> QED BY <1>8, <1>9 DEF r, x

\* Actions are run.
LEMMA RunActionsJudged ==
    ASSUME NEW c, Config(c), NEW ids
    PROVE  Judged(c, ruleRunActions(c, ids))
<1> DEFINE on == Enabled(c, ids)
           d == [i \in ID |-> IF i \in on THEN [c[i] EXCEPT !.active = TRUE, !.error = ActionError(c[i])]
                              ELSE c[i]]
<1>1. ruleRunActions(c, ids) = ShowErrors(c, d, ids, on)
  BY DEF ruleRunActions
<1> HIDE DEF on
<1>2. /\ DOMAIN d = ID /\ IsRec(d)
      /\ \A i \in ID : d[i] = IF i \in on THEN [c[i] EXCEPT !.active = TRUE, !.error = ActionError(c[i])]
                              ELSE c[i]
  BY DEF IsRec
<1> HIDE DEF d
<1>3. ASSUME NEW i \in ID PROVE Part(d[i], c[i])
  <2> DEFINE y == ActionError(c[i])
  <2>1. CASE i \in on
    <3>1. d[i] = [c[i] EXCEPT !.active = TRUE, !.error = y]
      BY <1>2, <2>1
    <3> HIDE DEF y
    <3> QED BY <3>1, Zenon DEF Part
  <2>2. CASE i \notin on
    BY <1>2, <2>2 DEF Part
  <2> QED BY <2>1, <2>2
<1>4. Judged(c, d)
  BY <1>2, <1>3, JudgedParts
<1>5. Judged(d, ShowErrors(c, d, ids, on))
  BY <1>4, JudgedConfig, ShowErrorsJudged
<1> QED BY <1>1, <1>4, <1>5, JudgedTwice

\* The others are made inactive.
LEMMA InactiveJudged ==
    ASSUME NEW c, Config(c), NEW ids
    PROVE  Judged(c, ruleInactiveActions(c, ids))
<1> DEFINE r == ruleInactiveActions(c, ids)
           off(i) == i \in ToSet(ids) /\ ~c[i].disabled
<1>1. /\ DOMAIN r = ID /\ IsRec(r)
      /\ \A i \in ID : r[i] = IF off(i) THEN [c[i] EXCEPT !.active = FALSE] ELSE c[i]
  BY DEF ruleInactiveActions, IsRec
<1> HIDE DEF r
<1>2. ASSUME NEW i \in ID PROVE Part(r[i], c[i])
  <2>1. r[i] = [c[i] EXCEPT !.active = FALSE] \/ r[i] = c[i]
    BY <1>1
  <2> QED BY <2>1, Zenon DEF Part
<1>3. Judged(c, r)
  BY <1>1, <1>2, JudgedParts
<1> QED BY <1>3 DEF r

\* Actions are no conditions, and not the rule.
LEMMA ActionsApart ==
    ASSUME NEW ids \in Seq(Acts), NEW i \in {Rule} \cup Conds
    PROVE  i \notin ToSet(ids) /\ i \in ID
<1>1. \A k \in DOMAIN ids : ids[k] \in Acts
  OBVIOUS
<1>2. ToSet(ids) \subseteq Acts
  BY <1>1 DEF ToSet
<1> QED BY <1>2, RuleAssumption DEF ID

\* They leave the rule and the conditions as active as they are.
LEMMA ActionsActive ==
    ASSUME NEW c, Config(c), NEW ids \in Seq(Acts), NEW i \in {Rule} \cup Conds
    PROVE  /\ ruleRunActions(c, ids)[i].active = c[i].active
           /\ ruleInactiveActions(c, ids)[i].active = c[i].active
<1> DEFINE on == Enabled(c, ids)
           d == [j \in ID |-> IF j \in on THEN [c[j] EXCEPT !.active = TRUE, !.error = ActionError(c[j])]
                              ELSE c[j]]
<1>1. i \notin ToSet(ids) /\ i \in ID
  BY ActionsApart
<1>2. i \notin on
  BY <1>1 DEF Enabled
<1>3. ruleRunActions(c, ids) = ShowErrors(c, d, ids, on)
  BY DEF ruleRunActions
<1> HIDE DEF on
<1>4. /\ DOMAIN d = ID /\ IsRec(d)
      /\ \A j \in ID : d[j] = IF j \in on THEN [c[j] EXCEPT !.active = TRUE, !.error = ActionError(c[j])]
                              ELSE c[j]
  BY DEF IsRec
<1> HIDE DEF d
<1>5. ASSUME NEW j \in ID PROVE Part(d[j], c[j])
  <2> DEFINE y == ActionError(c[j])
  <2>1. CASE j \in on
    <3>1. d[j] = [c[j] EXCEPT !.active = TRUE, !.error = y]
      BY <1>4, <2>1
    <3> HIDE DEF y
    <3> QED BY <3>1, Zenon DEF Part
  <2>2. CASE j \notin on
    BY <1>4, <2>2 DEF Part
  <2> QED BY <2>1, <2>2
<1>6. Config(d)
  BY <1>4, <1>5, JudgedParts, JudgedConfig
<1>7. d[i] = c[i]
  BY <1>1, <1>2, <1>4
<1>8. ruleRunActions(c, ids)[i].active = c[i].active
  BY <1>1, <1>3, <1>6, <1>7, ShowErrorsActive
<1>9. ruleInactiveActions(c, ids)[i] = c[i]
  BY <1>1 DEF ruleInactiveActions
<1> QED BY <1>8, <1>9

\* run takes c to d: its conditions on points hold what the points say, unless it
\* is disabled.
Effect(c, id, pts, d) ==
    \A i \in Conds : Watches(c[i]) =>
        /\ c[Rule].disabled => d[i].active = c[i].active
        /\ ~c[Rule].disabled => Heard(c[i], id, pts, Len(pts), d[i].active)

\* A trigger is no point that a condition is about.
LEMMA TriggerHeard ==
    ASSUME NEW c, Watches(c), NEW v, Heard(c, Rule, <<Trigger>>, 1, v)
    PROVE  v = c.active
<1>1. Rule \notin Device
  BY RuleAssumption DEF ID
<1>2. \A p : ~Hit(c, Rule, p)
  BY <1>1 DEF Watches, Hit
<1> QED BY <1>2 DEF Heard

\* Points that actions set.
SetPoint == [id : Device, field : Val, val : Val]

\* Sequences of points from sequences of them.
LEMMA FlatPoints ==
    ASSUME NEW S, NEW q, NEW n \in Nat, DOMAIN q = 1 .. n, IsRec(q),
           \A k \in 1 .. n : q[k] = <<>> \/ \E x \in S : q[k] = <<x>>
    PROVE  FlattenSeq(q) \in Seq(S)
<1> DEFINE T == Seq(S)
<1>1. \A k \in 1 .. n : q[k] \in T
  <2> TAKE k \in 1 .. n
  <2>1. <<>> \in T /\ \A x \in S : <<x>> \in T
    OBVIOUS
  <2> HIDE DEF T
  <2> QED BY <2>1
<1>2. \A a \in T, b \in T : a \o b \in T
  OBVIOUS
<1>3. <<>> \in T
  OBVIOUS
<1> HIDE DEF T
<1>4. q \in [1 .. n -> T]
  BY <1>1 DEF IsRec
<1>5. q \in Seq(T)
  BY <1>4
<1>6. FlattenSeq(q) \in T
  BY <1>2, <1>3, <1>5, FlattenIn
<1> QED BY <1>6 DEF T

\* An action that sets a point when it is run, and the point.
Goes(c, i) == ~c[i].disabled /\ c[i].action = "setValue" /\ ActionError(c[i]) = ""
Point(c, i) == [id |-> c[i].node, field |-> c[i].point, val |-> c[i].value]

\* Actions set points of other nodes, each of them its point, and nothing else is set.
LEMMA SetsIn ==
    ASSUME NEW c, Config(c), NEW ids \in Seq(Acts)
    PROVE  /\ Sets(c, ids) \in Seq(SetPoint)
           /\ \A k \in DOMAIN Sets(c, ids) : \E i \in ToSet(ids) : Goes(c, i) /\ Sets(c, ids)[k] = Point(c, i)
           /\ \A i \in ToSet(ids) : Goes(c, i) => Has(Sets(c, ids), Point(c, i))
<1> DEFINE go(i) == i \in Enabled(c, ids) /\ ActionError(c[i]) = "" /\ c[i].action = "setValue"
           q == [k \in DOMAIN ids |-> IF go(ids[k]) THEN <<Point(c, ids[k])>> ELSE <<>>]
           r == Sets(c, ids)
           X == {Point(c, i) : i \in {i \in ToSet(ids) : Goes(c, i)}}
<1>1. r = FlattenSeq(q)
  BY DEF Sets, Point
<1>2. Len(ids) \in Nat /\ DOMAIN ids = 1 .. Len(ids) /\ \A k \in DOMAIN ids : ids[k] \in Acts
  OBVIOUS
<1>3. ToSet(ids) = {ids[k] : k \in DOMAIN ids}
  BY DEF ToSet
<1>4. ASSUME NEW i \in ToSet(ids) PROVE go(i) <=> Goes(c, i)
  BY Zenon DEF Goes, Enabled
<1>5. ASSUME NEW i \in Acts, Goes(c, i) PROVE Point(c, i) \in SetPoint
  <2>1. c[i].node # ""
    BY <1>5, Zenon DEF Goes, ActionError
  <2>2. c[i].node \in Device /\ c[i].point \in Val /\ c[i].value \in Val
    BY <2>1 DEF Config, Parts
  <2> QED BY <2>2 DEF SetPoint, Point
<1>6. X \subseteq SetPoint
  BY <1>2, <1>3, <1>5
<1> HIDE DEF go
<1>7. /\ DOMAIN q = 1 .. Len(ids) /\ IsRec(q)
      /\ \A k \in 1 .. Len(ids) : q[k] = IF go(ids[k]) THEN <<Point(c, ids[k])>> ELSE <<>>
  BY <1>2 DEF IsRec
<1> HIDE DEF q, r
<1>8. \A k \in 1 .. Len(ids) : q[k] = <<>> \/ \E x \in X : q[k] = <<x>>
  <2> TAKE k \in 1 .. Len(ids)
  <2> DEFINE x == Point(c, ids[k])
  <2>1. CASE go(ids[k])
    <3>1. x \in X /\ q[k] = <<x>>
      BY <1>2, <1>3, <1>4, <1>7, <2>1
    <3> HIDE DEF x, X
    <3> QED BY <3>1
  <2>2. CASE ~go(ids[k])
    BY <1>7, <2>2
  <2> QED BY <2>1, <2>2
<1> HIDE DEF X
<1>9. r \in Seq(X)
  BY <1>1, <1>2, <1>7, <1>8, FlatPoints
<1>10. r \in Seq(SetPoint)
  BY <1>6, <1>9
<1>11. ASSUME NEW k \in DOMAIN r PROVE \E i \in ToSet(ids) : Goes(c, i) /\ r[k] = Point(c, i)
  <2>1. r[k] \in X
    BY <1>9
  <2> QED BY <2>1 DEF X
<1>12. ASSUME NEW i \in ToSet(ids), Goes(c, i) PROVE Has(r, Point(c, i))
  <2>1. PICK k \in 1 .. Len(ids) : ids[k] = i
    BY <1>2, <1>3
  <2> DEFINE x == Point(c, i)
  <2>2. q[k] = <<x>>
    BY <1>4, <1>7, <1>12, <2>1
  <2> HIDE DEF x
  <2>3. Has(q[k], x)
    <3>1. 1 \in DOMAIN <<x>> /\ <<x>>[1] = x
      OBVIOUS
    <3> QED BY <2>2, <3>1 DEF Has
  <2>4. q \in Seq(Seq(X))
    <3> DEFINE Q == Seq(X)
    <3>1. <<>> \in Q /\ \A y \in X : <<y>> \in Q
      OBVIOUS
    <3> HIDE DEF Q
    <3>2. q \in [1 .. Len(ids) -> Q]
      BY <1>7, <1>8, <3>1 DEF IsRec
    <3>3. q \in Seq(Q)
      BY <1>2, <3>2
    <3> QED BY <3>3 DEF Q
  <2>5. k \in DOMAIN q
    BY <1>7
  <2>6. Has(FlattenSeq(q), x)
    BY <2>3, <2>4, <2>5, FlattenHas
  <2> QED BY <1>1, <2>6 DEF x
<1> QED BY <1>10, <1>11, <1>12 DEF r

\* What an action sets does not depend on results.
LEMMA GoesSame ==
    ASSUME NEW c, Config(c), NEW d, Judged(c, d), NEW i \in Acts
    PROVE  (Goes(d, i) <=> Goes(c, i)) /\ Point(d, i) = Point(c, i)
<1>1. i \in ID /\ ActFields \subseteq DOMAIN c[i] \ Results /\ "disabled" \in DOMAIN c[i] \ Results
  BY DEF Config, Parts, Results, ActFields, ID
<1>2. /\ d[i].action = c[i].action /\ d[i].node = c[i].node /\ d[i].point = c[i].point
      /\ d[i].value = c[i].value /\ d[i].disabled = c[i].disabled
  BY <1>1 DEF Judged, ActFields
<1>3. ActionError(d[i]) = ActionError(c[i])
  BY <1>2, Zenon DEF ActionError
<1> QED BY <1>2, <1>3 DEF Goes, Point

\* The actions that are due.
Due(c) == IF ~c[Rule].disabled /\ AllActive(c) THEN Actions ELSE ActionsInactive

Settled(c) == ~c[Rule].disabled => c[Rule].active = AllActive(c)

\* run returns early, or sets what the actions that are due set.
Outcome(c, pts, d, acted, sets) ==
    /\ Settled(d)
    /\ \/ /\ sets = <<>> /\ acted = {} /\ pts # <<>>
          /\ ~c[Rule].disabled /\ d[Rule].active = c[Rule].active
       \/ /\ \A k \in DOMAIN sets : \E i \in ToSet(Due(d)) : Goes(d, i) /\ sets[k] = Point(d, i)
          /\ \A i \in ToSet(Due(d)) : Goes(d, i) => Has(sets, Point(d, i))

\* run: only results change, and what is set is what actions that are due set.
LEMMA RunSends ==
    ASSUME NEW c, Config(c), NEW id, NEW pts, Len(pts) \in Nat, Run(c, id, pts)
    PROVE  \E d, acted, sets : /\ Judged(c, d) /\ Effect(c, id, pts, d)
                              /\ sets \in Seq(SetPoint) /\ Send(c, d, acted, sets)
                              /\ Outcome(c, pts, d, acted, sets)
<1> DEFINE one == <<Trigger>>
           D == IF c[Rule].disabled THEN c
                ELSE IF pts = <<>> THEN ruleProcessPoints(c, Rule, one)
                ELSE ruleProcessPoints(c, id, pts)
           active == D[Rule].active /\ ~c[Rule].disabled
           on     == IF active THEN Actions ELSE ActionsInactive
           off    == IF active THEN ActionsInactive ELSE Actions
           acted  == Enabled(D, on) \cup {i \in ToSet(off) : ~D[i].disabled}
           E == ruleInactiveActions(ruleRunActions(D, on), off)
<1>1. (Idle(c, D, pts) /\ Send(c, D, {}, <<>>)) \/ Send(c, E, acted, Sets(D, on))
  BY Zenon DEF Run
<1>2. Len(one) = 1
  OBVIOUS
<1>e. Effect(c, id, pts, D)
  <2> SUFFICES ASSUME NEW i \in Conds, Watches(c[i])
               PROVE  /\ c[Rule].disabled => D[i].active = c[i].active
                      /\ ~c[Rule].disabled => Heard(c[i], id, pts, Len(pts), D[i].active)
    BY DEF Effect
  <2>1. CASE c[Rule].disabled
    <3>1. D = c
      BY <2>1, Zenon
    <3> QED BY <2>1, <3>1
  <2>2. CASE ~c[Rule].disabled /\ pts = <<>>
    <3>1. D = ruleProcessPoints(c, Rule, one)
      BY <2>2, Zenon
    <3> HIDE DEF D
    <3>2. Heard(c[i], Rule, one, 1, D[i].active)
      <4> HIDE DEF one
      <4>1. Len(one) \in Nat
        BY <1>2
      <4>2. Heard(c[i], Rule, one, Len(one), ruleProcessPoints(c, Rule, one)[i].active)
        BY <4>1, ProcessActive
      <4> QED BY <1>2, <3>1, <4>2
    <3>3. D[i].active = c[i].active
      BY <3>2, TriggerHeard
    <3>4. Len(pts) = 0
      BY <2>2
    <3> QED BY <2>2, <3>3, <3>4 DEF Heard
  <2>3. CASE ~c[Rule].disabled /\ pts # <<>>
    <3>1. D = ruleProcessPoints(c, id, pts)
      BY <2>3, Zenon
    <3> HIDE DEF D
    <3> QED BY <2>3, <3>1, ProcessActive
  <2> QED BY <2>1, <2>2, <2>3
<1>a. ~c[Rule].disabled => D[Rule].active = AllActive(D)
  <2> SUFFICES ASSUME ~c[Rule].disabled PROVE D[Rule].active = AllActive(D)
    OBVIOUS
  <2>1. ruleProcessPoints(c, Rule, one)[Rule].active = AllActive(ruleProcessPoints(c, Rule, one))
    <3> HIDE DEF one
    <3> QED BY <1>2, ProcessAllActive
  <2>2. ruleProcessPoints(c, id, pts)[Rule].active = AllActive(ruleProcessPoints(c, id, pts))
    BY ProcessAllActive
  <2>3. D = ruleProcessPoints(c, Rule, one) \/ D = ruleProcessPoints(c, id, pts)
    BY Zenon
  <2> HIDE DEF D
  <2> QED BY <2>1, <2>2, <2>3
<1>b. (on = Actions /\ active) \/ (on = ActionsInactive /\ ~active)
  BY Zenon
<1> HIDE DEF one
<1>3. Judged(c, D)
  <2>1. Judged(c, c)
    BY JudgedSelf
  <2>2. Judged(c, ruleProcessPoints(c, Rule, one)) /\ Judged(c, ruleProcessPoints(c, id, pts))
    BY <1>2, ProcessJudged
  <2> QED BY <2>1, <2>2, Zenon
<1>4. on \in Seq(Acts) /\ off \in Seq(Acts)
  BY RuleAssumption, Zenon
<1>c. active <=> D[Rule].active /\ ~c[Rule].disabled
  OBVIOUS
<1> HIDE DEF D, on, off, acted, active
<1>5. Config(D)
  BY <1>3, JudgedConfig
<1>6. Sets(D, on) \in Seq(SetPoint) /\ <<>> \in Seq(SetPoint)
  BY <1>4, <1>5, SetsIn
<1> DEFINE F == ruleRunActions(D, on)
<1>7. Judged(D, F)
  BY <1>5, RunActionsJudged
<1>8. Judged(F, E)
  <2> HIDE DEF F
  <2>1. Config(F)
    BY <1>5, <1>7, JudgedConfig
  <2> QED BY <2>1, InactiveJudged DEF F
<1>9. Judged(c, E)
  <2> HIDE DEF E, F
  <2> QED BY <1>3, <1>7, <1>8, JudgedTwice
<1>10. ASSUME NEW i \in {Rule} \cup Conds PROVE E[i].active = D[i].active
  <2>1. F[i].active = D[i].active
    BY <1>4, <1>5, ActionsActive
  <2> HIDE DEF F
  <2>2. Config(F)
    BY <1>5, <1>7, JudgedConfig
  <2>3. E[i].active = F[i].active
    BY <1>4, <2>2, ActionsActive DEF F
  <2> QED BY <2>1, <2>3
<1> HIDE DEF E, F
<1>11. Effect(c, id, pts, E)
  BY <1>e, <1>10 DEF Effect
<1>12. /\ D[Rule].disabled = c[Rule].disabled /\ E[Rule].disabled = c[Rule].disabled
       /\ \A i \in Conds : E[i].disabled = D[i].disabled
  <2>1. Rule \in ID /\ Conds \subseteq ID /\ \A i \in ID : "disabled" \in DOMAIN c[i] \ Results
    BY DEF Config, Parts, Results, ID
  <2> QED BY <1>3, <1>9, <2>1 DEF Judged
<1>13. AllActive(E) = AllActive(D)
  BY <1>10, <1>12, AllActiveSame
<1>14. Settled(D) /\ Settled(E)
  BY <1>a, <1>10, <1>12, <1>13 DEF Settled
<1>15. ASSUME Idle(c, D, pts) PROVE Outcome(c, pts, D, {}, <<>>)
  BY <1>14, <1>15 DEF Outcome, Idle
<1>16. Outcome(c, pts, E, acted, Sets(D, on))
  <2>1. on = Due(E)
    <3>1. active <=> ~E[Rule].disabled /\ AllActive(E)
      BY <1>a, <1>c, <1>12, <1>13
    <3> QED BY <1>b, <3>1 DEF Due
  <2>2. ASSUME NEW i \in ToSet(on) PROVE (Goes(E, i) <=> Goes(D, i)) /\ Point(E, i) = Point(D, i)
    <3>1. i \in Acts
      <4>1. \A k \in DOMAIN on : on[k] \in Acts
        BY <1>4
      <4> QED BY <4>1 DEF ToSet
    <3>2. Judged(D, E)
      BY <1>7, <1>8, JudgedTwice
    <3> QED BY <1>5, <3>1, <3>2, GoesSame
  <2> DEFINE r == Sets(D, on)
  <2>3. /\ \A k \in DOMAIN r : \E i \in ToSet(on) : Goes(D, i) /\ r[k] = Point(D, i)
        /\ \A i \in ToSet(on) : Goes(D, i) => Has(r, Point(D, i))
    BY <1>4, <1>5, SetsIn
  <2> HIDE DEF r
  <2>4. Outcome(c, pts, E, acted, r)
    BY <1>14, <2>1, <2>2, <2>3 DEF Outcome
  <2> QED BY <2>4 DEF r
<1> QED BY <1>1, <1>3, <1>e, <1>6, <1>9, <1>11, <1>15, <1>16, Zenon

-----------------------------------------------------------------------------
(* Points on their way *)

Names(S, i, f) == \E p \in S : p.id = i /\ p.field = f

\* Messages q take a point from v to w.
Latest(q, i, f, v, w) ==
    /\ (\A k \in DOMAIN q : ~Names(q[k], i, f)) => v = w
    /\ \A k \in DOMAIN q : Names(q[k], i, f) /\ (\A j \in DOMAIN q : j > k => ~Names(q[j], i, f)) =>
           \A p \in q[k] : p.id = i /\ p.field = f => p.val = w

\* No messages.
LEMMA LatestEmpty ==
    ASSUME NEW i, NEW f, NEW v, NEW w
    PROVE  Latest(<<>>, i, f, v, w) <=> v = w
BY DEF Latest

\* One more message.
LEMMA LatestAppend ==
    ASSUME NEW n \in Nat, NEW q, DOMAIN q = 1 .. n, NEW r, DOMAIN r = 1 .. n + 1,
           \A k \in 1 .. n : r[k] = q[k],
           NEW i, NEW f, NEW v, NEW w, NEW x, Latest(q, i, f, v, w),
           \A p \in r[n + 1] : p.id = i /\ p.field = f => p.val = x,
           ~Names(r[n + 1], i, f) => x = w
    PROVE  Latest(r, i, f, v, x)
<1>1. ASSUME \A k \in DOMAIN r : ~Names(r[k], i, f) PROVE v = x
  <2>1. ~Names(r[n + 1], i, f) /\ \A k \in DOMAIN q : ~Names(q[k], i, f)
    BY <1>1
  <2> QED BY <2>1 DEF Latest
<1>2. ASSUME NEW k \in DOMAIN r, Names(r[k], i, f), \A j \in DOMAIN r : j > k => ~Names(r[j], i, f),
             NEW p \in r[k], p.id = i, p.field = f
      PROVE  p.val = x
  <2>1. CASE k = n + 1
    BY <1>2, <2>1
  <2>2. CASE k # n + 1
    <3>1. k \in DOMAIN q /\ r[k] = q[k] /\ n + 1 \in DOMAIN r /\ n + 1 > k
      BY <2>2
    <3>2. ~Names(r[n + 1], i, f)
      BY <1>2, <3>1
    <3>3. \A j \in DOMAIN q : j > k => ~Names(q[j], i, f)
      BY <1>2
    <3> QED BY <1>2, <3>1, <3>2, <3>3 DEF Latest
  <2> QED BY <2>1, <2>2
<1> QED BY <1>1, <1>2 DEF Latest

\* The first message has been handled.
LEMMA LatestTail ==
    ASSUME NEW n \in Nat, n > 0, NEW q, DOMAIN q = 1 .. n, NEW r, DOMAIN r = 1 .. n - 1,
           \A k \in 1 .. n - 1 : r[k] = q[k + 1],
           NEW i, NEW f, NEW v, NEW w, NEW x, Latest(q, i, f, v, w),
           Names(q[1], i, f) => \E p \in q[1] : p.id = i /\ p.field = f /\ x = p.val,
           ~Names(q[1], i, f) => x = v
    PROVE  Latest(r, i, f, x, w)
<1>2. ASSUME NEW j \in DOMAIN q, j # 1 PROVE j - 1 \in DOMAIN r /\ r[j - 1] = q[j]
  BY <1>2
<1>3. ASSUME \A k \in DOMAIN r : ~Names(r[k], i, f) PROVE x = w
  <2>1. \A j \in DOMAIN q : j # 1 => ~Names(q[j], i, f)
    BY <1>2, <1>3
  <2>2. CASE Names(q[1], i, f)
    <3>1. PICK p \in q[1] : p.id = i /\ p.field = f /\ x = p.val
      BY <2>2
    <3>2. 1 \in DOMAIN q /\ \A j \in DOMAIN q : j > 1 => ~Names(q[j], i, f)
      BY <2>1
    <3> QED BY <2>2, <3>1, <3>2 DEF Latest
  <2>3. CASE ~Names(q[1], i, f)
    BY <2>1, <2>3 DEF Latest
  <2> QED BY <2>2, <2>3
<1>4. ASSUME NEW k \in DOMAIN r, Names(r[k], i, f), \A j \in DOMAIN r : j > k => ~Names(r[j], i, f),
             NEW p \in r[k], p.id = i, p.field = f
      PROVE  p.val = w
  <2>1. k + 1 \in DOMAIN q /\ r[k] = q[k + 1]
    OBVIOUS
  <2>2. ASSUME NEW j \in DOMAIN q, j > k + 1 PROVE ~Names(q[j], i, f)
    <3>1. j # 1 /\ j - 1 > k
      BY <2>2
    <3> QED BY <1>2, <1>4, <3>1
  <2> QED BY <1>4, <2>1, <2>2 DEF Latest
<1> QED BY <1>3, <1>4 DEF Latest

\* Messages q, and then t.
Joined(q, t, r) ==
    \E n \in Nat, l \in Nat :
        /\ DOMAIN q = 1 .. n /\ DOMAIN t = 1 .. l /\ DOMAIN r = 1 .. n + l
        /\ (\A k \in 1 .. n : r[k] = q[k]) /\ \A k \in 1 .. l : r[n + k] = t[k]

\* Messages, and then others.
LEMMA LatestConcat ==
    ASSUME NEW q, NEW t, NEW r, Joined(q, t, r),
           NEW i, NEW f, NEW v, NEW w, NEW x, Latest(q, i, f, v, w), Latest(t, i, f, w, x)
    PROVE  Latest(r, i, f, v, x)
<1>0. PICK n \in Nat, l \in Nat :
          /\ DOMAIN q = 1 .. n /\ DOMAIN t = 1 .. l /\ DOMAIN r = 1 .. n + l
          /\ (\A k \in 1 .. n : r[k] = q[k]) /\ \A k \in 1 .. l : r[n + k] = t[k]
  BY DEF Joined
<1>1. \A k \in 1 .. n : k \in DOMAIN r
  BY <1>0
<1>2. \A k \in 1 .. l : n + k \in DOMAIN r
  BY <1>0
<1>3. \A k \in DOMAIN r : k \in 1 .. n \/ (k - n \in 1 .. l /\ r[k] = t[k - n] /\ k > n)
  <2> TAKE k \in DOMAIN r
  <2>1. CASE k <= n
    BY <1>0, <2>1
  <2>2. CASE k > n
    <3>1. k - n \in 1 .. l /\ n + (k - n) = k
      BY <1>0, <2>2
    <3> QED BY <1>0, <2>2, <3>1
  <2> QED BY <1>0, <2>1, <2>2
<1>4. ASSUME \A k \in DOMAIN r : ~Names(r[k], i, f) PROVE v = x
  <2>1. \A k \in DOMAIN q : ~Names(q[k], i, f)
    BY <1>0, <1>1, <1>4
  <2>2. \A k \in DOMAIN t : ~Names(t[k], i, f)
    BY <1>0, <1>2, <1>4
  <2> QED BY <1>0, <2>1, <2>2 DEF Latest
<1>5. ASSUME NEW k \in DOMAIN r, Names(r[k], i, f), \A j \in DOMAIN r : j > k => ~Names(r[j], i, f),
             NEW p \in r[k], p.id = i, p.field = f
      PROVE  p.val = x
  <2>1. CASE k \in 1 .. n
    <3>1. \A j \in DOMAIN q : j > k => ~Names(q[j], i, f)
      BY <1>0, <1>1, <1>5
    <3>2. ASSUME NEW j \in DOMAIN t PROVE ~Names(t[j], i, f)
      <4>1. n + j \in DOMAIN r /\ n + j > k /\ r[n + j] = t[j]
        BY <1>0, <1>2, <2>1
      <4> QED BY <1>0, <1>5, <4>1
    <3>3. p.val = w
      BY <1>0, <1>5, <2>1, <3>1 DEF Latest
    <3>4. w = x
      BY <1>0, <3>2 DEF Latest
    <3> QED BY <1>0, <3>3, <3>4
  <2>2. CASE k - n \in 1 .. l /\ r[k] = t[k - n] /\ k > n
    <3>1. ASSUME NEW j \in DOMAIN t, j > k - n PROVE ~Names(t[j], i, f)
      <4>1. n + j \in DOMAIN r /\ n + j > k /\ r[n + j] = t[j]
        BY <1>0, <1>2, <2>2, <3>1
      <4> QED BY <1>0, <1>5, <4>1
    <3> QED BY <1>0, <1>5, <2>2, <3>1 DEF Latest
  <2> QED BY <1>0, <1>3, <2>1, <2>2
<1> QED BY <1>0, <1>4, <1>5 DEF Latest

IsSeq(q) == \E S : q \in Seq(S)

\* Results that messages to the store hold, and edits that messages to the client do.
Owns(q) == [k \in DOMAIN q |-> q[k].own]
Single(m) == {m}
Singles(q) == [k \in DOMAIN q |-> Single(q[k])]

\* A sequence that is one longer.
LEMMA SeqAppend ==
    ASSUME NEW q, IsSeq(q), NEW m
    PROVE  /\ IsSeq(Append(q, m))
           /\ Len(q) \in Nat /\ DOMAIN q = 1 .. Len(q)
           /\ DOMAIN Append(q, m) = 1 .. Len(q) + 1 /\ Append(q, m)[Len(q) + 1] = m
           /\ \A k \in 1 .. Len(q) : Append(q, m)[k] = q[k]
<1>1. PICK S : q \in Seq(S)
  BY DEF IsSeq
<1> DEFINE T == S \cup {m}
<1>2. q \in Seq(T) /\ m \in T
  BY <1>1
<1> HIDE DEF T
<1>3. Append(q, m) \in Seq(T)
  BY <1>2
<1> QED BY <1>2, <1>3 DEF IsSeq

\* A sequence without its first member.
LEMMA SeqTail ==
    ASSUME NEW q, IsSeq(q), q # <<>>
    PROVE  /\ IsSeq(Tail(q))
           /\ Len(q) \in Nat /\ Len(q) > 0 /\ DOMAIN q = 1 .. Len(q)
           /\ DOMAIN Tail(q) = 1 .. Len(q) - 1 /\ Head(q) = q[1]
           /\ \A k \in 1 .. Len(q) - 1 : Tail(q)[k] = q[k + 1]
<1>1. PICK S : q \in Seq(S)
  BY DEF IsSeq
<1>2. Tail(q) \in Seq(S)
  BY <1>1
<1> QED BY <1>1, <1>2 DEF IsSeq

\* One more message of the rule.
LEMMA OwnsAppend ==
    ASSUME NEW q, IsSeq(q), NEW m, NEW i, NEW f, NEW v, NEW w, NEW x,
           Latest(Owns(q), i, f, v, w),
           \A p \in m.own : p.id = i /\ p.field = f => p.val = x,
           ~Names(m.own, i, f) => x = w
    PROVE  Latest(Owns(Append(q, m)), i, f, v, x)
<1> DEFINE a == Append(q, m)
           n == Len(q)
<1>1. n \in Nat /\ DOMAIN q = 1 .. n /\ DOMAIN a = 1 .. n + 1 /\ a[n + 1] = m /\ \A k \in 1 .. n : a[k] = q[k]
  BY SeqAppend
<1> HIDE DEF a, n
<1>2. DOMAIN Owns(q) = 1 .. n /\ \A k \in 1 .. n : Owns(q)[k] = q[k].own
  BY <1>1 DEF Owns
<1>3. DOMAIN Owns(a) = 1 .. n + 1 /\ \A k \in 1 .. n + 1 : Owns(a)[k] = a[k].own
  BY <1>1 DEF Owns
<1>4. Owns(a)[n + 1] = m.own /\ \A k \in 1 .. n : Owns(a)[k] = Owns(q)[k]
  BY <1>1, <1>2, <1>3
<1>5. Latest(Owns(a), i, f, v, x)
  BY <1>1, <1>2, <1>3, <1>4, LatestAppend
<1> QED BY <1>5 DEF a

\* The store has handled a message of the rule.
LEMMA OwnsTail ==
    ASSUME NEW q, IsSeq(q), q # <<>>, NEW i, NEW f, NEW v, NEW w, NEW x,
           Latest(Owns(q), i, f, v, w),
           Names(Head(q).own, i, f) =>
               \E p \in Head(q).own : p.id = i /\ p.field = f /\ x = p.val,
           ~Names(Head(q).own, i, f) => x = v
    PROVE  Latest(Owns(Tail(q)), i, f, x, w)
<1> DEFINE a == Tail(q)
           n == Len(q)
<1>1. /\ n \in Nat /\ n > 0 /\ DOMAIN q = 1 .. n /\ DOMAIN a = 1 .. n - 1 /\ Head(q) = q[1]
      /\ \A k \in 1 .. n - 1 : a[k] = q[k + 1]
  BY SeqTail
<1> HIDE DEF a, n
<1>2. DOMAIN Owns(q) = 1 .. n /\ \A k \in 1 .. n : Owns(q)[k] = q[k].own
  BY <1>1 DEF Owns
<1>3. DOMAIN Owns(a) = 1 .. n - 1 /\ \A k \in 1 .. n - 1 : Owns(a)[k] = a[k].own
  BY <1>1 DEF Owns
<1>4. Owns(q)[1] = Head(q).own /\ \A k \in 1 .. n - 1 : Owns(a)[k] = Owns(q)[k + 1]
  <2>1. 1 \in 1 .. n /\ \A k \in 1 .. n - 1 : k + 1 \in 1 .. n
    BY <1>1
  <2> QED BY <1>1, <1>2, <1>3, <2>1
<1>5. Latest(Owns(a), i, f, x, w)
  BY <1>1, <1>2, <1>3, <1>4, LatestTail
<1> QED BY <1>5 DEF a

\* One more edit of a user.
LEMMA SinglesAppend ==
    ASSUME NEW q, IsSeq(q), NEW m, NEW i, NEW f, NEW v, NEW w, NEW x,
           Latest(Singles(q), i, f, v, w),
           \A p \in Single(m) : p.id = i /\ p.field = f => p.val = x,
           ~Names(Single(m), i, f) => x = w
    PROVE  Latest(Singles(Append(q, m)), i, f, v, x)
<1> DEFINE a == Append(q, m)
           n == Len(q)
<1>1. n \in Nat /\ DOMAIN q = 1 .. n /\ DOMAIN a = 1 .. n + 1 /\ a[n + 1] = m /\ \A k \in 1 .. n : a[k] = q[k]
  BY SeqAppend
<1> HIDE DEF a, n
<1>2. DOMAIN Singles(q) = 1 .. n /\ \A k \in 1 .. n : Singles(q)[k] = Single(q[k])
  BY <1>1 DEF Singles
<1>3. DOMAIN Singles(a) = 1 .. n + 1 /\ \A k \in 1 .. n + 1 : Singles(a)[k] = Single(a[k])
  BY <1>1 DEF Singles
<1>4. Singles(a)[n + 1] = Single(m) /\ \A k \in 1 .. n : Singles(a)[k] = Singles(q)[k]
  BY <1>1, <1>2, <1>3
<1>5. Latest(Singles(a), i, f, v, x)
  BY <1>1, <1>2, <1>3, <1>4, LatestAppend
<1> QED BY <1>5 DEF a

\* The client has handled an edit.
LEMMA SinglesTail ==
    ASSUME NEW q, IsSeq(q), q # <<>>, NEW i, NEW f, NEW v, NEW w, NEW x,
           Latest(Singles(q), i, f, v, w),
           Names(Single(Head(q)), i, f) =>
               \E p \in Single(Head(q)) : p.id = i /\ p.field = f /\ x = p.val,
           ~Names(Single(Head(q)), i, f) => x = v
    PROVE  Latest(Singles(Tail(q)), i, f, x, w)
<1> DEFINE a == Tail(q)
           n == Len(q)
<1>1. /\ n \in Nat /\ n > 0 /\ DOMAIN q = 1 .. n /\ DOMAIN a = 1 .. n - 1 /\ Head(q) = q[1]
      /\ \A k \in 1 .. n - 1 : a[k] = q[k + 1]
  BY SeqTail
<1> HIDE DEF a, n
<1>2. DOMAIN Singles(q) = 1 .. n /\ \A k \in 1 .. n : Singles(q)[k] = Single(q[k])
  BY <1>1 DEF Singles
<1>3. DOMAIN Singles(a) = 1 .. n - 1 /\ \A k \in 1 .. n - 1 : Singles(a)[k] = Single(a[k])
  BY <1>1 DEF Singles
<1>4. Singles(q)[1] = Single(Head(q)) /\ \A k \in 1 .. n - 1 : Singles(a)[k] = Singles(q)[k + 1]
  <2>1. 1 \in 1 .. n /\ \A k \in 1 .. n - 1 : k + 1 \in 1 .. n
    BY <1>1
  <2> QED BY <1>1, <1>2, <1>3, <2>1
<1>5. Latest(Singles(a), i, f, x, w)
  BY <1>1, <1>2, <1>3, <1>4, LatestTail
<1> QED BY <1>5 DEF a

\* The points of a message that are not followed by others of their name.
View(m) ==
    {[id |-> m.id, field |-> m.pts[k].point, val |-> m.pts[k].value] :
        k \in {k \in DOMAIN m.pts : \A j \in DOMAIN m.pts : j > k => m.pts[j].point # m.pts[k].point}}

Views(q) == [k \in DOMAIN q |-> View(q[k])]

\* One more message to newRulePoints.
LEMMA ViewsAppend ==
    ASSUME NEW q, IsSeq(q), NEW m, NEW i, NEW f, NEW v, NEW w, NEW x,
           Latest(Views(q), i, f, v, w),
           \A p \in View(m) : p.id = i /\ p.field = f => p.val = x,
           ~Names(View(m), i, f) => x = w
    PROVE  Latest(Views(Append(q, m)), i, f, v, x)
<1> DEFINE a == Append(q, m)
           n == Len(q)
<1>1. n \in Nat /\ DOMAIN q = 1 .. n /\ DOMAIN a = 1 .. n + 1 /\ a[n + 1] = m /\ \A k \in 1 .. n : a[k] = q[k]
  BY SeqAppend
<1> HIDE DEF a, n
<1>2. DOMAIN Views(q) = 1 .. n /\ \A k \in 1 .. n : Views(q)[k] = View(q[k])
  BY <1>1 DEF Views
<1>3. DOMAIN Views(a) = 1 .. n + 1 /\ \A k \in 1 .. n + 1 : Views(a)[k] = View(a[k])
  BY <1>1 DEF Views
<1>4. Views(a)[n + 1] = View(m) /\ \A k \in 1 .. n : Views(a)[k] = Views(q)[k]
  BY <1>1, <1>2, <1>3
<1>5. Latest(Views(a), i, f, v, x)
  BY <1>1, <1>2, <1>3, <1>4, LatestAppend
<1> QED BY <1>5 DEF a

\* More messages to newRulePoints.
LEMMA ViewsConcat ==
    ASSUME NEW q, NEW t, NEW r, Joined(q, t, r)
    PROVE  Joined(Views(q), Views(t), Views(r))
<1>1. PICK n \in Nat, l \in Nat :
          /\ DOMAIN q = 1 .. n /\ DOMAIN t = 1 .. l /\ DOMAIN r = 1 .. n + l
          /\ (\A k \in 1 .. n : r[k] = q[k]) /\ \A k \in 1 .. l : r[n + k] = t[k]
  BY DEF Joined
<1>2. DOMAIN Views(q) = 1 .. n /\ DOMAIN Views(t) = 1 .. l /\ DOMAIN Views(r) = 1 .. n + l
  BY <1>1 DEF Views
<1>3. /\ \A k \in 1 .. n : Views(q)[k] = View(q[k])
      /\ \A k \in 1 .. l : Views(t)[k] = View(t[k])
      /\ \A k \in 1 .. n + l : Views(r)[k] = View(r[k])
  BY <1>1 DEF Views
<1>4. (\A k \in 1 .. n : k \in 1 .. n + l) /\ \A k \in 1 .. l : n + k \in 1 .. n + l
  OBVIOUS
<1>5. (\A k \in 1 .. n : Views(r)[k] = Views(q)[k]) /\ \A k \in 1 .. l : Views(r)[n + k] = Views(t)[k]
  BY <1>1, <1>3, <1>4
<1> QED BY <1>2, <1>5 DEF Joined

\* newRulePoints has handled a message.
LEMMA ViewsTail ==
    ASSUME NEW q, IsSeq(q), q # <<>>, NEW i, NEW f, NEW v, NEW w, NEW x,
           Latest(Views(q), i, f, v, w),
           Names(View(Head(q)), i, f) =>
               \E p \in View(Head(q)) : p.id = i /\ p.field = f /\ x = p.val,
           ~Names(View(Head(q)), i, f) => x = v
    PROVE  Latest(Views(Tail(q)), i, f, x, w)
<1> DEFINE a == Tail(q)
           n == Len(q)
<1>1. /\ n \in Nat /\ n > 0 /\ DOMAIN q = 1 .. n /\ DOMAIN a = 1 .. n - 1 /\ Head(q) = q[1]
      /\ \A k \in 1 .. n - 1 : a[k] = q[k + 1]
  BY SeqTail
<1> HIDE DEF a, n
<1>2. DOMAIN Views(q) = 1 .. n /\ \A k \in 1 .. n : Views(q)[k] = View(q[k])
  BY <1>1 DEF Views
<1>3. DOMAIN Views(a) = 1 .. n - 1 /\ \A k \in 1 .. n - 1 : Views(a)[k] = View(a[k])
  BY <1>1 DEF Views
<1>4. Views(q)[1] = View(Head(q)) /\ \A k \in 1 .. n - 1 : Views(a)[k] = Views(q)[k + 1]
  <2>1. 1 \in 1 .. n /\ \A k \in 1 .. n - 1 : k + 1 \in 1 .. n
    BY <1>1
  <2> QED BY <1>1, <1>2, <1>3, <2>1
<1>5. Latest(Views(a), i, f, x, w)
  BY <1>1, <1>2, <1>3, <1>4, LatestTail
<1> QED BY <1>5 DEF a

-----------------------------------------------------------------------------
(* The invariant *)

\* Messages for newRulePoints.
RuleMsg == Batches \cup [id : Device, pts : Seq([point : Val, value : Val, time : Time])]

\* What the rule sends: its own results, and points of other nodes.
Sent(m) == m.sets \in Seq(SetPoint) /\ \A p \in m.own : p.id \in ID /\ p.field \in Results

PubOk(q) == IsSeq(q) /\ \A k \in DOMAIN q : Sent(q[k])

\* The messages p to the store take the results of d, the store's copy, to those
\* of the client's copy c; the messages u to the client take all other points of
\* c to those of d.
Agree(d, c, p, u) ==
    \A i \in ID :
        /\ \A f \in Results : Latest(Owns(p), i, f, d[i][f], c[i][f])
        /\ \A f \in DOMAIN c[i] \ Results : Latest(Singles(u), i, f, c[i][f], d[i][f])

Types ==
    /\ DOMAIN db = ID \cup Device /\ Parts(db)
    /\ Config(cfg) /\ \A i \in ID : DOMAIN cfg[i] = DOMAIN db[i]
    /\ PubOk(pub)
    /\ rulePts \in Seq(RuleMsg)
    /\ cfgPts \in Seq(Edits)
    /\ ~running => cfgPts = <<>>
    /\ now \in Time /\ FirstDay <= now.day /\ now.day <= LastDay

Inv == Types /\ (~lost => Agree(db, cfg, pub, cfgPts))

\* A report has the results that have changed, with their new values.
LEMMA ReportNames ==
    ASSUME NEW c, NEW d, NEW acted, NEW own, own = Report(c, d, acted)
    PROVE  \A i \in ID, f \in Results :
               /\ \A p \in own : p.id = i /\ p.field = f => p.val = d[i][f]
               /\ ~Names(own, i, f) => d[i][f] = c[i][f]
<1> TAKE i \in ID, f \in Results
<1>1. \A p \in own : p.id = i /\ p.field = f => p.val = d[i][f]
  BY DEF Report
<1>2. ASSUME d[i][f] # c[i][f] PROVE Names(own, i, f)
  <2> DEFINE p == [id |-> i, field |-> f]
             r == [id |-> p.id, field |-> p.field, val |-> d[p.id][p.field]]
  <2>1. p \in [id : ID, field : {"active", "error"}] /\ c[p.id][p.field] # d[p.id][p.field]
    BY <1>2 DEF Results
  <2>2. r \in own
    <3> HIDE DEF p
    <3> QED BY <2>1 DEF Report
  <2>3. r.id = i /\ r.field = f
    OBVIOUS
  <2> HIDE DEF r
  <2> QED BY <2>2, <2>3 DEF Names
<1> QED BY <1>1, <1>2

\* A report is about results.
LEMMA ReportFields ==
    ASSUME NEW c, NEW d, NEW acted
    PROVE  \A p \in Report(c, d, acted) : p.id \in ID /\ p.field \in Results
BY DEF Report, Results

\* Send: the messages lead to the results that the client has now.
LEMMA SendStep ==
    ASSUME NEW c, Config(c), NEW d, Judged(c, d), NEW acted, NEW sets \in Seq(SetPoint),
           Send(c, d, acted, sets), PubOk(pub)
    PROVE  /\ PubOk(pub') /\ cfg' = d
           /\ \A i \in ID, f \in Results : \A v :
                  Latest(Owns(pub), i, f, v, c[i][f]) => Latest(Owns(pub'), i, f, v, d[i][f])
<1> DEFINE own == Report(c, d, acted)
           m == [own |-> own, sets |-> sets]
<1>0. own = Report(c, d, acted)
  OBVIOUS
<1>1. cfg' = d /\ pub' = IF own = {} /\ sets = <<>> THEN pub ELSE Append(pub, m)
  BY DEF Send
<1>2. \A p \in own : p.id \in ID /\ p.field \in Results
  BY ReportFields
<1> HIDE DEF own
<1>3. \A i \in ID, f \in Results :
          /\ \A p \in own : p.id = i /\ p.field = f => p.val = d[i][f]
          /\ ~Names(own, i, f) => d[i][f] = c[i][f]
  BY <1>0, ReportNames
<1>4. m.own = own /\ m.sets = sets
  OBVIOUS
<1> HIDE DEF m
<1>5. CASE own = {} /\ sets = <<>>
  <2>1. pub' = pub
    BY <1>1, <1>5
  <2>2. ASSUME NEW i \in ID, NEW f \in Results PROVE d[i][f] = c[i][f]
    BY <1>3, <1>5 DEF Names
  <2> QED BY <1>1, <2>1, <2>2
<1>6. CASE ~(own = {} /\ sets = <<>>)
  <2>1. pub' = Append(pub, m)
    BY <1>1, <1>6
  <2>2. PubOk(pub')
    <3>1. IsSeq(pub) /\ \A k \in DOMAIN pub : Sent(pub[k])
      BY DEF PubOk
    <3>2. Sent(m)
      BY <1>2, <1>4 DEF Sent
    <3>3. /\ IsSeq(pub') /\ Len(pub) \in Nat /\ DOMAIN pub = 1 .. Len(pub)
          /\ DOMAIN pub' = 1 .. Len(pub) + 1 /\ pub'[Len(pub) + 1] = m
          /\ \A k \in 1 .. Len(pub) : pub'[k] = pub[k]
      BY <2>1, <3>1, SeqAppend
    <3>4. \A k \in DOMAIN pub' : Sent(pub'[k])
      BY <3>1, <3>2, <3>3
    <3> QED BY <3>3, <3>4 DEF PubOk
  <2>3. ASSUME NEW i \in ID, NEW f \in Results, NEW v, Latest(Owns(pub), i, f, v, c[i][f])
        PROVE  Latest(Owns(pub'), i, f, v, d[i][f])
    <3>1. IsSeq(pub)
      BY DEF PubOk
    <3>2. /\ \A p \in m.own : p.id = i /\ p.field = f => p.val = d[i][f]
          /\ ~Names(m.own, i, f) => d[i][f] = c[i][f]
      BY <1>3, <1>4
    <3>3. Latest(Owns(Append(pub, m)), i, f, v, d[i][f])
      BY <2>3, <3>1, <3>2, OwnsAppend
    <3> QED BY <2>1, <3>3
  <2> QED BY <1>1, <2>2, <2>3
<1> QED BY <1>5, <1>6

\* run: the copies agree as they did before it.
LEMMA RunStep ==
    ASSUME NEW c, Config(c), NEW id, NEW pts, Len(pts) \in Nat, Run(c, id, pts), PubOk(pub)
    PROVE  /\ PubOk(pub') /\ Config(cfg') /\ \A i \in ID : DOMAIN cfg'[i] = DOMAIN c[i]
           /\ \A e, u : Agree(e, c, pub, u) => Agree(e, cfg', pub', u)
           /\ Judged(c, cfg') /\ Effect(c, id, pts, cfg')
           /\ \E acted, sets : /\ sets \in Seq(SetPoint) /\ Send(c, cfg', acted, sets)
                               /\ Outcome(c, pts, cfg', acted, sets)
<1>1. PICK d, acted, sets : /\ Judged(c, d) /\ Effect(c, id, pts, d)
                            /\ sets \in Seq(SetPoint) /\ Send(c, d, acted, sets)
                            /\ Outcome(c, pts, d, acted, sets)
  BY RunSends
<1>2. /\ PubOk(pub') /\ cfg' = d
      /\ \A i \in ID, f \in Results : \A v :
             Latest(Owns(pub), i, f, v, c[i][f]) => Latest(Owns(pub'), i, f, v, d[i][f])
  BY <1>1, SendStep
<1>3. Config(d)
  BY <1>1, JudgedConfig
<1>4. \A i \in ID : DOMAIN d[i] = DOMAIN c[i] /\ \A f \in DOMAIN c[i] \ Results : d[i][f] = c[i][f]
  BY <1>1 DEF Judged
<1>5. ASSUME NEW e, NEW u, Agree(e, c, pub, u) PROVE Agree(e, d, pub', u)
  <2>1. ASSUME NEW i \in ID, NEW f \in Results PROVE Latest(Owns(pub'), i, f, e[i][f], d[i][f])
    BY <1>2, <1>5 DEF Agree
  <2>2. ASSUME NEW i \in ID, NEW f \in DOMAIN d[i] \ Results
        PROVE  Latest(Singles(u), i, f, d[i][f], e[i][f])
    BY <1>4, <1>5 DEF Agree
  <2> QED BY <2>1, <2>2 DEF Agree
<1> QED BY <1>1, <1>2, <1>3, <1>4, <1>5

\* Parts r after an edit of the parts c.
Edited(c, r, e) ==
    \A i \in ID : /\ IsRec(r[i]) /\ DOMAIN r[i] = DOMAIN c[i]
                  /\ \A f \in DOMAIN c[i] :
                         r[i][f] = IF i = e.id /\ f = e.field THEN e.val ELSE c[i][f]

\* An edit writes one point of one part.
LEMMA EditEffect ==
    ASSUME NEW c, ID \subseteq DOMAIN c, \A i \in ID : IsRec(c[i]), NEW e, e.id \in ID
    PROVE  /\ Edited(c, [c EXCEPT ![e.id][e.field] = e.val], e)
           /\ DOMAIN [c EXCEPT ![e.id][e.field] = e.val] = DOMAIN c
           /\ IsRec([c EXCEPT ![e.id][e.field] = e.val])
<1> DEFINE new == [c[e.id] EXCEPT ![e.field] = e.val]
           r == [c EXCEPT ![e.id][e.field] = e.val]
<1>1. r = [c EXCEPT ![e.id] = new]
  OBVIOUS
<1>2. /\ IsRec(new) /\ DOMAIN new = DOMAIN c[e.id]
      /\ \A f \in DOMAIN c[e.id] : new[f] = IF f = e.field THEN e.val ELSE c[e.id][f]
  BY DEF IsRec
<1> HIDE DEF new, r
<1>3. DOMAIN r = DOMAIN c /\ IsRec(r) /\ \A i \in DOMAIN c : r[i] = IF i = e.id THEN new ELSE c[i]
  BY <1>1 DEF IsRec
<1>4. Edited(c, r, e)
  BY <1>2, <1>3 DEF Edited
<1> QED BY <1>3, <1>4 DEF r

\* Users edit what they configure.
LEMMA EditedParts ==
    ASSUME NEW c, Parts(c), NEW e \in Edits, NEW r, Edited(c, r, e)
    PROVE  Parts(r)
<1>1. Conds \subseteq ID /\ Acts \subseteq ID
  BY DEF ID
<1>2. /\ e.id \in Conds /\ e.field = "sched" => e.val \in Schedule
      /\ e.id \in Conds \cup Acts /\ e.field = "node" => e.val \in Device \cup {""}
      /\ e.val \in Val
  <2>1. /\ e.id \in Conds /\ e.field = "sched" => e.val \in Schedule
        /\ e.id \in Conds \cup Acts /\ e.field = "node" => e.val \in Device \cup {""}
    BY ConfigAssumption
  <2>2. e.val \in {x.val : x \in Edits}
    OBVIOUS
  <2>3. e.val \in Val
    BY <2>2, Zenon DEF Val
  <2> QED BY <2>1, <2>3
<1>3. \A i \in ID : IsRec(r[i]) /\ DOMAIN r[i] = DOMAIN c[i]
  BY DEF Edited
<1>4. ASSUME NEW i \in Conds
      PROVE  /\ CondFields \subseteq DOMAIN r[i]
             /\ r[i].sched \in Schedule /\ r[i].node \in Device \cup {""}
  <2>1. CondFields \subseteq DOMAIN c[i] /\ c[i].sched \in Schedule /\ c[i].node \in Device \cup {""}
    BY DEF Parts
  <2>2. /\ r[i].sched = IF i = e.id /\ "sched" = e.field THEN e.val ELSE c[i].sched
        /\ r[i].node = IF i = e.id /\ "node" = e.field THEN e.val ELSE c[i].node
    BY <1>1, <2>1 DEF Edited, CondFields
  <2>3. r[i].sched \in Schedule
    BY <1>2, <2>1, <2>2
  <2>4. r[i].node \in Device \cup {""}
    BY <1>2, <2>1, <2>2
  <2> QED BY <1>1, <1>3, <2>1, <2>3, <2>4
<1>5. ASSUME NEW i \in Acts
      PROVE  /\ ActFields \subseteq DOMAIN r[i]
             /\ r[i].node \in Device \cup {""} /\ r[i].point \in Val /\ r[i].value \in Val
  <2>1. /\ ActFields \subseteq DOMAIN c[i]
        /\ c[i].node \in Device \cup {""} /\ c[i].point \in Val /\ c[i].value \in Val
    BY DEF Parts
  <2>2. \A f \in DOMAIN c[i] : r[i][f] = IF i = e.id /\ f = e.field THEN e.val ELSE c[i][f]
    BY <1>1 DEF Edited
  <2>3. /\ r[i].node = IF i = e.id /\ "node" = e.field THEN e.val ELSE c[i].node
        /\ r[i].point = IF i = e.id /\ "point" = e.field THEN e.val ELSE c[i].point
        /\ r[i].value = IF i = e.id /\ "value" = e.field THEN e.val ELSE c[i].value
    BY <2>1, <2>2 DEF ActFields
  <2> QED BY <1>1, <1>2, <1>3, <2>1, <2>3
<1>6. \A i \in ID : Results \subseteq DOMAIN r[i] /\ "disabled" \in DOMAIN r[i] /\ "edge" \notin DOMAIN r[i]
  BY <1>3 DEF Parts
<1> QED BY <1>3, <1>4, <1>5, <1>6 DEF Parts

-----------------------------------------------------------------------------
(* The steps *)

\* newRulePoints
LEMMA NewRulePointsStep ==
    ASSUME Inv, NewRulePoints
    PROVE  Inv'
<1> DEFINE m == Head(rulePts)
<1>1. /\ running /\ rulePts # <<>> /\ rulePts' = Tail(rulePts)
      /\ UNCHANGED <<db, running, cfgPts, now, lost>>
      /\ Run(cfg, m.id, m.pts) \/ UNCHANGED <<cfg, pub>>
  BY DEF NewRulePoints
<1>2. Types /\ (~lost => Agree(db, cfg, pub, cfgPts))
  BY DEF Inv
<1>3. m \in RuleMsg /\ rulePts' \in Seq(RuleMsg)
  BY <1>1, <1>2 DEF Types
<1> HIDE DEF m
<1>4. Len(m.pts) \in Nat
  <2>1. CASE m \in Batches
    BY <2>1, ConfigAssumption
  <2>2. CASE m \in [id : Device, pts : Seq([point : Val, value : Val, time : Time])]
    BY <2>2
  <2> QED BY <1>3, <2>1, <2>2 DEF RuleMsg
<1>5. Config(cfg) /\ PubOk(pub)
  BY <1>2 DEF Types
<1>6. /\ PubOk(pub') /\ Config(cfg') /\ \A i \in ID : DOMAIN cfg'[i] = DOMAIN cfg[i]
      /\ \A e, u : Agree(e, cfg, pub, u) => Agree(e, cfg', pub', u)
  <2>1. CASE Run(cfg, m.id, m.pts)
    BY <1>4, <1>5, <2>1, RunStep
  <2>2. CASE UNCHANGED <<cfg, pub>>
    BY <1>5, <2>2
  <2> QED BY <1>1, <2>1, <2>2
<1>7. Types'
  BY <1>1, <1>2, <1>3, <1>6 DEF Types
<1>8. ~lost' => Agree(db', cfg', pub', cfgPts')
  BY <1>1, <1>2, <1>6
<1> QED BY <1>7, <1>8 DEF Inv

\* scheduleTicker
LEMMA TickStep ==
    ASSUME Inv, Tick
    PROVE  Inv'
<1> DEFINE one == <<Trigger>>
<1>1. UNCHANGED <<db, running, rulePts, cfgPts, now, lost>> /\ Run(cfg, Rule, one)
  BY DEF Tick
<1>2. Len(one) \in Nat
  OBVIOUS
<1> HIDE DEF one
<1>3. Types /\ (~lost => Agree(db, cfg, pub, cfgPts))
  BY DEF Inv
<1>4. Config(cfg) /\ PubOk(pub)
  BY <1>3 DEF Types
<1>5. /\ PubOk(pub') /\ Config(cfg') /\ \A i \in ID : DOMAIN cfg'[i] = DOMAIN cfg[i]
      /\ \A e, u : Agree(e, cfg, pub, u) => Agree(e, cfg', pub', u)
  BY <1>1, <1>2, <1>4, RunStep
<1>6. Types'
  BY <1>1, <1>3, <1>5 DEF Types
<1>7. ~lost' => Agree(db', cfg', pub', cfgPts')
  BY <1>1, <1>3, <1>5
<1> QED BY <1>6, <1>7 DEF Inv

\* An edit has come to the client: it has what the store has.
LEMMA EditHandled ==
    ASSUME NEW d, NEW c, Parts(c), NEW p, NEW u \in Seq(Edits), u # <<>>, Agree(d, c, p, u),
           NEW r, Edited(c, r, Head(u))
    PROVE  Agree(d, r, p, Tail(u))
<1> DEFINE m == Head(u)
<1>1. m \in Edits /\ IsSeq(u)
  BY DEF IsSeq
<1>2. m.id \in ID /\ m.field \notin Results
  BY <1>1, ConfigAssumption DEF Results
<1>3. ASSUME NEW i \in ID, NEW f \in Results PROVE Latest(Owns(p), i, f, d[i][f], r[i][f])
  <2>1. f \in DOMAIN c[i] /\ f # m.field
    BY <1>2 DEF Parts
  <2>2. r[i][f] = c[i][f]
    BY <2>1 DEF Edited
  <2> QED BY <2>2 DEF Agree
<1>4. ASSUME NEW i \in ID, NEW f \in DOMAIN r[i] \ Results
      PROVE  Latest(Singles(Tail(u)), i, f, r[i][f], d[i][f])
  <2>1. f \in DOMAIN c[i] /\ r[i][f] = IF i = m.id /\ f = m.field THEN m.val ELSE c[i][f]
    BY DEF Edited
  <2>2. Latest(Singles(u), i, f, c[i][f], d[i][f])
    BY <1>4, <2>1 DEF Agree
  <2> DEFINE x == r[i][f]
  <2>3. /\ Names(Single(m), i, f) => \E q \in Single(m) : q.id = i /\ q.field = f /\ x = q.val
        /\ ~Names(Single(m), i, f) => x = c[i][f]
    BY <2>1 DEF Names, Single
  <2> HIDE DEF x
  <2>4. Latest(Singles(Tail(u)), i, f, x, d[i][f])
    BY <1>1, <2>2, <2>3, SinglesTail
  <2> QED BY <2>4 DEF x
<1> QED BY <1>3, <1>4 DEF Agree

\* newPoints
LEMMA NewPointsStep ==
    ASSUME Inv, NewPoints
    PROVE  Inv'
<1> DEFINE m == Head(cfgPts)
           c == [cfg EXCEPT ![m.id][m.field] = m.val]
           none == <<>>
<1>1. /\ running /\ cfgPts # <<>> /\ cfgPts' = Tail(cfgPts)
      /\ UNCHANGED <<db, running, rulePts, now, lost>> /\ Run(c, "", none)
  BY DEF NewPoints
<1>2. Types /\ (~lost => Agree(db, cfg, pub, cfgPts))
  BY DEF Inv
<1>3. m \in Edits /\ cfgPts' \in Seq(Edits) /\ Len(none) \in Nat
  <2>1. cfgPts \in Seq(Edits) /\ cfgPts # <<>>
    BY <1>1, <1>2 DEF Types
  <2>2. m \in Edits /\ Tail(cfgPts) \in Seq(Edits) /\ Len(none) \in Nat
    BY <2>1
  <2> QED BY <1>1, <2>2
<1> HIDE DEF none
<1>4. Config(cfg) /\ PubOk(pub)
  BY <1>2 DEF Types
<1>5. m.id \in ID
  BY <1>3, ConfigAssumption
<1>6. Edited(cfg, c, m) /\ DOMAIN c = ID /\ IsRec(c)
  <2>1. DOMAIN cfg = ID /\ \A i \in ID : IsRec(cfg[i])
    BY <1>4 DEF Config, Parts
  <2> HIDE DEF m
  <2> QED BY <1>5, <2>1, EditEffect
<1> HIDE DEF c
<1>7. Parts(c)
  <2> HIDE DEF m
  <2> QED BY <1>3, <1>4, <1>6, EditedParts DEF Config
<1>8. ~lost => Agree(db, c, pub, cfgPts')
  <2>1. cfgPts \in Seq(Edits) /\ Parts(cfg)
    BY <1>2 DEF Types, Config
  <2> QED BY <1>1, <1>2, <1>6, <2>1, EditHandled
<1> HIDE DEF m
<1>9. Config(c)
  BY <1>6, <1>7 DEF Config
<1>10. /\ PubOk(pub') /\ Config(cfg') /\ \A i \in ID : DOMAIN cfg'[i] = DOMAIN c[i]
       /\ \A e, u : Agree(e, c, pub, u) => Agree(e, cfg', pub', u)
  BY <1>1, <1>3, <1>4, <1>9, RunStep
<1>11. \A i \in ID : DOMAIN c[i] = DOMAIN cfg[i]
  BY <1>6 DEF Edited
<1>12. Types'
  BY <1>1, <1>2, <1>3, <1>10, <1>11 DEF Types
<1>13. ~lost' => Agree(db', cfg', pub', cfgPts')
  BY <1>1, <1>8, <1>10
<1> QED BY <1>12, <1>13 DEF Inv

\* newEdgePoints
LEMMA NewEdgePointsStep ==
    ASSUME Inv, NewEdgePoints
    PROVE  Inv'
<1> DEFINE m == Head(cfgPts)
           none == <<>>
<1>1. /\ running /\ cfgPts # <<>> /\ m.field = "edge" /\ cfgPts' = Tail(cfgPts)
      /\ UNCHANGED <<db, running, rulePts, now, lost>> /\ Run(cfg, "", none)
  BY DEF NewEdgePoints
<1>2. Types /\ (~lost => Agree(db, cfg, pub, cfgPts))
  BY DEF Inv
<1>3. m \in Edits /\ cfgPts' \in Seq(Edits) /\ Len(none) \in Nat
  <2>1. cfgPts \in Seq(Edits) /\ cfgPts # <<>>
    BY <1>1, <1>2 DEF Types
  <2>2. m \in Edits /\ Tail(cfgPts) \in Seq(Edits) /\ Len(none) \in Nat
    BY <2>1
  <2> QED BY <1>1, <2>2
<1> HIDE DEF none
<1>4. Config(cfg) /\ PubOk(pub)
  BY <1>2 DEF Types
<1>5. Edited(cfg, cfg, m)
  BY <1>1, <1>4 DEF Config, Parts, Edited
<1>6. ~lost => Agree(db, cfg, pub, cfgPts')
  <2>1. cfgPts \in Seq(Edits) /\ Parts(cfg)
    BY <1>2 DEF Types, Config
  <2> QED BY <1>1, <1>2, <1>5, <2>1, EditHandled
<1> HIDE DEF m
<1>7. /\ PubOk(pub') /\ Config(cfg') /\ \A i \in ID : DOMAIN cfg'[i] = DOMAIN cfg[i]
      /\ \A e, u : Agree(e, cfg, pub, u) => Agree(e, cfg', pub', u)
  BY <1>1, <1>3, <1>4, RunStep
<1>8. Types'
  BY <1>1, <1>2, <1>3, <1>7 DEF Types
<1>9. ~lost' => Agree(db', cfg', pub', cfgPts')
  BY <1>1, <1>6, <1>7
<1> QED BY <1>8, <1>9 DEF Inv

\* Stop
LEMMA StopStep ==
    ASSUME Inv, Stop
    PROVE  Inv'
<1>1. /\ ~running' /\ rulePts' = <<>> /\ cfgPts' = <<>> /\ UNCHANGED <<db, pub, cfg, now>>
      /\ lost' = (lost \/ cfgPts # <<>>)
  BY DEF Stop
<1>2. Types
  BY DEF Inv
<1>3. <<>> \in Seq(RuleMsg) /\ <<>> \in Seq(Edits)
  OBVIOUS
<1>4. Types'
  BY <1>1, <1>2, <1>3 DEF Types
<1> QED BY <1>1, <1>4 DEF Inv

\* Without messages the copies are the same.
LEMMA AgreeEmpty ==
    ASSUME NEW d, NEW c, Parts(c), \A i \in ID : c[i] = d[i]
    PROVE  Agree(d, c, <<>>, <<>>)
<1>1. Owns(<<>>) = <<>> /\ Singles(<<>>) = <<>>
  BY DEF Owns, Singles
<1>2. ASSUME NEW i \in ID, NEW f PROVE c[i][f] = d[i][f]
  OBVIOUS
<1> QED BY <1>1, <1>2, LatestEmpty DEF Agree

\* And the other way round.
LEMMA EmptyAgree ==
    ASSUME NEW d, NEW c, Parts(c), Parts(d), \A i \in ID : DOMAIN c[i] = DOMAIN d[i],
           Agree(d, c, <<>>, <<>>)
    PROVE  \A i \in ID : c[i] = d[i]
<1>1. Owns(<<>>) = <<>> /\ Singles(<<>>) = <<>>
  BY DEF Owns, Singles
<1>2. ASSUME NEW i \in ID, NEW f \in DOMAIN c[i] PROVE c[i][f] = d[i][f]
  <2>1. CASE f \in Results
    <3>1. Latest(<<>>, i, f, d[i][f], c[i][f])
      BY <1>1, <2>1 DEF Agree
    <3> QED BY <3>1, LatestEmpty
  <2>2. CASE f \notin Results
    <3>1. Latest(<<>>, i, f, c[i][f], d[i][f])
      BY <1>1, <2>2 DEF Agree
    <3> QED BY <3>1, LatestEmpty
  <2> QED BY <2>1, <2>2
<1>3. ASSUME NEW i \in ID PROVE c[i] = d[i]
  <2>1. IsRec(c[i]) /\ IsRec(d[i]) /\ DOMAIN c[i] = DOMAIN d[i]
    BY DEF Parts
  <2> QED BY <1>2, <2>1 DEF IsRec
<1> QED BY <1>3

\* NewRuleClient
LEMMA StartStep ==
    ASSUME Inv, Start
    PROVE  Inv'
<1>1. /\ ~running /\ running' /\ cfg' = [i \in ID |-> db[i]] /\ lost' = (lost \/ pub # <<>>)
      /\ UNCHANGED <<db, pub, rulePts, cfgPts, now>>
  BY DEF Start
<1>2. Types
  BY DEF Inv
<1>3. cfgPts = <<>> /\ Parts(db)
  BY <1>1, <1>2 DEF Types
<1>4. DOMAIN cfg' = ID /\ IsRec(cfg') /\ \A i \in ID : cfg'[i] = db[i]
  BY <1>1 DEF IsRec
<1>5. Parts(cfg')
  BY <1>3, <1>4 DEF Parts, ID
<1>6. Config(cfg')
  BY <1>4, <1>5 DEF Config
<1>7. Types'
  BY <1>1, <1>2, <1>4, <1>6 DEF Types
<1>8. ASSUME ~lost' PROVE Agree(db', cfg', pub', cfgPts')
  <2>1. pub' = <<>> /\ cfgPts' = <<>> /\ db' = db
    BY <1>1, <1>3, <1>8
  <2>2. Agree(db, cfg', <<>>, <<>>)
    BY <1>4, <1>5, AgreeEmpty
  <2> QED BY <2>1, <2>2
<1> QED BY <1>7, <1>8 DEF Inv

\* Points of other nodes leave the parts of the rule alone.
LEMMA WrittenOthers ==
    ASSUME NEW n, NEW sets, \A k \in DOMAIN sets : sets[k].id \in Device
    PROVE  /\ DOMAIN Written(n, sets) = DOMAIN n
           /\ \A i \in ID \cap DOMAIN n :
                  /\ IsRec(Written(n, sets)[i]) /\ DOMAIN Written(n, sets)[i] = DOMAIN n[i]
                  /\ \A f \in DOMAIN n[i] : Written(n, sets)[i][f] = n[i][f]
<1> DEFINE at(i) == {k \in DOMAIN sets : sets[k].id = i}
           of(i, f) == {k \in at(i) : sets[k].field = f}
           x(i, f) == IF of(i, f) = {} THEN n[i][f] ELSE sets[Max(of(i, f))].val
           new(i) == {sets[k].field : k \in at(i)}
           w == Written(n, sets)
<1>1. w = [i \in DOMAIN n |-> [f \in DOMAIN n[i] \cup new(i) |-> x(i, f)]]
  BY DEF Written
<1>2. ASSUME NEW i \in ID PROVE at(i) = {}
  BY RuleAssumption
<1> HIDE DEF at
<1>3. ASSUME NEW i \in ID PROVE new(i) = {} /\ \A f : x(i, f) = n[i][f]
  BY <1>2
<1> HIDE DEF x, w, new
<1>4. /\ DOMAIN w = DOMAIN n
      /\ \A i \in DOMAIN n : w[i] = [f \in DOMAIN n[i] \cup new(i) |-> x(i, f)]
  BY <1>1
<1>5. ASSUME NEW i \in ID \cap DOMAIN n
      PROVE  IsRec(w[i]) /\ DOMAIN w[i] = DOMAIN n[i] /\ \A f \in DOMAIN n[i] : w[i][f] = n[i][f]
  <2>1. w[i] = [f \in DOMAIN n[i] |-> x(i, f)]
    BY <1>3, <1>4
  <2> QED BY <1>3, <2>1 DEF IsRec
<1> QED BY <1>4, <1>5 DEF w

\* The store handles what the rule has sent.
LEMMA StoreStep ==
    ASSUME Inv, Store
    PROVE  Inv'
<1> DEFINE m == Head(pub)
           r(i, f) == IF \E p \in m.own : p.id = i /\ p.field = f
                      THEN (CHOOSE p \in m.own : p.id = i /\ p.field = f).val
                      ELSE db[i][f]
           own == [i \in DOMAIN db |-> [f \in DOMAIN db[i] |-> r(i, f)]]
           up(p) == [id |-> p.id, pts |-> <<[point |-> p.field, value |-> p.val, time |-> now]>>]
           ups == [k \in DOMAIN m.sets |-> up(m.sets[k])]
<1>1. /\ pub # <<>> /\ db' = Written(own, m.sets)
      /\ rulePts' = IF running THEN rulePts \o ups ELSE rulePts
      /\ pub' = Tail(pub) /\ UNCHANGED <<running, cfg, cfgPts, now, lost>>
  BY DEF Store
<1>2. Types /\ (~lost => Agree(db, cfg, pub, cfgPts))
  BY DEF Inv
<1>3. IsSeq(pub) /\ \A k \in DOMAIN pub : Sent(pub[k])
  BY <1>2 DEF Types, PubOk
<1>4. /\ IsSeq(Tail(pub)) /\ Len(pub) \in Nat /\ Len(pub) > 0 /\ DOMAIN pub = 1 .. Len(pub)
      /\ DOMAIN Tail(pub) = 1 .. Len(pub) - 1 /\ m = pub[1]
      /\ \A k \in 1 .. Len(pub) - 1 : Tail(pub)[k] = pub[k + 1]
  BY <1>1, <1>3, SeqTail
<1>5. Sent(m) /\ PubOk(pub')
  <2>1. \A k \in 1 .. Len(pub) - 1 : k + 1 \in DOMAIN pub
    BY <1>4
  <2> QED BY <1>1, <1>3, <1>4, <2>1 DEF PubOk
<1>6. m.sets \in Seq(SetPoint) /\ \A p \in m.own : p.id \in ID /\ p.field \in Results
  BY <1>5 DEF Sent
<1>7. rulePts' \in Seq(RuleMsg)
  <2> DEFINE sets == m.sets
             n == Len(sets)
  <2>1. n \in Nat /\ DOMAIN sets = 1 .. n /\ \A k \in 1 .. n : sets[k] \in SetPoint
    BY <1>6
  <2>2. ASSUME NEW p \in SetPoint PROVE up(p) \in RuleMsg
    <3> DEFINE x == [point |-> p.field, value |-> p.val, time |-> now]
               X == [point : Val, value : Val, time : Time]
    <3>1. x \in X /\ p.id \in Device
      BY <1>2 DEF SetPoint, Types
    <3> HIDE DEF x, X
    <3>2. <<x>> \in Seq(X)
      BY <3>1
    <3>3. [id |-> p.id, pts |-> <<x>>] \in [id : Device, pts : Seq(X)]
      BY <3>1, <3>2
    <3>4. [id |-> p.id, pts |-> <<x>>] \in RuleMsg
      BY <3>3 DEF RuleMsg, X
    <3> QED BY <3>4 DEF x
  <2> HIDE DEF up
  <2>3. ups = [k \in DOMAIN sets |-> up(sets[k])]
    OBVIOUS
  <2> HIDE DEF ups, sets, n
  <2>4. ups \in [1 .. n -> RuleMsg]
    BY <2>1, <2>2, <2>3
  <2>5. rulePts \in Seq(RuleMsg) /\ ups \in Seq(RuleMsg)
    BY <1>2, <2>1, <2>4 DEF Types
  <2>6. rulePts \o ups \in Seq(RuleMsg)
    BY <2>5
  <2> QED BY <1>1, <2>5, <2>6
<1> HIDE DEF up, ups
<1>8. ASSUME NEW i, NEW f
      PROVE  /\ Names(m.own, i, f) => \E p \in m.own : p.id = i /\ p.field = f /\ r(i, f) = p.val
             /\ ~Names(m.own, i, f) => r(i, f) = db[i][f]
  BY Zenon DEF Names
<1> HIDE DEF m, r
<1>9. /\ DOMAIN own = DOMAIN db
      /\ \A i \in DOMAIN db : DOMAIN own[i] = DOMAIN db[i] /\ \A f \in DOMAIN db[i] : own[i][f] = r(i, f)
  OBVIOUS
<1> HIDE DEF own
<1>10. DOMAIN db = ID \cup Device
  BY <1>2 DEF Types
<1>11. DOMAIN db' = DOMAIN db /\ \A i \in ID : /\ IsRec(db'[i]) /\ DOMAIN db'[i] = DOMAIN db[i]
                                               /\ \A f \in DOMAIN db[i] : db'[i][f] = r(i, f)
  <2>1. \A k \in DOMAIN m.sets : m.sets[k].id \in Device
    <3>1. \A k \in DOMAIN m.sets : m.sets[k] \in SetPoint
      BY <1>6
    <3> QED BY <3>1 DEF SetPoint
  <2> DEFINE W == Written(own, m.sets)
  <2>2. /\ DOMAIN W = DOMAIN own
        /\ \A i \in ID \cap DOMAIN own : /\ IsRec(W[i]) /\ DOMAIN W[i] = DOMAIN own[i]
                                         /\ \A f \in DOMAIN own[i] : W[i][f] = own[i][f]
    BY <2>1, WrittenOthers
  <2> HIDE DEF W
  <2>3. ASSUME NEW i \in ID
        PROVE  IsRec(W[i]) /\ DOMAIN W[i] = DOMAIN db[i] /\ \A f \in DOMAIN db[i] : W[i][f] = r(i, f)
    BY <1>9, <1>10, <2>2
  <2>4. db' = W
    BY <1>1 DEF W
  <2> QED BY <1>9, <2>2, <2>3, <2>4
<1>12. ASSUME NEW i \in ID, NEW f \in DOMAIN db[i] \ Results PROVE db'[i][f] = db[i][f]
  <2>1. ~Names(m.own, i, f)
    BY <1>6 DEF Names
  <2> QED BY <1>8, <1>11, <2>1
<1>13. Parts(db')
  BY <1>2, <1>11, <1>12, PartsKept DEF Types
<1>14. Types'
  BY <1>1, <1>2, <1>5, <1>7, <1>11, <1>13 DEF Types
<1>15. ASSUME Agree(db, cfg, pub, cfgPts) PROVE Agree(db', cfg, Tail(pub), cfgPts)
  <2>1. ASSUME NEW i \in ID, NEW f \in Results PROVE Latest(Owns(Tail(pub)), i, f, db'[i][f], cfg[i][f])
    <3> DEFINE x == r(i, f)
    <3>1. f \in DOMAIN db[i]
      BY <1>2 DEF Types, Parts
    <3>2. db'[i][f] = x
      BY <1>11, <3>1
    <3>3. Latest(Owns(pub), i, f, db[i][f], cfg[i][f])
      BY <1>15 DEF Agree
    <3>4. /\ Names(Head(pub).own, i, f) => \E p \in Head(pub).own : p.id = i /\ p.field = f /\ x = p.val
          /\ ~Names(Head(pub).own, i, f) => x = db[i][f]
      BY <1>8 DEF m
    <3> HIDE DEF x
    <3>5. Latest(Owns(Tail(pub)), i, f, x, cfg[i][f])
      BY <1>1, <1>3, <3>3, <3>4, OwnsTail
    <3> QED BY <3>2, <3>5
  <2>2. ASSUME NEW i \in ID, NEW f \in DOMAIN cfg[i] \ Results
        PROVE  Latest(Singles(cfgPts), i, f, cfg[i][f], db'[i][f])
    <3>1. db'[i][f] = db[i][f]
      BY <1>2, <1>12 DEF Types
    <3> QED BY <1>15, <3>1 DEF Agree
  <2> QED BY <2>1, <2>2 DEF Agree
<1> QED BY <1>1, <1>2, <1>14, <1>15 DEF Inv

\* A device sends points.
LEMMA DeviceSendsStep ==
    ASSUME Inv, DeviceSends
    PROVE  Inv'
<1> DEFINE sets(b) == [k \in DOMAIN b.pts |->
                          [id |-> b.id, field |-> b.pts[k].point, val |-> b.pts[k].value]]
<1>1. PICK b \in Batches : /\ db' = Written(db, sets(b))
                           /\ rulePts' = IF running THEN Append(rulePts, b) ELSE rulePts
                           /\ UNCHANGED <<pub, running, cfg, cfgPts, now, lost>>
  BY DEF DeviceSends
<1>2. Types /\ (~lost => Agree(db, cfg, pub, cfgPts))
  BY DEF Inv
<1>3. b.id \in Device /\ b \in RuleMsg
  BY ConfigAssumption DEF RuleMsg
<1> DEFINE s == sets(b)
           W == Written(db, s)
<1>4. \A k \in DOMAIN s : s[k].id \in Device
  BY <1>3
<1>5. db' = W
  BY <1>1
<1> HIDE DEF s
<1>6. /\ DOMAIN W = DOMAIN db
      /\ \A i \in ID \cap DOMAIN db : /\ IsRec(W[i]) /\ DOMAIN W[i] = DOMAIN db[i]
                                      /\ \A f \in DOMAIN db[i] : W[i][f] = db[i][f]
  BY <1>4, WrittenOthers
<1> HIDE DEF W
<1>7. /\ DOMAIN db' = DOMAIN db
      /\ \A i \in ID : /\ IsRec(db'[i]) /\ DOMAIN db'[i] = DOMAIN db[i]
                       /\ \A f \in DOMAIN db[i] : db'[i][f] = db[i][f]
  BY <1>2, <1>5, <1>6 DEF Types
<1>8. Parts(db')
  BY <1>2, <1>7, PartsKept DEF Types
<1>9. rulePts' \in Seq(RuleMsg)
  <2>1. rulePts \in Seq(RuleMsg)
    BY <1>2 DEF Types
  <2> QED BY <1>1, <1>3, <2>1
<1>10. Types'
  BY <1>1, <1>2, <1>7, <1>8, <1>9 DEF Types
<1>11. ASSUME Agree(db, cfg, pub, cfgPts) PROVE Agree(db', cfg, pub, cfgPts)
  <2>1. ASSUME NEW i \in ID, NEW f \in Results PROVE db'[i][f] = db[i][f]
    BY <1>2, <1>7 DEF Types, Parts
  <2>2. ASSUME NEW i \in ID, NEW f \in DOMAIN cfg[i] \ Results PROVE db'[i][f] = db[i][f]
    BY <1>2, <1>7 DEF Types
  <2> QED BY <1>11, <2>1, <2>2 DEF Agree
<1> QED BY <1>1, <1>2, <1>10, <1>11 DEF Inv

\* An edit goes to the store, and a message about it to the client.
LEMMA EditSent ==
    ASSUME NEW d, Parts(d), NEW c, \A i \in ID : DOMAIN c[i] = DOMAIN d[i], NEW p,
           NEW u \in Seq(Edits), Agree(d, c, p, u), NEW e \in Edits, NEW r, Edited(d, r, e)
    PROVE  Agree(r, c, p, Append(u, e))
<1>1. e.id \in ID /\ e.field \notin Results /\ IsSeq(u)
  BY ConfigAssumption DEF Results, IsSeq
<1>2. ASSUME NEW i \in ID, NEW f \in Results PROVE Latest(Owns(p), i, f, r[i][f], c[i][f])
  <2>1. f \in DOMAIN d[i] /\ f # e.field
    BY <1>1 DEF Parts
  <2>2. r[i][f] = d[i][f]
    BY <2>1 DEF Edited
  <2> QED BY <2>2 DEF Agree
<1>3. ASSUME NEW i \in ID, NEW f \in DOMAIN c[i] \ Results
      PROVE  Latest(Singles(Append(u, e)), i, f, c[i][f], r[i][f])
  <2> DEFINE x == r[i][f]
  <2>1. f \in DOMAIN d[i]
    OBVIOUS
  <2>2. x = IF i = e.id /\ f = e.field THEN e.val ELSE d[i][f]
    BY <2>1 DEF Edited
  <2>3. /\ \A q \in Single(e) : q.id = i /\ q.field = f => q.val = x
        /\ ~Names(Single(e), i, f) => x = d[i][f]
    BY <2>2 DEF Names, Single
  <2>4. Latest(Singles(u), i, f, c[i][f], d[i][f])
    BY DEF Agree
  <2> HIDE DEF x
  <2>5. Latest(Singles(Append(u, e)), i, f, c[i][f], x)
    BY <1>1, <2>3, <2>4, SinglesAppend
  <2> QED BY <2>5 DEF x
<1> QED BY <1>2, <1>3 DEF Agree

\* A user edits the rule.
LEMMA UserEditsStep ==
    ASSUME Inv, UserEdits
    PROVE  Inv'
<1>1. PICK e \in Edits :
          /\ db' = IF e.field = "edge" THEN db ELSE [db EXCEPT ![e.id][e.field] = e.val]
          /\ cfgPts' = IF running THEN Append(cfgPts, e) ELSE cfgPts
          /\ lost' = (lost \/ ~running)
          /\ UNCHANGED <<pub, running, cfg, rulePts, now>>
  BY DEF UserEdits
<1>2. Types /\ (~lost => Agree(db, cfg, pub, cfgPts))
  BY DEF Inv
<1>3. e.id \in ID
  BY ConfigAssumption
<1>4. /\ DOMAIN db = ID \cup Device /\ Parts(db) /\ cfgPts \in Seq(Edits)
      /\ \A i \in ID : IsRec(db[i]) /\ "edge" \notin DOMAIN db[i] /\ DOMAIN cfg[i] = DOMAIN db[i]
  BY <1>2 DEF Types, Parts
<1>5. Edited(db, db', e) /\ DOMAIN db' = DOMAIN db
  <2>1. CASE e.field = "edge"
    BY <1>1, <1>4, <2>1 DEF Edited
  <2>2. CASE e.field # "edge"
    <3> DEFINE r == [db EXCEPT ![e.id][e.field] = e.val]
    <3>1. Edited(db, r, e) /\ DOMAIN r = DOMAIN db
      BY <1>3, <1>4, EditEffect
    <3>2. db' = r
      BY <1>1, <2>2
    <3> HIDE DEF r
    <3> QED BY <3>1, <3>2
  <2> QED BY <2>1, <2>2
<1>6. Parts(db')
  BY <1>4, <1>5, EditedParts
<1>7. cfgPts' \in Seq(Edits) /\ (~running => cfgPts' = cfgPts)
  <2>1. Append(cfgPts, e) \in Seq(Edits)
    BY <1>4
  <2> QED BY <1>1, <1>4, <2>1
<1>8. \A i \in ID : DOMAIN cfg[i] = DOMAIN db'[i]
  BY <1>4, <1>5 DEF Edited
<1>9. Types'
  BY <1>1, <1>2, <1>5, <1>6, <1>7, <1>8 DEF Types
<1>10. ASSUME ~lost' PROVE Agree(db', cfg', pub', cfgPts')
  <2>1. running /\ ~lost /\ cfgPts' = Append(cfgPts, e) /\ cfg' = cfg /\ pub' = pub
    BY <1>1, <1>10
  <2>2. Agree(db', cfg, pub, Append(cfgPts, e))
    BY <1>2, <1>4, <1>5, <2>1, EditSent
  <2> QED BY <2>1, <2>2
<1> QED BY <1>9, <1>10 DEF Inv

\* Time passes.
LEMMA ClockStep ==
    ASSUME Inv, Clock
    PROVE  Inv'
<1>1. /\ now' = IF now.min < Minutes - 1 THEN [now EXCEPT !.min = @ + 1]
                ELSE [day |-> now.day + 1, min |-> 0]
      /\ now'.day <= LastDay /\ UNCHANGED <<db, pub, running, cfg, rulePts, cfgPts, lost>>
  BY DEF Clock
<1>2. Types /\ (~lost => Agree(db, cfg, pub, cfgPts))
  BY DEF Inv
<1>3. now \in Time /\ FirstDay <= now.day /\ FirstDay \in Int /\ Minutes \in Nat \ {0}
  BY <1>2, RuleAssumption, MinutesAssumption DEF Types
<1>4. now' \in Time /\ FirstDay <= now'.day
  <2>1. CASE now.min < Minutes - 1
    BY <1>1, <1>3, <2>1 DEF Time
  <2>2. CASE ~(now.min < Minutes - 1)
    BY <1>1, <1>3, <2>2 DEF Time
  <2> QED BY <2>1, <2>2
<1>5. Types'
  BY <1>1, <1>2, <1>4 DEF Types
<1> QED BY <1>1, <1>2, <1>5 DEF Inv

\* Nothing happens.
LEMMA StutterStep ==
    ASSUME Inv, UNCHANGED vars
    PROVE  Inv'
BY DEF Inv, Types, vars

\* At first.
LEMMA InitInv ==
    ASSUME Init
    PROVE  Inv
<1>1. /\ db \in Created /\ pub = <<>> /\ rulePts = <<>> /\ cfgPts = <<>> /\ running
      /\ cfg = [i \in ID |-> db[i]] /\ now = [day |-> FirstDay, min |-> 0]
  BY DEF Init
<1>2. DOMAIN db = ID \cup Device
  BY <1>1, RuleAssumption
<1>3. Parts(db)
  <2>1. ASSUME NEW i \in Acts PROVE db[i].point \in Val /\ db[i].value \in Val
    <3> DEFINE T(c) == UNION {{c[j].point, c[j].value} : j \in Acts}
    <3>1. {db[i].point, db[i].value} \in {{db[j].point, db[j].value} : j \in Acts}
      OBVIOUS
    <3>2. db[i].point \in T(db) /\ db[i].value \in T(db)
      BY <3>1, Zenon
    <3>3. T(db) \in {T(c) : c \in Created}
      BY <1>1, Zenon
    <3> QED BY <3>2, <3>3, Zenon DEF Val
  <2>2. \A i \in ID : /\ IsRec(db[i]) /\ Results \subseteq DOMAIN db[i]
                      /\ "disabled" \in DOMAIN db[i] /\ "edge" \notin DOMAIN db[i]
    <3>1. \A i \in ID : /\ db[i] = [f \in DOMAIN db[i] |-> db[i][f]]
                        /\ {"active", "error", "disabled"} \subseteq DOMAIN db[i]
                        /\ "edge" \notin DOMAIN db[i]
      BY <1>1, ConfigAssumption
    <3> QED BY <3>1 DEF IsRec, Results
  <2>3. \A i \in Conds : /\ CondFields \subseteq DOMAIN db[i]
                         /\ db[i].sched \in Schedule /\ db[i].node \in Device \cup {""}
    BY <1>1, ConfigAssumption DEF CondFields
  <2>4. \A i \in Acts : ActFields \subseteq DOMAIN db[i] /\ db[i].node \in Device \cup {""}
    BY <1>1, ConfigAssumption DEF ActFields
  <2> QED BY <2>1, <2>2, <2>3, <2>4 DEF Parts
<1>4. DOMAIN cfg = ID /\ IsRec(cfg) /\ \A i \in ID : cfg[i] = db[i]
  BY <1>1 DEF IsRec
<1>5. Parts(cfg)
  BY <1>3, <1>4 DEF Parts, ID
<1>6. PubOk(pub)
  <2>1. pub \in Seq({}) /\ DOMAIN pub = {}
    BY <1>1
  <2> QED BY <2>1 DEF PubOk, IsSeq
<1>7. now \in Time /\ now.day = FirstDay /\ FirstDay \in Int /\ LastDay \in Int /\ FirstDay <= LastDay
  BY <1>1, RuleAssumption, MinutesAssumption DEF Time
<1>8. rulePts \in Seq(RuleMsg) /\ cfgPts \in Seq(Edits)
  BY <1>1
<1>9. Types
  BY <1>1, <1>2, <1>3, <1>4, <1>5, <1>6, <1>7, <1>8 DEF Types, Config
<1>10. Agree(db, cfg, <<>>, <<>>)
  BY <1>4, <1>5, AgreeEmpty
<1> QED BY <1>1, <1>9, <1>10 DEF Inv

\* Every step keeps the invariant.
LEMMA NextInv ==
    ASSUME Inv, [Next]_vars
    PROVE  Inv'
BY NewRulePointsStep, NewPointsStep, NewEdgePointsStep, TickStep, StopStep, StartStep, StoreStep,
   DeviceSendsStep, UserEditsStep, ClockStep, StutterStep DEF Next

-----------------------------------------------------------------------------
(* Conditions and the points that the store has *)

\* Points d of the store, messages q for newRulePoints: a point that a message
\* holds is in the store, with the value of the last message that holds it.
Known(d, q) ==
    \A n \in Device : \A f : (\E k \in DOMAIN q : Names(View(q[k]), n, f)) => f \in DOMAIN d[n]

Tells(d, q) ==
    \A n \in Device : \A f \in DOMAIN d[n] : \E v : Latest(Views(q), n, f, v, d[n][f])

\* The condition r holds what it says of the point before these messages.
Ok(d, r, q) ==
    Watches(r) =>
        /\ r.point \in DOMAIN d[r.node]
        /\ \E v : Latest(Views(q), r.node, r.point, v, d[r.node][r.point]) /\ r.active = Compare(r, v)

Follow(d, c, q, b) ==
    /\ Known(d, q)
    /\ Tells(d, q)
    /\ \A i \in Conds \ b : Ok(d, c[i], q)

FollowInv ==
    /\ running => Follow(db, cfg, rulePts, blind)
    /\ ~running => rulePts = <<>>

\* Of numbers in a row, if there are any, one is the last.
LEMMA LastOne ==
    ASSUME NEW n \in Nat, NEW S \in SUBSET (1 .. n), S # {}
    PROVE  \E k \in S : \A j \in S : j <= k
<1> DEFINE T == {m \in Nat : \A R \in SUBSET (1 .. m) : R # {} => \E k \in R : \A j \in R : j <= k}
<1>1. 0 \in T
  <2>1. 1 .. 0 = {}
    OBVIOUS
  <2>2. \A R \in SUBSET (1 .. 0) : R = {}
    BY <2>1
  <2> QED BY <2>2
<1>2. ASSUME NEW m \in T PROVE m + 1 \in T
  <2> SUFFICES ASSUME NEW R \in SUBSET (1 .. m + 1), R # {} PROVE \E k \in R : \A j \in R : j <= k
    OBVIOUS
  <2>1. CASE m + 1 \in R
    BY <2>1
  <2>2. CASE m + 1 \notin R
    <3>1. R \in SUBSET (1 .. m)
      BY <2>2
    <3> QED BY <3>1
  <2> QED BY <2>1, <2>2
<1>3. T \in SUBSET Nat
  OBVIOUS
<1>4. T = Nat
  <2> HIDE DEF T
  <2> QED BY <1>1, <1>2, <1>3, SetInduction
<1> QED BY <1>4

\* The points that a view has.
LEMMA ViewNames ==
    ASSUME NEW m, Len(m.pts) \in Nat, DOMAIN m.pts = 1 .. Len(m.pts), NEW n, NEW f
    PROVE  Names(View(m), n, f) <=> m.id = n /\ \E k \in DOMAIN m.pts : m.pts[k].point = f
<1> DEFINE D == DOMAIN m.pts
           pt(k) == [id |-> m.id, field |-> m.pts[k].point, val |-> m.pts[k].value]
           L == {k \in D : \A j \in D : j > k => m.pts[j].point # m.pts[k].point}
<1>1. View(m) = {pt(k) : k \in L}
  BY DEF View
<1>2. \A k \in D : k \in Int
  OBVIOUS
<1>3. ASSUME NEW p \in View(m), p.id = n, p.field = f
      PROVE  m.id = n /\ \E k \in D : m.pts[k].point = f
  <2>1. PICK l \in L : p = pt(l)
    BY <1>1
  <2> QED BY <1>3, <2>1
<1>4. ASSUME m.id = n, NEW h \in D, m.pts[h].point = f PROVE Names(View(m), n, f)
  <2> DEFINE S == {k \in D : m.pts[k].point = f}
  <2>1. S \in SUBSET (1 .. Len(m.pts)) /\ S # {}
    BY <1>4
  <2>2. PICK k \in S : \A j \in S : j <= k
    <3> HIDE DEF S
    <3> QED BY <2>1, LastOne
  <2>3. k \in L
    BY <1>2, <2>2
  <2>4. pt(k) \in View(m)
    BY <1>1, <2>3
  <2>5. pt(k).id = n /\ pt(k).field = f
    BY <1>4
  <2> QED BY <2>4, <2>5 DEF Names
<1> QED BY <1>3, <1>4 DEF Names

\* A view has the last value of a point.
LEMMA ViewValue ==
    ASSUME NEW m, Len(m.pts) \in Nat, DOMAIN m.pts = 1 .. Len(m.pts), NEW k \in DOMAIN m.pts,
           NEW f, m.pts[k].point = f, \A j \in DOMAIN m.pts : j > k => m.pts[j].point # f,
           NEW p \in View(m), p.field = f
    PROVE  p.val = m.pts[k].value
<1>1. PICK l \in DOMAIN m.pts :
          /\ p = [id |-> m.id, field |-> m.pts[l].point, val |-> m.pts[l].value]
          /\ \A j \in DOMAIN m.pts : j > l => m.pts[j].point # m.pts[l].point
  BY DEF View
<1>2. m.pts[l].point = f /\ p.val = m.pts[l].value
  BY <1>1
<1>3. k \in Int /\ l \in Int
  OBVIOUS
<1>4. k = l
  BY <1>1, <1>2, <1>3
<1> QED BY <1>2, <1>4

\* A condition that is about the same and as active.
LEMMA OkSame ==
    ASSUME NEW d, NEW r, NEW e, NEW q, \A f \in CondFields : e[f] = r[f], e.active = r.active, Ok(d, r, q)
    PROVE  Ok(d, e, q)
<1>1. /\ Watches(e) <=> Watches(r)
      /\ \A v : Compare(e, v) = Compare(r, v)
      /\ e.node = r.node /\ e.point = r.point
  BY SameCond
<1> QED BY <1>1 DEF Ok

\* run for points that no condition is about.
LEMMA RunFollows ==
    ASSUME NEW c, Config(c), NEW e, Judged(c, e), NEW id, NEW pts, Len(pts) \in Nat, Effect(c, id, pts, e),
           NEW d, NEW q, NEW b, Follow(d, c, q, b), id \notin Device \/ pts = <<>>
    PROVE  Follow(d, e, q, b)
<1>1. ASSUME NEW i \in Conds \ b PROVE Ok(d, e[i], q)
  <2>1. \A f \in CondFields : e[i][f] = c[i][f]
    BY JudgedCond
  <2>2. CASE Watches(c[i])
    <3>1. \A k \in 1 .. Len(pts) : ~Hit(c[i], id, pts[k])
      <4>1. CASE id \notin Device
        BY <2>2, <4>1 DEF Watches, Hit
      <4>2. CASE pts = <<>>
        BY <4>2
      <4> QED BY <4>1, <4>2
    <3>2. e[i].active = c[i].active
      BY <2>2, <3>1 DEF Effect, Heard
    <3> QED BY <2>1, <3>2, OkSame DEF Follow
  <2>3. CASE ~Watches(c[i])
    <3>1. ~Watches(e[i])
      BY <2>1, <2>3, SameCond
    <3> QED BY <3>1 DEF Ok
  <2> QED BY <2>2, <2>3
<1> QED BY <1>1 DEF Follow

\* The first message has been handled.
LEMMA TailTells ==
    ASSUME NEW q, IsSeq(q), q # <<>>, NEW d, Known(d, q), Tells(d, q)
    PROVE  /\ Known(d, Tail(q)) /\ Tells(d, Tail(q))
           /\ \A n \in Device : \A f : Names(View(Head(q)), n, f) => f \in DOMAIN d[n]
<1>1. /\ Len(q) \in Nat /\ Len(q) > 0 /\ DOMAIN q = 1 .. Len(q) /\ DOMAIN Tail(q) = 1 .. Len(q) - 1
      /\ Head(q) = q[1] /\ \A k \in 1 .. Len(q) - 1 : Tail(q)[k] = q[k + 1]
  BY SeqTail
<1>2. Known(d, Tail(q))
  <2>1. \A k \in DOMAIN Tail(q) : k + 1 \in DOMAIN q /\ Tail(q)[k] = q[k + 1]
    BY <1>1
  <2> QED BY <2>1 DEF Known
<1>3. \A n \in Device : \A f : Names(View(Head(q)), n, f) => f \in DOMAIN d[n]
  <2>1. 1 \in DOMAIN q
    BY <1>1
  <2> QED BY <1>1, <2>1 DEF Known
<1>4. ASSUME NEW n \in Device, NEW f \in DOMAIN d[n]
      PROVE  \E v : Latest(Views(Tail(q)), n, f, v, d[n][f])
  <2>1. PICK v : Latest(Views(q), n, f, v, d[n][f])
    BY DEF Tells
  <2>2. PICK x : /\ Names(View(Head(q)), n, f) =>
                        \E p \in View(Head(q)) : p.id = n /\ p.field = f /\ x = p.val
                 /\ ~Names(View(Head(q)), n, f) => x = v
    <3>1. CASE Names(View(Head(q)), n, f)
      <4>1. PICK p \in View(Head(q)) : p.id = n /\ p.field = f
        BY <3>1 DEF Names
      <4> QED BY <3>1, <4>1
    <3>2. CASE ~Names(View(Head(q)), n, f)
      BY <3>2
    <3> QED BY <3>1, <3>2
  <2>3. Latest(Views(Tail(q)), n, f, x, d[n][f])
    BY <2>1, <2>2, ViewsTail
  <2> QED BY <2>3
<1> QED BY <1>2, <1>3, <1>4 DEF Tells

\* A condition that the message is not about.
LEMMA TailUnheard ==
    ASSUME NEW q, IsSeq(q), q # <<>>, NEW d, NEW r, Ok(d, r, q),
           Watches(r) => ~Names(View(Head(q)), r.node, r.point)
    PROVE  Ok(d, r, Tail(q))
<1> SUFFICES ASSUME Watches(r)
             PROVE  /\ r.point \in DOMAIN d[r.node]
                    /\ \E v : /\ Latest(Views(Tail(q)), r.node, r.point, v, d[r.node][r.point])
                              /\ r.active = Compare(r, v)
  BY DEF Ok
<1>1. r.point \in DOMAIN d[r.node]
  BY DEF Ok
<1>2. PICK v : Latest(Views(q), r.node, r.point, v, d[r.node][r.point]) /\ r.active = Compare(r, v)
  BY DEF Ok
<1>3. Latest(Views(Tail(q)), r.node, r.point, v, d[r.node][r.point])
  BY <1>2, ViewsTail
<1> QED BY <1>1, <1>2, <1>3

\* A condition that has heard it.
LEMMA TailHeard ==
    ASSUME NEW q, IsSeq(q), q # <<>>, NEW d, Known(d, q), Tells(d, q), NEW r, Watches(r),
           NEW p \in View(Head(q)), p.id = r.node, p.field = r.point, r.active = Compare(r, p.val)
    PROVE  Ok(d, r, Tail(q))
<1> DEFINE n == r.node
           f == r.point
<1>1. Names(View(Head(q)), n, f) /\ n \in Device
  BY DEF Names, Watches
<1>2. f \in DOMAIN d[n]
  BY <1>1, TailTells
<1>3. PICK v : Latest(Views(q), n, f, v, d[n][f])
  BY <1>1, <1>2 DEF Tells
<1> DEFINE x == p.val
<1>4. \E y \in View(Head(q)) : y.id = n /\ y.field = f /\ x = y.val
  OBVIOUS
<1> HIDE DEF x
<1>5. Latest(Views(Tail(q)), n, f, x, d[n][f])
  BY <1>1, <1>3, <1>4, ViewsTail
<1> QED BY <1>2, <1>5 DEF Ok, x

\* newRulePoints
LEMMA NewRulePointsFollow ==
    ASSUME Inv, FollowInv, NewRulePoints
    PROVE  FollowInv'
<1> DEFINE m == Head(rulePts)
           found == \E i \in Conds : cfg[i].type = "pointValue" /\ cfg[i].node = m.id
           seen == Concerned(m.id, m.pts)
           off == cfg[Rule].disabled
<1>1. /\ running /\ rulePts # <<>> /\ rulePts' = Tail(rulePts) /\ running' = running /\ db' = db
      /\ \/ /\ found /\ Run(cfg, m.id, m.pts) /\ blind' = IF off THEN blind \cup seen ELSE blind \ seen
         \/ ~found /\ blind' = blind \cup seen /\ UNCHANGED <<cfg, pub>>
  BY DEF NewRulePoints
<1>2. Known(db, rulePts) /\ Tells(db, rulePts) /\ \A i \in Conds \ blind : Ok(db, cfg[i], rulePts)
  BY <1>1 DEF FollowInv, Follow
<1>3. rulePts \in Seq(RuleMsg) /\ Config(cfg) /\ PubOk(pub)
  BY DEF Inv, Types
<1>4. IsSeq(rulePts)
  BY <1>3 DEF IsSeq
<1>5. m \in RuleMsg
  BY <1>1, <1>3
<1>6. Len(m.pts) \in Nat /\ DOMAIN m.pts = 1 .. Len(m.pts)
  <2> HIDE DEF m
  <2>1. CASE m \in Batches
    BY <2>1, ConfigAssumption
  <2>2. CASE m \in [id : Device, pts : Seq([point : Val, value : Val, time : Time])]
    BY <2>2
  <2> QED BY <1>5, <2>1, <2>2 DEF RuleMsg
<1>7. Known(db, Tail(rulePts)) /\ Tells(db, Tail(rulePts))
  BY <1>1, <1>2, <1>4, TailTells
<1>8. ASSUME NEW i \in Conds, Watches(cfg[i])
      PROVE  /\ Names(View(m), cfg[i].node, cfg[i].point) <=> i \in seen
             /\ i \in seen <=> \E k \in DOMAIN m.pts : Hit(cfg[i], m.id, m.pts[k])
             /\ i \in seen => found
  <2>1. i \in seen <=> \E k \in DOMAIN m.pts : Hit(cfg[i], m.id, m.pts[k])
    BY <1>8, WatchConcerns DEF Concerned
  <2> HIDE DEF m
  <2> DEFINE n == cfg[i].node
             f == cfg[i].point
  <2>2. Names(View(m), n, f) <=> m.id = n /\ \E k \in DOMAIN m.pts : m.pts[k].point = f
    <3> HIDE DEF n, f
    <3> QED BY <1>6, ViewNames
  <2>3. (\E k \in DOMAIN m.pts : Hit(cfg[i], m.id, m.pts[k]))
            <=> m.id = cfg[i].node /\ \E k \in DOMAIN m.pts : m.pts[k].point = cfg[i].point
    BY DEF Hit
  <2>4. i \in seen => found
    BY <1>8, <2>1, <2>3 DEF Watches
  <2> HIDE DEF seen, found
  <2> QED BY <2>1, <2>2, <2>3, <2>4
<1> HIDE DEF seen, found
<1>9. ASSUME NEW i \in Conds \ blind, i \notin seen PROVE Ok(db, cfg[i], Tail(rulePts))
  <2>1. Ok(db, cfg[i], rulePts)
    BY <1>2
  <2>2. Watches(cfg[i]) => ~Names(View(m), cfg[i].node, cfg[i].point)
    BY <1>8, <1>9
  <2> QED BY <1>1, <1>4, <2>1, <2>2, TailUnheard
<1>10. CASE ~found
  <2>1. ASSUME NEW i \in Conds \ blind' PROVE Ok(db, cfg[i], Tail(rulePts))
    BY <1>1, <1>9, <1>10
  <2>2. cfg' = cfg
    BY <1>1, <1>10
  <2> QED BY <1>1, <1>7, <2>1, <2>2 DEF FollowInv, Follow
<1>11. CASE found
  <2>1. /\ Run(cfg, m.id, m.pts) /\ blind' = IF off THEN blind \cup seen ELSE blind \ seen
    BY <1>1, <1>11
  <2>2. Judged(cfg, cfg') /\ Effect(cfg, m.id, m.pts, cfg')
    BY <1>3, <1>6, <2>1, RunStep
  <2>3. ASSUME NEW i \in Conds \ blind' PROVE Ok(db, cfg'[i], Tail(rulePts))
    <3> DEFINE r == cfg[i]
               e == cfg'[i]
    <3>1. \A f \in CondFields : e[f] = r[f]
      BY <1>3, <2>2, JudgedCond
    <3>2. /\ (Watches(e) <=> Watches(r)) /\ e.node = r.node /\ e.point = r.point
          /\ \A v : Compare(e, v) = Compare(r, v)
      <4> HIDE DEF r, e
      <4> QED BY <3>1, SameCond
    <3>3. CASE ~Watches(r)
      BY <3>2, <3>3 DEF Ok
    <3>4. CASE Watches(r) /\ i \notin seen
      <4>1. i \notin blind
        BY <2>1, <2>3, <3>4
      <4>2. Ok(db, r, Tail(rulePts))
        BY <1>9, <3>4, <4>1
      <4>3. e.active = r.active
        <5>1. \A k \in 1 .. Len(m.pts) : ~Hit(r, m.id, m.pts[k])
          BY <1>6, <1>8, <3>4
        <5>2. /\ off => e.active = r.active
              /\ ~off => Heard(r, m.id, m.pts, Len(m.pts), e.active)
          BY <2>2, <3>4 DEF Effect
        <5> HIDE DEF off, r, e, m
        <5> QED BY <5>1, <5>2 DEF Heard
      <4> HIDE DEF r, e
      <4>4. Ok(db, e, Tail(rulePts))
        BY <3>1, <4>2, <4>3, OkSame
      <4> QED BY <4>4 DEF e
    <3>5. CASE Watches(r) /\ i \in seen
      <4>1. ~off
        BY <2>1, <2>3, <3>5
      <4>2. Heard(r, m.id, m.pts, Len(m.pts), e.active)
        BY <2>2, <3>5, <4>1 DEF Effect
      <4> DEFINE S == {k \in DOMAIN m.pts : Hit(r, m.id, m.pts[k])}
      <4>3. S # {} /\ S \in SUBSET (1 .. Len(m.pts))
        BY <1>6, <1>8, <3>5
      <4>4. PICK k \in S : \A j \in S : j <= k
        <5> HIDE DEF S, m
        <5> QED BY <1>6, <4>3, LastOne
      <4>5. /\ k \in DOMAIN m.pts /\ Hit(r, m.id, m.pts[k])
            /\ \A j \in DOMAIN m.pts : j > k => ~Hit(r, m.id, m.pts[j])
        BY <1>6, <4>4
      <4>6. e.active = Compare(r, m.pts[k].value)
        <5> HIDE DEF r, e, m, S
        <5> QED BY <1>6, <4>2, <4>5 DEF Heard
      <4>7. Names(View(m), r.node, r.point)
        BY <1>8, <3>5
      <4>8. PICK p \in View(m) : p.id = r.node /\ p.field = r.point
        BY <4>7 DEF Names
      <4>9. p.val = m.pts[k].value
        <5> HIDE DEF r, e, m, S
        <5>1. /\ m.id = r.node /\ m.pts[k].point = r.point
              /\ \A j \in DOMAIN m.pts : j > k => m.pts[j].point # r.point
          BY <4>5 DEF Hit
        <5> QED BY <1>6, <4>5, <4>8, <5>1, ViewValue
      <4>10. Watches(e) /\ p.id = e.node /\ p.field = e.point /\ e.active = Compare(e, p.val)
        BY <3>2, <3>5, <4>6, <4>8, <4>9
      <4> HIDE DEF r, e
      <4>11. Ok(db, e, Tail(rulePts))
        BY <1>1, <1>2, <1>4, <4>8, <4>10, TailHeard
      <4> QED BY <4>11 DEF e
    <3> QED BY <3>3, <3>4, <3>5
  <2> QED BY <1>1, <1>7, <2>3 DEF FollowInv, Follow
<1> QED BY <1>10, <1>11

\* The same messages, and the same points of other nodes.
LEMMA FollowSame ==
    ASSUME NEW d, NEW e, NEW c, NEW q, NEW b, Follow(d, c, q, b),
           \A n \in Device : DOMAIN e[n] = DOMAIN d[n] /\ \A f \in DOMAIN d[n] : e[n][f] = d[n][f]
    PROVE  Follow(e, c, q, b)
<1>1. Known(e, q) /\ Tells(e, q)
  BY DEF Follow, Known, Tells
<1>2. ASSUME NEW i \in Conds \ b PROVE Ok(e, c[i], q)
  <2>1. Ok(d, c[i], q)
    BY DEF Follow
  <2>2. Watches(c[i]) => c[i].node \in Device
    BY DEF Watches
  <2> QED BY <2>1, <2>2 DEF Ok
<1> QED BY <1>1, <1>2 DEF Follow

\* newPoints
LEMMA NewPointsFollow ==
    ASSUME Inv, FollowInv, NewPoints
    PROVE  FollowInv'
<1> DEFINE m == Head(cfgPts)
           c == [cfg EXCEPT ![m.id][m.field] = m.val]
           none == <<>>
<1>1. /\ running /\ cfgPts # <<>> /\ UNCHANGED <<db, running, rulePts>> /\ Run(c, "", none)
      /\ blind' = IF m.id \in Conds /\ m.field # "disabled" THEN blind \cup {m.id} ELSE blind
  BY DEF NewPoints
<1>2. Config(cfg) /\ PubOk(pub) /\ cfgPts \in Seq(Edits)
  BY DEF Inv, Types
<1>3. m \in Edits /\ Len(none) \in Nat /\ none = <<>>
  <2>1. cfgPts # <<>> /\ cfgPts \in Seq(Edits)
    BY <1>1, <1>2
  <2>2. m \in Edits
    BY <2>1
  <2> QED BY <2>2
<1> HIDE DEF none
<1>4. m.id \in ID /\ m.field \notin Results
  BY <1>3, ConfigAssumption DEF Results
<1>5. Edited(cfg, c, m) /\ DOMAIN c = ID /\ IsRec(c)
  <2>1. DOMAIN cfg = ID /\ \A i \in ID : IsRec(cfg[i])
    BY <1>2 DEF Config, Parts
  <2> HIDE DEF m
  <2> QED BY <1>4, <2>1, EditEffect
<1> HIDE DEF c, m
<1>6. Config(c)
  <2>1. Parts(c)
    BY <1>2, <1>3, <1>5, EditedParts DEF Config
  <2> QED BY <1>5, <2>1 DEF Config
<1>7. Follow(db, cfg, rulePts, blind)
  BY <1>1 DEF FollowInv
<1>8. ASSUME NEW i \in Conds \ blind' PROVE Ok(db, c[i], rulePts)
  <2>1. i \in ID /\ i \notin blind /\ (i # m.id \/ m.field = "disabled")
    BY <1>1 DEF ID
  <2>2. CondFields \subseteq DOMAIN cfg[i] /\ "active" \in DOMAIN cfg[i]
    BY <1>2, <2>1 DEF Config, Parts, Results
  <2>3. (\A f \in CondFields : c[i][f] = cfg[i][f]) /\ c[i].active = cfg[i].active
    BY <1>4, <1>5, <2>1, <2>2 DEF Edited, CondFields, Results
  <2>4. Ok(db, cfg[i], rulePts)
    BY <1>7, <2>1 DEF Follow
  <2> QED BY <2>3, <2>4, OkSame
<1>9. Follow(db, c, rulePts, blind')
  BY <1>7, <1>8 DEF Follow
<1>10. Judged(c, cfg') /\ Effect(c, "", none, cfg')
  BY <1>1, <1>2, <1>3, <1>6, RunStep
<1>11. Follow(db, cfg', rulePts, blind')
  BY <1>3, <1>6, <1>9, <1>10, RunFollows
<1> QED BY <1>1, <1>11 DEF FollowInv

\* newEdgePoints
LEMMA NewEdgePointsFollow ==
    ASSUME Inv, FollowInv, NewEdgePoints
    PROVE  FollowInv'
<1> DEFINE none == <<>>
<1>1. running /\ UNCHANGED <<db, running, rulePts, blind>> /\ Run(cfg, "", none)
  BY DEF NewEdgePoints
<1>2. Config(cfg) /\ PubOk(pub) /\ Len(none) \in Nat /\ none = <<>>
  BY DEF Inv, Types
<1> HIDE DEF none
<1>3. Judged(cfg, cfg') /\ Effect(cfg, "", none, cfg')
  BY <1>1, <1>2, RunStep
<1>4. Follow(db, cfg', rulePts, blind)
  BY <1>1, <1>2, <1>3, RunFollows DEF FollowInv
<1> QED BY <1>1, <1>4 DEF FollowInv

\* scheduleTicker
LEMMA TickFollow ==
    ASSUME Inv, FollowInv, Tick
    PROVE  FollowInv'
<1> DEFINE one == <<Trigger>>
<1>1. running /\ UNCHANGED <<db, running, rulePts, blind>> /\ Run(cfg, Rule, one)
  BY DEF Tick
<1>2. Config(cfg) /\ PubOk(pub) /\ Len(one) \in Nat /\ Rule \notin Device
  BY RuleAssumption DEF Inv, Types, ID
<1> HIDE DEF one
<1>3. Judged(cfg, cfg') /\ Effect(cfg, Rule, one, cfg')
  BY <1>1, <1>2, RunStep
<1>4. Follow(db, cfg', rulePts, blind)
  BY <1>1, <1>2, <1>3, RunFollows DEF FollowInv
<1> QED BY <1>1, <1>4 DEF FollowInv

\* No condition has heard anything, and nothing is on its way.
LEMMA FollowEmpty ==
    ASSUME NEW d, NEW c
    PROVE  Follow(d, c, <<>>, Conds)
<1>1. Views(<<>>) = <<>>
  BY DEF Views
<1>2. Known(d, <<>>)
  BY DEF Known
<1>3. Tells(d, <<>>)
  <2>1. \A n, f, v : Latest(<<>>, n, f, v, v)
    BY LatestEmpty
  <2> QED BY <1>1, <2>1 DEF Tells
<1> QED BY <1>2, <1>3 DEF Follow

\* Without messages a condition says what the store has.
LEMMA OkEmpty ==
    ASSUME NEW d, NEW r, Ok(d, r, <<>>), Watches(r)
    PROVE  r.active = Compare(r, d[r.node][r.point])
<1>1. Views(<<>>) = <<>>
  BY DEF Views
<1>2. PICK v : Latest(<<>>, r.node, r.point, v, d[r.node][r.point]) /\ r.active = Compare(r, v)
  BY <1>1 DEF Ok
<1> DEFINE x == d[r.node][r.point]
<1>3. Latest(<<>>, r.node, r.point, v, x)
  BY <1>2
<1> HIDE DEF x
<1>4. v = x
  BY <1>3, LatestEmpty
<1> QED BY <1>2, <1>4 DEF x

\* Start
LEMMA StartFollow ==
    ASSUME FollowInv, Start
    PROVE  FollowInv'
<1>1. running' /\ rulePts' = <<>> /\ blind' = Conds
  BY DEF Start, FollowInv
<1> QED BY <1>1, FollowEmpty DEF FollowInv

\* A user edits the rule.
LEMMA UserEditsFollow ==
    ASSUME Inv, FollowInv, UserEdits
    PROVE  FollowInv'
<1>1. PICK e \in Edits :
          /\ db' = IF e.field = "edge" THEN db ELSE [db EXCEPT ![e.id][e.field] = e.val]
          /\ UNCHANGED <<running, cfg, rulePts, blind>>
  BY DEF UserEdits
<1>2. e.id \in ID /\ DOMAIN db = ID \cup Device
  BY ConfigAssumption DEF Inv, Types
<1>3. ASSUME NEW n \in Device PROVE db'[n] = db[n]
  <2>1. n # e.id /\ n \in DOMAIN db
    BY <1>2, RuleAssumption
  <2> QED BY <1>1, <2>1
<1>4. running => Follow(db', cfg, rulePts, blind)
  BY <1>3, FollowSame DEF FollowInv
<1> QED BY <1>1, <1>4 DEF FollowInv

\* Steps that leave the conditions, other nodes and the messages alone.
LEMMA OtherFollow ==
    ASSUME FollowInv, Stop \/ Clock \/ UNCHANGED vars
    PROVE  FollowInv'
<1>1. CASE Stop
  BY <1>1 DEF Stop, FollowInv
<1>2. CASE Clock \/ UNCHANGED vars
  <2>1. UNCHANGED <<db, cfg, rulePts, blind, running>>
    BY <1>2 DEF Clock, vars
  <2> QED BY <2>1 DEF FollowInv
<1> QED BY <1>1, <1>2

\* Messages t take the points of other nodes from d to e.
Takes(d, e, t) ==
    /\ \A n \in Device : DOMAIN d[n] \subseteq DOMAIN e[n]
    /\ Known(e, t)
    /\ \A n \in Device : \A f \in DOMAIN e[n] :
           \E w : (f \in DOMAIN d[n] => w = d[n][f]) /\ Latest(Views(t), n, f, w, e[n][f])

\* Points have been written, and messages about them are on their way.
LEMMA FollowGrows ==
    ASSUME NEW q, NEW t, NEW r, Joined(q, t, r), NEW d, NEW e, Takes(d, e, t),
           NEW c, NEW b, Follow(d, c, q, b)
    PROVE  Follow(e, c, r, b)
<1>0. /\ (\A n \in Device : DOMAIN d[n] \subseteq DOMAIN e[n]) /\ Known(e, t)
      /\ \A n \in Device : \A f \in DOMAIN e[n] :
             \E w : (f \in DOMAIN d[n] => w = d[n][f]) /\ Latest(Views(t), n, f, w, e[n][f])
  BY DEF Takes
<1>1. Known(d, q) /\ Tells(d, q) /\ \A i \in Conds \ b : Ok(d, c[i], q)
  BY DEF Follow
<1>2. ASSUME NEW k \in DOMAIN r
      PROVE  (\E j \in DOMAIN q : r[k] = q[j]) \/ \E j \in DOMAIN t : r[k] = t[j]
  <2>1. PICK n \in Nat, l \in Nat :
            /\ DOMAIN q = 1 .. n /\ DOMAIN t = 1 .. l /\ DOMAIN r = 1 .. n + l
            /\ (\A j \in 1 .. n : r[j] = q[j]) /\ \A j \in 1 .. l : r[n + j] = t[j]
    BY DEF Joined
  <2>2. CASE k <= n
    BY <2>1, <2>2
  <2>3. CASE k > n
    <3>1. k - n \in 1 .. l /\ n + (k - n) = k
      BY <2>1, <2>3
    <3> QED BY <2>1, <3>1
  <2> QED BY <2>1, <2>2, <2>3
<1>3. Known(e, r)
  <2> SUFFICES ASSUME NEW n \in Device, NEW f, NEW k \in DOMAIN r, Names(View(r[k]), n, f)
               PROVE  f \in DOMAIN e[n]
    BY DEF Known
  <2>1. CASE \E j \in DOMAIN q : r[k] = q[j]
    BY <1>0, <1>1, <2>1 DEF Known
  <2>2. CASE \E j \in DOMAIN t : r[k] = t[j]
    BY <1>0, <2>2 DEF Known
  <2> QED BY <1>2, <2>1, <2>2
<1>5. ASSUME NEW n \in Device, NEW f \in DOMAIN e[n], NEW v, NEW w,
             Latest(Views(q), n, f, v, w), Latest(Views(t), n, f, w, e[n][f])
      PROVE  Latest(Views(r), n, f, v, e[n][f])
  BY <1>5, ViewsConcat, LatestConcat
<1>6. ASSUME NEW n \in Device, NEW f \in DOMAIN e[n]
      PROVE  \E v : Latest(Views(r), n, f, v, e[n][f])
  <2>1. PICK w : (f \in DOMAIN d[n] => w = d[n][f]) /\ Latest(Views(t), n, f, w, e[n][f])
    BY <1>0
  <2>2. CASE f \in DOMAIN d[n]
    <3>1. PICK v : Latest(Views(q), n, f, v, d[n][f])
      BY <1>1, <2>2 DEF Tells
    <3> QED BY <1>5, <2>1, <2>2, <3>1
  <2>3. CASE f \notin DOMAIN d[n]
    <3>1. \A k \in DOMAIN q : ~Names(View(q[k]), n, f)
      BY <1>1, <2>3 DEF Known
    <3>2. \A k \in DOMAIN Views(q) : ~Names(Views(q)[k], n, f)
      BY <3>1 DEF Views
    <3>3. Latest(Views(q), n, f, w, w)
      BY <3>2 DEF Latest
    <3> QED BY <1>5, <2>1, <3>3
  <2> QED BY <2>2, <2>3
<1>7. ASSUME NEW i \in Conds \ b PROVE Ok(e, c[i], r)
  <2> DEFINE n == c[i].node
             f == c[i].point
  <2> SUFFICES ASSUME Watches(c[i])
               PROVE  /\ f \in DOMAIN e[n]
                      /\ \E v : Latest(Views(r), n, f, v, e[n][f]) /\ c[i].active = Compare(c[i], v)
    BY DEF Ok
  <2>1. n \in Device
    BY DEF Watches
  <2>2. PICK v : f \in DOMAIN d[n] /\ Latest(Views(q), n, f, v, d[n][f]) /\ c[i].active = Compare(c[i], v)
    BY <1>1 DEF Ok
  <2> HIDE DEF n, f
  <2>3. f \in DOMAIN e[n]
    BY <1>0, <2>1, <2>2
  <2>4. Latest(Views(t), n, f, d[n][f], e[n][f])
    BY <1>0, <2>1, <2>2, <2>3
  <2>5. Latest(Views(r), n, f, v, e[n][f])
    BY <1>5, <2>1, <2>2, <2>3, <2>4
  <2> QED BY <2>2, <2>3, <2>5
<1>8. Tells(e, r)
  BY <1>6 DEF Tells
<1> QED BY <1>3, <1>7, <1>8 DEF Follow

\* What a node has after points are written in their order.
LEMMA WrittenRow ==
    ASSUME NEW nodes, NEW l \in Nat, NEW sets, DOMAIN sets = 1 .. l, NEW n \in DOMAIN nodes,
           NEW w, w = Written(nodes, sets)[n]
    PROVE  /\ DOMAIN nodes[n] \subseteq DOMAIN w
           /\ \A k \in DOMAIN sets : sets[k].id = n => sets[k].field \in DOMAIN w
           /\ \A f \in DOMAIN w : Latest(Singles(sets), n, f, nodes[n][f], w[f])
<1> DEFINE at(i) == {k \in DOMAIN sets : sets[k].id = i}
           of(i, f) == {k \in at(i) : sets[k].field = f}
           x(i, f) == IF of(i, f) = {} THEN nodes[i][f] ELSE sets[Max(of(i, f))].val
           new(i) == {sets[k].field : k \in at(i)}
<1>1. Written(nodes, sets) = [i \in DOMAIN nodes |-> [f \in DOMAIN nodes[i] \cup new(i) |-> x(i, f)]]
  BY DEF Written
<1> HIDE DEF x
<1>2. DOMAIN w = DOMAIN nodes[n] \cup new(n) /\ \A f \in DOMAIN w : w[f] = x(n, f)
  BY <1>1
<1>3. ASSUME NEW f \in DOMAIN w PROVE Latest(Singles(sets), n, f, nodes[n][f], w[f])
  <2> DEFINE S == Singles(sets)
  <2>1. DOMAIN S = DOMAIN sets /\ \A k \in DOMAIN sets : S[k] = {sets[k]}
    BY DEF Singles, Single
  <2>2. \A k \in DOMAIN sets : Names(S[k], n, f) <=> k \in of(n, f)
    BY <2>1 DEF Names
  <2>3. ASSUME \A k \in DOMAIN S : ~Names(S[k], n, f) PROVE w[f] = nodes[n][f]
    <3>1. of(n, f) = {}
      BY <2>1, <2>2, <2>3
    <3>2. x(n, f) = nodes[n][f]
      BY <3>1, Zenon DEF x
    <3> QED BY <1>2, <3>2
  <2>4. ASSUME NEW k \in DOMAIN S, Names(S[k], n, f), \A j \in DOMAIN S : j > k => ~Names(S[j], n, f),
               NEW p \in S[k]
        PROVE  p.val = w[f]
    <3> DEFINE O == of(n, f)
    <3>1. k \in O /\ O # {} /\ O \subseteq 1 .. l /\ \A j \in O : ~(j > k)
      BY <2>1, <2>2, <2>4
    <3>2. x(n, f) = sets[Max(O)].val
      BY <3>1, Zenon DEF x
    <3> HIDE DEF O
    <3>3. k \in O /\ \A j \in O : k >= j
      BY <3>1
    <3>4. \A h \in O : (\A j \in O : h >= j) => h = k
      BY <3>1, <3>3
    <3>5. Max(O) = CHOOSE h \in O : \A j \in O : h >= j
      BY Zenon DEF Max
    <3>6. Max(O) = k
      BY <3>3, <3>4, <3>5, Zenon
    <3> QED BY <1>2, <2>1, <2>4, <3>2, <3>6
  <2> QED BY <2>3, <2>4 DEF Latest
<1> QED BY <1>2, <1>3

\* A message that the store makes of a point that an action sets.
Up(p, t) == [id |-> p.id, pts |-> <<[point |-> p.field, value |-> p.val, time |-> t]>>]

\* It has this point only.
LEMMA ViewUp ==
    ASSUME NEW p \in SetPoint, NEW t
    PROVE  View(Up(p, t)) = {p}
<1> DEFINE pts == <<[point |-> p.field, value |-> p.val, time |-> t]>>
           u == Up(p, t)
<1>1. u.id = p.id /\ u.pts = pts
  BY DEF Up
<1>2. DOMAIN pts = {1} /\ pts[1].point = p.field /\ pts[1].value = p.val
  OBVIOUS
<1> HIDE DEF pts, u
<1>3. {k \in DOMAIN u.pts : \A j \in DOMAIN u.pts : j > k => u.pts[j].point # u.pts[k].point} = {1}
  BY <1>1, <1>2
<1>4. View(u) = {[id |-> u.id, field |-> u.pts[k].point, val |-> u.pts[k].value] : k \in {1}}
  BY <1>3 DEF View
<1>5. View(u) = {[id |-> p.id, field |-> p.field, val |-> p.val]}
  BY <1>1, <1>2, <1>4
<1>6. [id |-> p.id, field |-> p.field, val |-> p.val] = p
  BY DEF SetPoint
<1> QED BY <1>5, <1>6 DEF u

\* Points that actions set have been stored, and messages about them sent.
LEMMA SetsFollow ==
    ASSUME NEW d, Device \subseteq DOMAIN d, NEW c, NEW q, IsSeq(q), NEW b, Follow(d, c, q, b),
           NEW sets \in Seq(SetPoint), NEW t
    PROVE  Follow(Written(d, sets), c, q \o [k \in DOMAIN sets |-> Up(sets[k], t)], b)
<1> DEFINE l == Len(sets)
           ups == [k \in DOMAIN sets |-> Up(sets[k], t)]
           r == q \o ups
           e == Written(d, sets)
<1>1. l \in Nat /\ DOMAIN sets = 1 .. l /\ \A k \in 1 .. l : sets[k] \in SetPoint
  OBVIOUS
<1>2. DOMAIN ups = 1 .. l /\ \A k \in 1 .. l : ups[k] = Up(sets[k], t)
  BY <1>1
<1>3. ups \in Seq({Up(sets[k], t) : k \in 1 .. l})
  <2> DEFINE U == {Up(sets[k], t) : k \in 1 .. l}
  <2>1. ups \in [1 .. l -> U]
    BY <1>1
  <2> HIDE DEF ups, l, U
  <2>2. ups \in Seq(U)
    BY <1>1, <2>1
  <2> QED BY <2>2 DEF U
<1> HIDE DEF ups, l
<1>4. Len(ups) = l
  BY <1>1, <1>2, <1>3
<1>5. Joined(q, ups, r)
  <2>1. PICK S : q \in Seq(S)
    BY DEF IsSeq
  <2> DEFINE T == S \cup {Up(sets[k], t) : k \in 1 .. l}
  <2>2. q \in Seq(T) /\ ups \in Seq(T)
    BY <1>3, <2>1
  <2> HIDE DEF T
  <2>3. /\ Len(q) \in Nat /\ DOMAIN q = 1 .. Len(q) /\ DOMAIN r = 1 .. Len(q) + l
        /\ \A k \in 1 .. Len(q) : r[k] = q[k]
        /\ \A k \in 1 .. l : r[Len(q) + k] = ups[k]
    BY <1>1, <1>4, <2>2
  <2> HIDE DEF r
  <2> QED BY <1>1, <1>2, <2>3 DEF Joined
<1>6. Views(ups) = Singles(sets)
  <2>1. \A k \in 1 .. l : View(ups[k]) = Single(sets[k])
    BY <1>1, <1>2, ViewUp DEF Single
  <2> QED BY <1>1, <1>2, <2>1 DEF Views, Singles
<1> HIDE DEF r, e
<1>7. ASSUME NEW n \in Device
      PROVE  /\ DOMAIN d[n] \subseteq DOMAIN e[n]
             /\ \A k \in 1 .. l : sets[k].id = n => sets[k].field \in DOMAIN e[n]
             /\ \A f \in DOMAIN e[n] : Latest(Singles(sets), n, f, d[n][f], e[n][f])
  <2> DEFINE w == e[n]
  <2>1. w = Written(d, sets)[n]
    BY DEF e
  <2> HIDE DEF w
  <2>2. n \in DOMAIN d
    OBVIOUS
  <2>3. /\ DOMAIN d[n] \subseteq DOMAIN w
        /\ \A k \in DOMAIN sets : sets[k].id = n => sets[k].field \in DOMAIN w
        /\ \A f \in DOMAIN w : Latest(Singles(sets), n, f, d[n][f], w[f])
    BY <1>1, <2>1, <2>2, WrittenRow
  <2> QED BY <1>1, <2>3 DEF w
<1>8. Known(e, ups)
  <2> SUFFICES ASSUME NEW n \in Device, NEW f, NEW k \in DOMAIN ups, Names(View(ups[k]), n, f)
               PROVE  f \in DOMAIN e[n]
    BY DEF Known
  <2>1. View(ups[k]) = {sets[k]}
    BY <1>1, <1>2, ViewUp
  <2>2. sets[k].id = n /\ sets[k].field = f
    BY <2>1 DEF Names
  <2> QED BY <1>2, <1>7, <2>2
<1>9. \A n \in Device : \A f \in DOMAIN e[n] :
          \E w : (f \in DOMAIN d[n] => w = d[n][f]) /\ Latest(Views(ups), n, f, w, e[n][f])
  BY <1>6, <1>7
<1>10. \A n \in Device : DOMAIN d[n] \subseteq DOMAIN e[n]
  BY <1>7
<1>11. Takes(d, e, ups)
  BY <1>8, <1>9, <1>10 DEF Takes
<1>12. Follow(e, c, r, b)
  BY <1>5, <1>11, FollowGrows
<1> QED BY <1>12 DEF e, r, ups

\* The store handles what the rule has sent.
LEMMA StoreFollow ==
    ASSUME Inv, FollowInv, Store
    PROVE  FollowInv'
<1> DEFINE m == Head(pub)
           r(i, f) == IF \E p \in m.own : p.id = i /\ p.field = f
                      THEN (CHOOSE p \in m.own : p.id = i /\ p.field = f).val
                      ELSE db[i][f]
           own == [i \in DOMAIN db |-> [f \in DOMAIN db[i] |-> r(i, f)]]
           ups == [k \in DOMAIN m.sets |-> Up(m.sets[k], now)]
<1>1. /\ pub # <<>> /\ db' = Written(own, m.sets)
      /\ rulePts' = IF running THEN rulePts \o ups ELSE rulePts
      /\ UNCHANGED <<running, cfg, blind>>
  BY DEF Store, Up
<1>2. /\ DOMAIN db = ID \cup Device /\ rulePts \in Seq(RuleMsg)
      /\ IsSeq(pub) /\ \A k \in DOMAIN pub : Sent(pub[k])
  BY DEF Inv, Types, PubOk
<1>3. m.sets \in Seq(SetPoint) /\ \A p \in m.own : p.id \in ID
  <2>1. Len(pub) \in Nat /\ Len(pub) > 0 /\ DOMAIN pub = 1 .. Len(pub) /\ m = pub[1]
    BY <1>1, <1>2, SeqTail
  <2>2. 1 \in DOMAIN pub
    BY <2>1
  <2> QED BY <1>2, <2>1, <2>2 DEF Sent
<1> DEFINE sets == m.sets
<1>4. ASSUME NEW n \in Device, NEW f PROVE r(n, f) = db[n][f]
  <2>1. ~\E p \in m.own : p.id = n /\ p.field = f
    BY <1>3, RuleAssumption
  <2> QED BY <2>1, Zenon
<1> HIDE DEF r
<1>5. /\ DOMAIN own = DOMAIN db
      /\ \A i \in DOMAIN db : own[i] = [f \in DOMAIN db[i] |-> r(i, f)]
  OBVIOUS
<1> HIDE DEF own, m, sets
<1>6. CASE ~running
  BY <1>1, <1>6 DEF FollowInv
<1>7. CASE running
  <2>1. Follow(db, cfg, rulePts, blind)
    BY <1>7 DEF FollowInv
  <2>2. Follow(own, cfg, rulePts, blind)
    <3>1. \A n \in Device : DOMAIN own[n] = DOMAIN db[n] /\ \A f \in DOMAIN db[n] : own[n][f] = db[n][f]
      BY <1>2, <1>4, <1>5
    <3> QED BY <2>1, <3>1, FollowSame
  <2>3. IsSeq(rulePts) /\ Device \subseteq DOMAIN own /\ sets \in Seq(SetPoint)
    BY <1>2, <1>3, <1>5 DEF IsSeq, sets
  <2>4. Follow(Written(own, sets), cfg, rulePts \o [k \in DOMAIN sets |-> Up(sets[k], now)], blind)
    BY <2>2, <2>3, SetsFollow
  <2> QED BY <1>1, <1>7, <2>4 DEF FollowInv, sets
<1> QED BY <1>6, <1>7

\* A device sends points.
LEMMA DeviceSendsFollow ==
    ASSUME Inv, FollowInv, DeviceSends
    PROVE  FollowInv'
<1> DEFINE sets(b) == [k \in DOMAIN b.pts |->
                          [id |-> b.id, field |-> b.pts[k].point, val |-> b.pts[k].value]]
<1>1. PICK b \in Batches : /\ db' = Written(db, sets(b))
                           /\ rulePts' = IF running THEN Append(rulePts, b) ELSE rulePts
                           /\ UNCHANGED <<running, cfg, blind>>
  BY DEF DeviceSends
<1> DEFINE s == sets(b)
           l == Len(b.pts)
           t == <<b>>
<1>2. l \in Nat /\ DOMAIN b.pts = 1 .. l /\ b.id \in Device
  BY ConfigAssumption
<1>3. /\ DOMAIN s = 1 .. l
      /\ \A k \in 1 .. l : s[k].id = b.id /\ s[k].field = b.pts[k].point /\ s[k].val = b.pts[k].value
  BY <1>2
<1>4. db' = Written(db, s)
  BY <1>1
<1> HIDE DEF s
<1>5. DOMAIN db = ID \cup Device /\ rulePts \in Seq(RuleMsg)
  BY DEF Inv, Types
<1>6. IsSeq(rulePts)
  BY <1>5 DEF IsSeq
<1>7. CASE ~running
  BY <1>1, <1>7 DEF FollowInv
<1>8. CASE running
  <2>1. Follow(db, cfg, rulePts, blind)
    BY <1>8 DEF FollowInv
  <2>2. DOMAIN t = 1 .. 1 /\ t[1] = b
    OBVIOUS
  <2> HIDE DEF t
  <2>3. Joined(rulePts, t, Append(rulePts, b))
    <3> DEFINE a == Append(rulePts, b)
               n == Len(rulePts)
    <3>1. /\ n \in Nat /\ DOMAIN rulePts = 1 .. n /\ DOMAIN a = 1 .. n + 1
          /\ a[n + 1] = b /\ \A k \in 1 .. n : a[k] = rulePts[k]
      BY <1>6, SeqAppend
    <3> HIDE DEF a, n
    <3>2. \A k \in 1 .. 1 : a[n + k] = t[k]
      BY <2>2, <3>1
    <3>3. Joined(rulePts, t, a)
      BY <2>2, <3>1, <3>2 DEF Joined
    <3> QED BY <3>3 DEF a
  <2>4. DOMAIN Views(t) = 1 .. 1 /\ Views(t)[1] = View(b)
    BY <2>2 DEF Views
  <2>5. \A n, f : Names(View(b), n, f) <=> b.id = n /\ \E k \in DOMAIN b.pts : b.pts[k].point = f
    BY <1>2, ViewNames
  <2>6. ASSUME NEW n \in Device
        PROVE  /\ DOMAIN db[n] \subseteq DOMAIN db'[n]
               /\ \A k \in DOMAIN s : s[k].id = n => s[k].field \in DOMAIN db'[n]
               /\ \A f \in DOMAIN db'[n] : Latest(Singles(s), n, f, db[n][f], db'[n][f])
    <3> DEFINE w == db'[n]
    <3>1. w = Written(db, s)[n] /\ n \in DOMAIN db
      BY <1>4, <1>5
    <3> HIDE DEF w
    <3>2. /\ DOMAIN db[n] \subseteq DOMAIN w
          /\ \A k \in DOMAIN s : s[k].id = n => s[k].field \in DOMAIN w
          /\ \A f \in DOMAIN w : Latest(Singles(s), n, f, db[n][f], w[f])
      BY <1>2, <1>3, <3>1, WrittenRow
    <3> QED BY <3>2 DEF w
  <2>7. Known(db', t)
    <3> SUFFICES ASSUME NEW n \in Device, NEW f, Names(View(b), n, f) PROVE f \in DOMAIN db'[n]
      BY <2>2 DEF Known
    <3>1. PICK k \in DOMAIN b.pts : b.id = n /\ b.pts[k].point = f
      BY <2>5
    <3> QED BY <1>2, <1>3, <2>6, <3>1
  <2>8. ASSUME NEW n \in Device, NEW f \in DOMAIN db'[n]
        PROVE  Latest(Views(t), n, f, db[n][f], db'[n][f])
    <3> DEFINE v == db[n][f]
               x == db'[n][f]
    <3>1. Latest(Singles(s), n, f, v, x)
      BY <2>6
    <3>2. DOMAIN Singles(s) = 1 .. l /\ \A k \in 1 .. l : Singles(s)[k] = {s[k]}
      BY <1>3 DEF Singles, Single
    <3> HIDE DEF v, x
    <3>3. \A k \in 1 .. l : Names(Singles(s)[k], n, f) <=> b.id = n /\ b.pts[k].point = f
      BY <1>3, <3>2 DEF Names
    <3>4. CASE ~Names(View(b), n, f)
      <4>1. \A k \in 1 .. l : ~Names(Singles(s)[k], n, f)
        BY <1>2, <2>5, <3>3, <3>4
      <4>2. v = x
        BY <3>1, <3>2, <4>1 DEF Latest
      <4> QED BY <2>4, <3>4, <4>2 DEF Latest, v, x
    <3>5. CASE Names(View(b), n, f)
      <4> DEFINE S == {k \in 1 .. l : b.pts[k].point = f}
      <4>1. b.id = n /\ S # {} /\ S \in SUBSET (1 .. l)
        BY <1>2, <2>5, <3>5
      <4>2. PICK k \in S : \A j \in S : j <= k
        <5> HIDE DEF S, l
        <5> QED BY <1>2, <4>1, LastOne
      <4>3. k \in 1 .. l /\ b.pts[k].point = f /\ \A j \in 1 .. l : j > k => b.pts[j].point # f
        BY <1>2, <4>2
      <4>4. b.pts[k].value = x
        BY <1>3, <3>1, <3>2, <3>3, <4>1, <4>3 DEF Latest
      <4>5. \A p \in View(b) : p.field = f => p.val = x
        BY <1>2, <4>3, <4>4, ViewValue
      <4>6. Latest(Views(t), n, f, v, x)
        BY <2>4, <3>5, <4>5 DEF Latest
      <4> QED BY <4>6 DEF v, x
    <3> QED BY <3>4, <3>5
  <2> DEFINE e == db'
  <2>9. \A n \in Device : \A f \in DOMAIN e[n] :
            \E w : (f \in DOMAIN db[n] => w = db[n][f]) /\ Latest(Views(t), n, f, w, e[n][f])
    BY <2>8
  <2>10. (\A n \in Device : DOMAIN db[n] \subseteq DOMAIN e[n]) /\ Known(e, t)
    BY <2>6, <2>7
  <2> HIDE DEF e
  <2>11. Takes(db, e, t)
    BY <2>9, <2>10 DEF Takes
  <2>12. Follow(e, cfg, Append(rulePts, b), blind)
    BY <2>1, <2>3, <2>11, FollowGrows
  <2> QED BY <1>1, <1>8, <2>12 DEF FollowInv, e
<1> QED BY <1>7, <1>8

\* Every step keeps the agreement.
LEMMA NextFollow ==
    ASSUME Inv, FollowInv, [Next]_vars
    PROVE  FollowInv'
BY NewRulePointsFollow, NewPointsFollow, NewEdgePointsFollow, TickFollow, StartFollow, StoreFollow,
   DeviceSendsFollow, UserEditsFollow, OtherFollow DEF Next

-----------------------------------------------------------------------------
(* Points that actions set *)

\* The points that messages to the store set.
Outs(q) == [k \in DOMAIN q |-> ToSet(q[k].sets)]

\* The last message decides, whatever there was before.
LEMMA LatestLast ==
    ASSUME NEW n \in Nat, NEW r, DOMAIN r = 1 .. n + 1, NEW i, NEW f, NEW v, NEW x,
           Names(r[n + 1], i, f), \A p \in r[n + 1] : p.id = i /\ p.field = f => p.val = x
    PROVE  Latest(r, i, f, v, x)
<1>1. n + 1 \in DOMAIN r
  OBVIOUS
<1>2. ASSUME NEW k \in DOMAIN r, \A j \in DOMAIN r : j > k => ~Names(r[j], i, f)
      PROVE  k = n + 1
  BY <1>1, <1>2
<1> QED BY <1>1, <1>2 DEF Latest

\* If a message names a point it does not matter what the point was.
LEMMA LatestAny ==
    ASSUME NEW q, NEW i, NEW f, NEW v, NEW w, NEW y, Latest(q, i, f, v, w),
           \E k \in DOMAIN q : Names(q[k], i, f)
    PROVE  Latest(q, i, f, y, w)
BY DEF Latest

\* One more message of the rule.
LEMMA OutsAppend ==
    ASSUME NEW q, IsSeq(q), NEW m
    PROVE  \E n \in Nat : /\ DOMAIN Outs(q) = 1 .. n /\ DOMAIN Outs(Append(q, m)) = 1 .. n + 1
                          /\ Outs(Append(q, m))[n + 1] = ToSet(m.sets)
                          /\ \A k \in 1 .. n : Outs(Append(q, m))[k] = Outs(q)[k]
<1> DEFINE a == Append(q, m)
           n == Len(q)
<1>1. n \in Nat /\ DOMAIN q = 1 .. n /\ DOMAIN a = 1 .. n + 1 /\ a[n + 1] = m /\ \A k \in 1 .. n : a[k] = q[k]
  BY SeqAppend
<1> HIDE DEF a, n
<1>2. DOMAIN Outs(q) = 1 .. n /\ \A k \in 1 .. n : Outs(q)[k] = ToSet(q[k].sets)
  BY <1>1 DEF Outs
<1>3. DOMAIN Outs(a) = 1 .. n + 1 /\ \A k \in 1 .. n + 1 : Outs(a)[k] = ToSet(a[k].sets)
  BY <1>1 DEF Outs
<1>4. Outs(a)[n + 1] = ToSet(m.sets) /\ \A k \in 1 .. n : Outs(a)[k] = Outs(q)[k]
  BY <1>1, <1>2, <1>3
<1> QED BY <1>1, <1>2, <1>3, <1>4 DEF a

\* The store has handled a message of the rule.
LEMMA OutsTail ==
    ASSUME NEW q, IsSeq(q), q # <<>>
    PROVE  \E n \in Nat : /\ n > 0 /\ DOMAIN Outs(q) = 1 .. n /\ DOMAIN Outs(Tail(q)) = 1 .. n - 1
                          /\ Outs(q)[1] = ToSet(Head(q).sets)
                          /\ \A k \in 1 .. n - 1 : Outs(Tail(q))[k] = Outs(q)[k + 1]
<1> DEFINE a == Tail(q)
           n == Len(q)
<1>1. /\ n \in Nat /\ n > 0 /\ DOMAIN q = 1 .. n /\ DOMAIN a = 1 .. n - 1 /\ Head(q) = q[1]
      /\ \A k \in 1 .. n - 1 : a[k] = q[k + 1]
  BY SeqTail
<1> HIDE DEF a, n
<1>2. DOMAIN Outs(q) = 1 .. n /\ \A k \in 1 .. n : Outs(q)[k] = ToSet(q[k].sets)
  BY <1>1 DEF Outs
<1>3. DOMAIN Outs(a) = 1 .. n - 1 /\ \A k \in 1 .. n - 1 : Outs(a)[k] = ToSet(a[k].sets)
  BY <1>1 DEF Outs
<1>4. Outs(q)[1] = ToSet(Head(q).sets) /\ \A k \in 1 .. n - 1 : Outs(a)[k] = Outs(q)[k + 1]
  <2>1. 1 \in 1 .. n /\ \A k \in 1 .. n - 1 : k + 1 \in 1 .. n
    BY <1>1
  <2> QED BY <1>1, <1>2, <1>3, <2>1
<1> QED BY <1>1, <1>2, <1>3, <1>4 DEF a

\* Actions are what they may be.
Within(c) == \A i \in Acts : c[i].node \in MayBe(i, "node") /\ c[i].point \in MayBe(i, "point")

\* Actions that are due are actions.
LEMMA DueActs ==
    ASSUME NEW c
    PROVE  ToSet(Due(c)) \subseteq Acts /\ Due(c) \in {Actions, ActionsInactive}
<1>1. \A k \in DOMAIN Actions : Actions[k] \in Acts
  BY RuleAssumption
<1>2. \A k \in DOMAIN ActionsInactive : ActionsInactive[k] \in Acts
  BY RuleAssumption
<1> QED BY <1>1, <1>2 DEF Due, ToSet

\* An action that sets a point names it.
LEMMA GoesNamed ==
    ASSUME NEW c, NEW i, Goes(c, i)
    PROVE  c[i].node # "" /\ c[i].point # ""
<1>1. c[i].action = "setValue" /\ ActionError(c[i]) = ""
  BY DEF Goes
<1>2. ActionError(c[i]) = IF c[i].node = "" THEN "node ID" ELSE IF c[i].point = "" THEN "point type" ELSE ""
  BY <1>1, Zenon DEF ActionError
<1> QED BY <1>1, <1>2

\* No two of those that are due set the same point.
LEMMA DueApart ==
    ASSUME OutputsApart, NEW c, Within(c), NEW i \in ToSet(Due(c)), NEW j \in ToSet(Due(c)),
           Goes(c, i), c[j].node = c[i].node, c[j].point = c[i].point
    PROVE  i = j
<1>1. i \in Acts /\ j \in Acts /\ Due(c) \in {Actions, ActionsInactive}
  BY DueActs
<1>2. c[i].node # "" /\ c[i].point # ""
  BY GoesNamed
<1>3. SUFFICES ASSUME i # j PROVE FALSE
  OBVIOUS
<1>4. PICK f \in {"node", "point"} : MayBe(i, f) \cap MayBe(j, f) \subseteq {""}
  BY <1>1, <1>3 DEF OutputsApart
<1>5. /\ c[i].node \in MayBe(i, "node") /\ c[j].node \in MayBe(j, "node")
      /\ c[i].point \in MayBe(i, "point") /\ c[j].point \in MayBe(j, "point")
  BY <1>1 DEF Within
<1> QED BY <1>2, <1>4, <1>5

\* The messages q to the store take the point f of n to w, also one that it does
\* not have yet.
Reach(d, q, n, f, w) ==
    /\ f \in DOMAIN d[n] \/ \E k \in DOMAIN Outs(q) : Names(Outs(q)[k], n, f)
    /\ Latest(Outs(q), n, f, d[n][f], w)

\* A node that devices write too.
Shared(n) == n \in {b.id : b \in Batches}

\* The points that actions that are due set get the values of these actions.
Outputs(d, c, q) ==
    \A i \in ToSet(Due(c)) : Goes(c, i) /\ ~Shared(c[i].node) =>
        Reach(d, q, c[i].node, c[i].point, c[i].value)

OutInv == ~lost => Within(cfg) /\ (ran => Settled(cfg) /\ Outputs(db, cfg, pub))

\* Results do not count.
LEMMA WithinJudged ==
    ASSUME NEW c, Config(c), Within(c), NEW d, Judged(c, d)
    PROVE  Within(d)
<1> SUFFICES ASSUME NEW i \in Acts
             PROVE  d[i].node \in MayBe(i, "node") /\ d[i].point \in MayBe(i, "point")
  BY DEF Within
<1>1. Point(d, i) = Point(c, i)
  BY GoesSame
<1>2. d[i].node = c[i].node /\ d[i].point = c[i].point
  BY <1>1 DEF Point
<1> QED BY <1>2 DEF Within

\* An edit keeps to what there may be.
LEMMA WithinEdited ==
    ASSUME NEW c, Parts(c), Within(c), NEW e \in Edits, NEW r, Edited(c, r, e)
    PROVE  Within(r)
<1> SUFFICES ASSUME NEW i \in Acts
             PROVE  r[i].node \in MayBe(i, "node") /\ r[i].point \in MayBe(i, "point")
  BY DEF Within
<1>1. i \in ID /\ "node" \in DOMAIN c[i] /\ "point" \in DOMAIN c[i]
  BY DEF ID, Parts, ActFields
<1>2. /\ r[i].node = IF i = e.id /\ "node" = e.field THEN e.val ELSE c[i].node
      /\ r[i].point = IF i = e.id /\ "point" = e.field THEN e.val ELSE c[i].point
  BY <1>1 DEF Edited
<1>3. c[i].node \in MayBe(i, "node") /\ c[i].point \in MayBe(i, "point")
  BY DEF Within
<1>4. ASSUME NEW f, i = e.id, f = e.field PROVE e.val \in MayBe(i, f)
  BY <1>4 DEF MayBe
<1> QED BY <1>2, <1>3, <1>4

\* run: what the actions set is under way, and once it was, results alone change
\* nothing as long as the rule is as active as it was.
LEMMA RunOutputs ==
    ASSUME OutputsApart, NEW c, Config(c), Within(c), NEW id, NEW pts, Len(pts) \in Nat,
           Run(c, id, pts), PubOk(pub), NEW e,
           pts # <<>> /\ ran => Settled(c) /\ Outputs(e, c, pub)
    PROVE  Within(cfg') /\ (ran' => Settled(cfg') /\ Outputs(e, cfg', pub'))
<1> DEFINE d == cfg'
           q == pub'
<1>1. PICK acted, sets : /\ Judged(c, d) /\ sets \in Seq(SetPoint) /\ Send(c, d, acted, sets)
                         /\ Outcome(c, pts, d, acted, sets)
  BY RunStep
<1> DEFINE own == Report(c, d, acted)
           m == [own |-> own, sets |-> sets]
<1>2. /\ q = IF own = {} /\ sets = <<>> THEN pub ELSE Append(pub, m)
      /\ ran' = (ran \/ acted # {})
  BY <1>1 DEF Send
<1> HIDE DEF own
<1>3. m.sets = sets /\ IsSeq(pub)
  BY DEF PubOk
<1> HIDE DEF m, d, q
<1>4. Within(d)
  BY <1>1, WithinJudged
<1>5. Settled(d)
  BY <1>1 DEF Outcome
<1>6. PICK n \in Nat : /\ DOMAIN Outs(pub) = 1 .. n /\ DOMAIN Outs(Append(pub, m)) = 1 .. n + 1
                       /\ Outs(Append(pub, m))[n + 1] = ToSet(sets)
                       /\ \A k \in 1 .. n : Outs(Append(pub, m))[k] = Outs(pub)[k]
  BY <1>3, OutsAppend
<1>7. CASE /\ sets = <<>> /\ acted = {} /\ pts # <<>>
           /\ ~c[Rule].disabled /\ d[Rule].active = c[Rule].active
  <2> SUFFICES ASSUME ran PROVE Outputs(e, d, q)
    BY <1>2, <1>4, <1>5, <1>7 DEF d, q
  <2>1. Settled(c) /\ Outputs(e, c, pub)
    BY <1>7
  <2>2. d[Rule].disabled = c[Rule].disabled
    <3>1. Rule \in ID /\ "disabled" \in DOMAIN c[Rule] \ Results
      BY DEF ID, Config, Parts, Results
    <3> QED BY <1>1, <3>1 DEF Judged
  <2>3. Due(d) = Due(c)
    BY <1>5, <1>7, <2>1, <2>2 DEF Due, Settled
  <2>4. ASSUME NEW x, NEW f, NEW w, Reach(e, pub, x, f, w) PROVE Reach(e, q, x, f, w)
    <3>1. CASE q = pub
      BY <2>4, <3>1
    <3>2. CASE q = Append(pub, m)
      <4> DEFINE r == Outs(q)
                 p == Outs(pub)
      <4>1. /\ DOMAIN p = 1 .. n /\ DOMAIN r = 1 .. n + 1 /\ r[n + 1] = {}
            /\ \A k \in 1 .. n : r[k] = p[k]
        <5>1. ToSet(<<>>) = {}
          BY DEF ToSet
        <5> QED BY <1>6, <1>7, <3>2, <5>1
      <4>2. /\ f \in DOMAIN e[x] \/ \E k \in DOMAIN p : Names(p[k], x, f)
            /\ Latest(p, x, f, e[x][f], w)
        BY <2>4 DEF Reach
      <4> HIDE DEF p, r
      <4>3. ~Names(r[n + 1], x, f)
        BY <4>1 DEF Names
      <4>4. Latest(r, x, f, e[x][f], w)
        BY <4>1, <4>2, <4>3, LatestAppend
      <4>5. f \in DOMAIN e[x] \/ \E k \in DOMAIN r : Names(r[k], x, f)
        BY <4>1, <4>2
      <4> QED BY <4>4, <4>5 DEF Reach, r
    <3> QED BY <1>2, <3>1, <3>2
  <2> SUFFICES ASSUME NEW i \in ToSet(Due(d)), Goes(d, i), ~Shared(d[i].node)
               PROVE  Reach(e, q, d[i].node, d[i].point, d[i].value)
    BY DEF Outputs
  <2>5. i \in Acts
    BY DueActs
  <2>6. Goes(c, i) /\ Point(d, i) = Point(c, i)
    BY <1>1, <2>5, GoesSame
  <2>7. d[i].node = c[i].node /\ d[i].point = c[i].point /\ d[i].value = c[i].value
    BY <2>6 DEF Point
  <2>8. Reach(e, pub, c[i].node, c[i].point, c[i].value)
    BY <2>1, <2>3, <2>6, <2>7 DEF Outputs
  <2> QED BY <2>4, <2>7, <2>8
<1>8. CASE /\ \A k \in DOMAIN sets : \E i \in ToSet(Due(d)) : Goes(d, i) /\ sets[k] = Point(d, i)
           /\ \A i \in ToSet(Due(d)) : Goes(d, i) => Has(sets, Point(d, i))
  <2> SUFFICES Outputs(e, d, q)
    BY <1>4, <1>5 DEF d, q
  <2> SUFFICES ASSUME NEW i \in ToSet(Due(d)), Goes(d, i)
               PROVE  Reach(e, q, d[i].node, d[i].point, d[i].value)
    BY DEF Outputs
  <2> DEFINE x == d[i].node
             f == d[i].point
             r == Outs(q)
  <2>1. PICK h \in DOMAIN sets : sets[h] = Point(d, i)
    BY <1>8 DEF Has
  <2>2. sets # <<>>
    BY <2>1
  <2>3. q = Append(pub, m)
    BY <1>2, <2>2
  <2>4. DOMAIN r = 1 .. n + 1 /\ r[n + 1] = ToSet(sets)
    BY <1>6, <2>3
  <2> HIDE DEF r
  <2>5. Names(r[n + 1], x, f)
    <3>1. sets[h] \in ToSet(sets)
      BY DEF ToSet
    <3>2. sets[h].id = x /\ sets[h].field = f
      BY <2>1 DEF Point
    <3> QED BY <2>4, <3>1, <3>2 DEF Names
  <2>6. ASSUME NEW p \in r[n + 1], p.id = x, p.field = f PROVE p.val = d[i].value
    <3>1. PICK k \in DOMAIN sets : p = sets[k]
      BY <2>4 DEF ToSet
    <3>2. PICK j \in ToSet(Due(d)) : Goes(d, j) /\ sets[k] = Point(d, j)
      BY <1>8
    <3>3. d[j].node = x /\ d[j].point = f /\ p.val = d[j].value
      BY <2>6, <3>1, <3>2 DEF Point
    <3>4. i = j
      BY <1>4, <3>3, DueApart
    <3> QED BY <3>3, <3>4
  <2>7. Latest(r, x, f, e[x][f], d[i].value)
    <3> HIDE DEF x, f
    <3> QED BY <2>4, <2>5, <2>6, LatestLast
  <2>8. n + 1 \in DOMAIN r
    BY <2>4
  <2> QED BY <2>5, <2>7, <2>8 DEF Reach, r
<1> QED BY <1>1, <1>7, <1>8 DEF Outcome

\* newRulePoints
LEMMA NewRulePointsOutputs ==
    ASSUME OutputsApart, Inv, OutInv, NewRulePoints
    PROVE  OutInv'
<1> DEFINE m == Head(rulePts)
<1>1. /\ rulePts # <<>> /\ UNCHANGED <<db, lost>>
      /\ Run(cfg, m.id, m.pts) \/ UNCHANGED <<cfg, pub, ran>>
  BY DEF NewRulePoints
<1>2. Config(cfg) /\ PubOk(pub) /\ rulePts \in Seq(RuleMsg)
  BY DEF Inv, Types
<1>3. m \in RuleMsg
  BY <1>1, <1>2
<1> HIDE DEF m
<1>4. Len(m.pts) \in Nat
  <2>1. CASE m \in Batches
    BY <2>1, ConfigAssumption
  <2>2. CASE m \in [id : Device, pts : Seq([point : Val, value : Val, time : Time])]
    BY <2>2
  <2> QED BY <1>3, <2>1, <2>2 DEF RuleMsg
<1>5. CASE lost
  BY <1>1, <1>5 DEF OutInv
<1>6. CASE ~lost
  <2>1. Within(cfg) /\ (ran => Settled(cfg) /\ Outputs(db, cfg, pub))
    BY <1>6 DEF OutInv
  <2>2. CASE UNCHANGED <<cfg, pub, ran>>
    BY <1>1, <1>6, <2>1, <2>2 DEF OutInv
  <2>3. CASE Run(cfg, m.id, m.pts)
    <3>1. Within(cfg') /\ (ran' => Settled(cfg') /\ Outputs(db, cfg', pub'))
      BY <1>2, <1>4, <2>1, <2>3, RunOutputs
    <3> QED BY <1>1, <3>1 DEF OutInv
  <2> QED BY <1>1, <2>2, <2>3
<1> QED BY <1>5, <1>6

\* scheduleTicker
LEMMA TickOutputs ==
    ASSUME OutputsApart, Inv, OutInv, Tick
    PROVE  OutInv'
<1> DEFINE one == <<Trigger>>
<1>1. UNCHANGED <<db, lost>> /\ Run(cfg, Rule, one)
  BY DEF Tick
<1>2. Len(one) \in Nat
  OBVIOUS
<1> HIDE DEF one
<1>3. Config(cfg) /\ PubOk(pub)
  BY DEF Inv, Types
<1>4. CASE lost
  BY <1>1, <1>4 DEF OutInv
<1>5. CASE ~lost
  <2>1. Within(cfg) /\ (ran => Settled(cfg) /\ Outputs(db, cfg, pub))
    BY <1>5 DEF OutInv
  <2>2. Within(cfg') /\ (ran' => Settled(cfg') /\ Outputs(db, cfg', pub'))
    BY <1>1, <1>2, <1>3, <2>1, RunOutputs
  <2> QED BY <1>1, <2>2 DEF OutInv
<1> QED BY <1>4, <1>5

\* newPoints
LEMMA NewPointsOutputs ==
    ASSUME OutputsApart, Inv, OutInv, NewPoints
    PROVE  OutInv'
<1> DEFINE m == Head(cfgPts)
           c == [cfg EXCEPT ![m.id][m.field] = m.val]
           none == <<>>
<1>1. cfgPts # <<>> /\ UNCHANGED <<db, lost>> /\ Run(c, "", none)
  BY DEF NewPoints
<1>2. Config(cfg) /\ PubOk(pub) /\ cfgPts \in Seq(Edits)
  BY DEF Inv, Types
<1>3. m \in Edits /\ Len(none) \in Nat /\ none = <<>>
  <2>1. cfgPts # <<>> /\ cfgPts \in Seq(Edits)
    BY <1>1, <1>2
  <2>2. m \in Edits
    BY <2>1
  <2>3. Len(none) \in Nat /\ none = <<>>
    OBVIOUS
  <2> QED BY <2>2, <2>3
<1> HIDE DEF none, m
<1>4. Edited(cfg, c, m) /\ DOMAIN c = ID /\ IsRec(c)
  <2>1. DOMAIN cfg = ID /\ \A i \in ID : IsRec(cfg[i])
    BY <1>2 DEF Config, Parts
  <2>2. m.id \in ID
    BY <1>3, ConfigAssumption
  <2> QED BY <2>1, <2>2, EditEffect
<1> HIDE DEF c
<1>5. Config(c)
  BY <1>2, <1>3, <1>4, EditedParts DEF Config
<1>6. CASE lost
  BY <1>1, <1>6 DEF OutInv
<1>7. CASE ~lost
  <2>1. Within(c)
    BY <1>2, <1>3, <1>4, <1>7, WithinEdited DEF OutInv, Config
  <2>2. Within(cfg') /\ (ran' => Settled(cfg') /\ Outputs(db, cfg', pub'))
    BY <1>1, <1>2, <1>3, <1>5, <2>1, RunOutputs
  <2> QED BY <1>1, <2>2 DEF OutInv
<1> QED BY <1>6, <1>7

\* newEdgePoints
LEMMA NewEdgePointsOutputs ==
    ASSUME OutputsApart, Inv, OutInv, NewEdgePoints
    PROVE  OutInv'
<1> DEFINE none == <<>>
<1>1. UNCHANGED <<db, lost>> /\ Run(cfg, "", none)
  BY DEF NewEdgePoints
<1>2. Len(none) \in Nat /\ none = <<>>
  OBVIOUS
<1> HIDE DEF none
<1>3. Config(cfg) /\ PubOk(pub)
  BY DEF Inv, Types
<1>4. CASE lost
  BY <1>1, <1>4 DEF OutInv
<1>5. CASE ~lost
  <2>1. Within(cfg)
    BY <1>5 DEF OutInv
  <2>2. Within(cfg') /\ (ran' => Settled(cfg') /\ Outputs(db, cfg', pub'))
    BY <1>1, <1>2, <1>3, <2>1, RunOutputs
  <2> QED BY <1>1, <2>2 DEF OutInv
<1> QED BY <1>4, <1>5

\* NewRuleClient: unless points were lost, with the configuration that it had.
LEMMA StartOutputs ==
    ASSUME Inv, OutInv, Start
    PROVE  OutInv'
<1>1. /\ ~running /\ cfg' = [i \in ID |-> db[i]] /\ lost' = (lost \/ pub # <<>>)
      /\ UNCHANGED <<db, pub, ran>>
  BY DEF Start
<1> SUFFICES ASSUME ~lost' PROVE cfg' = cfg
  BY <1>1 DEF OutInv
<1>2. ~lost /\ pub = <<>>
  BY <1>1
<1>3. /\ cfgPts = <<>> /\ Parts(cfg) /\ Parts(db) /\ DOMAIN cfg = ID /\ IsRec(cfg)
      /\ \A i \in ID : DOMAIN cfg[i] = DOMAIN db[i]
  BY <1>1 DEF Inv, Types, Config
<1>4. Agree(db, cfg, <<>>, <<>>)
  BY <1>2, <1>3 DEF Inv
<1>5. \A i \in ID : cfg[i] = db[i]
  BY <1>3, <1>4, EmptyAgree
<1> QED BY <1>1, <1>3, <1>5 DEF IsRec

\* Other nodes are as they were, as far as points are set.
LEMMA OutputsSame ==
    ASSUME NEW d, NEW c, Config(c), NEW q, Outputs(d, c, q), NEW e,
           \A n \in Device : \A w, f : ~Shared(n) /\ Reach(d, q, n, f, w) => Reach(e, q, n, f, w)
    PROVE  Outputs(e, c, q)
<1> SUFFICES ASSUME NEW i \in ToSet(Due(c)), Goes(c, i), ~Shared(c[i].node)
             PROVE  Reach(e, q, c[i].node, c[i].point, c[i].value)
  BY DEF Outputs
<1>1. i \in Acts /\ c[i].node # ""
  BY DueActs, GoesNamed
<1>2. c[i].node \in Device
  BY <1>1 DEF Config, Parts
<1> QED BY <1>2 DEF Outputs

\* Users do not edit other nodes.
LEMMA UserEditsOutputs ==
    ASSUME Inv, OutInv, UserEdits
    PROVE  OutInv'
<1>1. PICK e \in Edits :
          /\ db' = IF e.field = "edge" THEN db ELSE [db EXCEPT ![e.id][e.field] = e.val]
          /\ lost' = (lost \/ ~running) /\ UNCHANGED <<pub, cfg, ran>>
  BY DEF UserEdits
<1>2. e.id \notin Device
  BY ConfigAssumption, RuleAssumption
<1>3. DOMAIN db = ID \cup Device /\ Config(cfg)
  BY DEF Inv, Types
<1>4. \A n \in Device : db'[n] = db[n]
  BY <1>1, <1>2, <1>3
<1>5. \A n \in Device : \A w, f : Reach(db, pub, n, f, w) => Reach(db', pub, n, f, w)
  BY <1>4 DEF Reach
<1>6. ASSUME Outputs(db, cfg, pub) PROVE Outputs(db', cfg, pub)
  BY <1>3, <1>5, <1>6, OutputsSame
<1> QED BY <1>1, <1>6 DEF OutInv

\* Stop, and time.
LEMMA OtherOutputs ==
    ASSUME OutInv, Stop \/ Clock \/ UNCHANGED vars
    PROVE  OutInv'
<1>1. UNCHANGED <<db, pub, cfg, ran>> /\ (lost' = lost \/ lost' = (lost \/ cfgPts # <<>>))
  BY Zenon DEF Stop, Clock, vars
<1> QED BY <1>1 DEF OutInv

\* The store handles what the rule has sent.
LEMMA StoreOutputs ==
    ASSUME Inv, OutInv, Store
    PROVE  OutInv'
<1> DEFINE m == Head(pub)
           r(i, f) == IF \E p \in m.own : p.id = i /\ p.field = f
                      THEN (CHOOSE p \in m.own : p.id = i /\ p.field = f).val
                      ELSE db[i][f]
           own == [i \in DOMAIN db |-> [f \in DOMAIN db[i] |-> r(i, f)]]
           sets == m.sets
<1>1. pub # <<>> /\ db' = Written(own, sets) /\ pub' = Tail(pub) /\ UNCHANGED <<cfg, ran, lost>>
  BY DEF Store
<1>2. /\ DOMAIN db = ID \cup Device /\ Config(cfg)
      /\ IsSeq(pub) /\ \A k \in DOMAIN pub : Sent(pub[k])
  BY DEF Inv, Types, PubOk
<1>3. sets \in Seq(SetPoint) /\ \A p \in m.own : p.id \in ID
  <2>1. Len(pub) \in Nat /\ Len(pub) > 0 /\ DOMAIN pub = 1 .. Len(pub) /\ m = pub[1]
    BY <1>1, <1>2, SeqTail
  <2>2. 1 \in DOMAIN pub
    BY <2>1
  <2> QED BY <1>2, <2>1, <2>2 DEF Sent
<1>4. ASSUME NEW n \in Device, NEW f PROVE r(n, f) = db[n][f]
  <2>1. ~\E p \in m.own : p.id = n /\ p.field = f
    BY <1>3, RuleAssumption
  <2> QED BY <2>1, Zenon
<1> HIDE DEF r
<1>5. /\ DOMAIN own = DOMAIN db
      /\ \A i \in DOMAIN db : own[i] = [f \in DOMAIN db[i] |-> r(i, f)]
  OBVIOUS
<1>6. \A n \in Device : DOMAIN own[n] = DOMAIN db[n] /\ \A f \in DOMAIN db[n] : own[n][f] = db[n][f]
  BY <1>2, <1>4, <1>5
<1> HIDE DEF own
<1>7. PICK z \in Nat : /\ z > 0 /\ DOMAIN Outs(pub) = 1 .. z /\ DOMAIN Outs(Tail(pub)) = 1 .. z - 1
                       /\ Outs(pub)[1] = ToSet(sets)
                       /\ \A k \in 1 .. z - 1 : Outs(Tail(pub))[k] = Outs(pub)[k + 1]
  BY <1>1, <1>2, OutsTail
<1> HIDE DEF m, sets
<1> DEFINE l == Len(sets)
           q == Outs(pub)
           t == Outs(Tail(pub))
<1>8. l \in Nat /\ DOMAIN sets = 1 .. l
  BY <1>3
<1>9. ToSet(sets) = {sets[k] : k \in 1 .. l}
  BY <1>8 DEF ToSet
<1>10. /\ DOMAIN q = 1 .. z /\ DOMAIN t = 1 .. z - 1 /\ q[1] = ToSet(sets)
       /\ \A k \in 1 .. z - 1 : t[k] = q[k + 1]
  BY <1>7
<1> HIDE DEF l, q, t
<1>11. ASSUME NEW n \in Device, NEW f, NEW w, Reach(db, pub, n, f, w)
       PROVE  Reach(db', Tail(pub), n, f, w)
  <2> DEFINE e == db'[n]
             x == e[f]
             v == db[n][f]
  <2>1. e = Written(own, sets)[n] /\ n \in DOMAIN own
    BY <1>1, <1>2, <1>5
  <2>2. /\ f \in DOMAIN db[n] \/ \E k \in DOMAIN q : Names(q[k], n, f)
        /\ Latest(q, n, f, v, w)
    BY <1>11 DEF Reach, q
  <2> HIDE DEF e, v
  <2>3. /\ DOMAIN own[n] \subseteq DOMAIN e
        /\ \A k \in DOMAIN sets : sets[k].id = n => sets[k].field \in DOMAIN e
        /\ \A g \in DOMAIN e : Latest(Singles(sets), n, g, own[n][g], e[g])
    BY <1>8, <2>1, WrittenRow
  <2>4. DOMAIN Singles(sets) = 1 .. l /\ \A k \in 1 .. l : Singles(sets)[k] = {sets[k]}
    BY <1>8 DEF Singles, Single
  <2>5. CASE Names(q[1], n, f)
    <3> DEFINE S == {k \in 1 .. l : sets[k].id = n /\ sets[k].field = f}
    <3>1. S # {} /\ S \in SUBSET (1 .. l)
      BY <1>9, <1>10, <2>5 DEF Names
    <3>2. PICK k \in S : \A j \in S : j <= k
      <4> HIDE DEF S
      <4> QED BY <1>8, <3>1, LastOne
    <3>3. /\ k \in 1 .. l /\ sets[k].id = n /\ sets[k].field = f
          /\ \A j \in 1 .. l : j > k => ~(sets[j].id = n /\ sets[j].field = f)
      BY <1>8, <3>2
    <3>4. f \in DOMAIN e
      BY <1>8, <2>3, <3>3
    <3>5. Latest(Singles(sets), n, f, own[n][f], x)
      BY <2>3, <3>4
    <3> HIDE DEF x
    <3>6. sets[k].val = x
      <4>1. Names(Singles(sets)[k], n, f) /\ sets[k] \in Singles(sets)[k]
        BY <2>4, <3>3 DEF Names
      <4>2. \A j \in 1 .. l : j > k => ~Names(Singles(sets)[j], n, f)
        BY <2>4, <3>3 DEF Names
      <4> QED BY <2>4, <3>3, <3>5, <4>1, <4>2 DEF Latest
    <3>7. \E p \in q[1] : p.id = n /\ p.field = f /\ x = p.val
      BY <1>9, <1>10, <3>3, <3>6
    <3>8. Latest(t, n, f, x, w)
      BY <1>7, <1>10, <2>2, <2>5, <3>7, LatestTail
    <3> QED BY <3>4, <3>8 DEF Reach, t, x, e
  <2>6. CASE ~Names(q[1], n, f)
    <3>1. Latest(t, n, f, v, w)
      BY <1>7, <1>10, <2>2, <2>6, LatestTail
    <3>2. CASE f \in DOMAIN db[n]
      <4>1. f \in DOMAIN e
        BY <1>6, <2>3, <3>2
      <4>2. Latest(Singles(sets), n, f, own[n][f], x)
        BY <2>3, <4>1
      <4>3. \A k \in 1 .. l : ~Names(Singles(sets)[k], n, f)
        BY <1>9, <1>10, <2>4, <2>6 DEF Names
      <4> HIDE DEF x
      <4>4. own[n][f] = x
        BY <2>4, <4>2, <4>3 DEF Latest
      <4>5. x = v
        BY <1>6, <3>2, <4>4 DEF v
      <4> QED BY <3>1, <4>1, <4>5 DEF Reach, t, x, e
    <3>3. CASE f \notin DOMAIN db[n]
      <4>1. PICK k \in DOMAIN q : Names(q[k], n, f)
        BY <2>2, <3>3
      <4>2. k # 1 /\ k - 1 \in DOMAIN t /\ t[k - 1] = q[k]
        BY <1>7, <1>10, <2>6, <4>1
      <4>3. \E j \in DOMAIN t : Names(t[j], n, f)
        BY <4>1, <4>2
      <4> HIDE DEF x
      <4>4. Latest(t, n, f, x, w)
        BY <3>1, <4>3, LatestAny
      <4> QED BY <4>3, <4>4 DEF Reach, t, x, e
    <3> QED BY <3>2, <3>3
  <2> QED BY <2>5, <2>6
<1>12. ASSUME Outputs(db, cfg, pub) PROVE Outputs(db', cfg, Tail(pub))
  <2> SUFFICES ASSUME NEW i \in ToSet(Due(cfg)), Goes(cfg, i), ~Shared(cfg[i].node)
               PROVE  Reach(db', Tail(pub), cfg[i].node, cfg[i].point, cfg[i].value)
    BY DEF Outputs
  <2>1. i \in Acts /\ cfg[i].node # ""
    BY DueActs, GoesNamed
  <2>2. cfg[i].node \in Device
    BY <1>2, <2>1 DEF Config, Parts
  <2>3. Reach(db, pub, cfg[i].node, cfg[i].point, cfg[i].value)
    BY <1>12 DEF Outputs
  <2> QED BY <1>11, <2>2, <2>3
<1> QED BY <1>1, <1>12 DEF OutInv

\* A device sends points: those of other nodes stay.
LEMMA DeviceSendsOutputs ==
    ASSUME Inv, OutInv, DeviceSends
    PROVE  OutInv'
<1> DEFINE sets(b) == [k \in DOMAIN b.pts |->
                          [id |-> b.id, field |-> b.pts[k].point, val |-> b.pts[k].value]]
<1>1. PICK b \in Batches : db' = Written(db, sets(b)) /\ UNCHANGED <<pub, cfg, ran, lost>>
  BY DEF DeviceSends
<1> DEFINE s == sets(b)
           l == Len(b.pts)
<1>2. l \in Nat /\ DOMAIN b.pts = 1 .. l
  BY ConfigAssumption
<1>3. DOMAIN s = 1 .. l /\ \A k \in 1 .. l : s[k].id = b.id
  BY <1>2
<1>4. db' = Written(db, s)
  BY <1>1
<1> HIDE DEF s, l
<1>5. DOMAIN db = ID \cup Device /\ Config(cfg)
  BY DEF Inv, Types
<1>6. ASSUME NEW n \in Device, NEW f, NEW w, ~Shared(n), Reach(db, pub, n, f, w)
      PROVE  Reach(db', pub, n, f, w)
  <2> DEFINE e == db'[n]
             x == e[f]
             q == Outs(pub)
  <2>1. e = Written(db, s)[n] /\ n \in DOMAIN db
    BY <1>4, <1>5
  <2>2. /\ f \in DOMAIN db[n] \/ \E k \in DOMAIN q : Names(q[k], n, f)
        /\ Latest(q, n, f, db[n][f], w)
    BY <1>6 DEF Reach
  <2> HIDE DEF e, q
  <2>3. /\ DOMAIN db[n] \subseteq DOMAIN e
        /\ \A g \in DOMAIN e : Latest(Singles(s), n, g, db[n][g], e[g])
    BY <1>2, <1>3, <2>1, WrittenRow
  <2>4. CASE f \in DOMAIN db[n]
    <3>1. f \in DOMAIN e
      BY <2>3, <2>4
    <3>2. Latest(Singles(s), n, f, db[n][f], x)
      BY <2>3, <3>1
    <3>3. n # b.id
      BY <1>6 DEF Shared
    <3>4. DOMAIN Singles(s) = 1 .. l /\ \A k \in 1 .. l : ~Names(Singles(s)[k], n, f)
      BY <1>3, <3>3 DEF Singles, Single, Names
    <3> HIDE DEF x
    <3>5. x = db[n][f]
      BY <3>2, <3>4 DEF Latest
    <3> QED BY <2>2, <3>1, <3>5 DEF Reach, q, x, e
  <2>5. CASE f \notin DOMAIN db[n]
    <3> HIDE DEF x
    <3>1. Latest(q, n, f, x, w)
      BY <2>2, <2>5, LatestAny
    <3> QED BY <2>2, <2>5, <3>1 DEF Reach, q, x, e
  <2> QED BY <2>4, <2>5
<1>7. ASSUME Outputs(db, cfg, pub) PROVE Outputs(db', cfg, pub)
  BY <1>5, <1>6, <1>7, OutputsSame
<1> QED BY <1>1, <1>7 DEF OutInv

\* Every step keeps what is set on its way.
LEMMA NextOutputs ==
    ASSUME OutputsApart, Inv, OutInv, [Next]_vars
    PROVE  OutInv'
BY NewRulePointsOutputs, NewPointsOutputs, NewEdgePointsOutputs, TickOutputs, StartOutputs, StoreOutputs,
   DeviceSendsOutputs, UserEditsOutputs, OtherOutputs DEF Next

\* At first actions are what they may be.
LEMMA InitOutputs ==
    ASSUME Init
    PROVE  OutInv
<1>1. db \in Created /\ cfg = [i \in ID |-> db[i]] /\ ~ran
  BY DEF Init
<1>2. ASSUME NEW i \in Acts PROVE cfg[i].node \in MayBe(i, "node") /\ cfg[i].point \in MayBe(i, "point")
  <2>1. cfg[i] = db[i]
    BY <1>1 DEF ID
  <2> QED BY <1>1, <2>1 DEF MayBe
<1> QED BY <1>1, <1>2 DEF OutInv, Within


-----------------------------------------------------------------------------
(* Theorems *)

\* Once nothing is under way, and unless a restart has lost points, the store's
\* copy of the rule, its conditions and its actions is the client's: run sends
\* every result that it changes, and MergePoints applies every edit, in whatever
\* order results, edits, points of devices, ticks and restarts come.
THEOREM StoreFollowsClient == Spec => []StoreAgrees
<1>1. Inv => StoreAgrees
  <2> SUFFICES ASSUME Inv, running, ~lost, pub = <<>>, cfgPts = <<>>
               PROVE  cfg = [i \in ID |-> db[i]]
    BY DEF StoreAgrees
  <2>1. Parts(cfg) /\ Parts(db) /\ DOMAIN cfg = ID /\ IsRec(cfg) /\ \A i \in ID : DOMAIN cfg[i] = DOMAIN db[i]
    BY DEF Inv, Types, Config
  <2>2. Agree(db, cfg, <<>>, <<>>)
    BY DEF Inv
  <2>3. \A i \in ID : cfg[i] = db[i]
    BY <2>1, <2>2, EmptyAgree
  <2> QED BY <2>1, <2>3 DEF IsRec
<1> QED BY <1>1, InitInv, NextInv, PTL DEF Spec

\* The schedule of every condition is followed to the minute at all times: what
\* activeForTime finds in the ranges of two days is what the definition says of
\* all days, however users edit the schedule.
THEOREM SchedulesAreExact == Spec => []ScheduleExact
<1>1. Inv => ScheduleExact
  <2> SUFFICES ASSUME Inv, NEW i \in Conds
               PROVE  ActiveForTime(cfg[i].sched, now)
                          <=> Open(cfg[i].sched, now, FirstDay - 2 .. LastDay + 2)
    BY DEF ScheduleExact
  <2>1. cfg[i].sched \in Schedule /\ now \in Time /\ FirstDay <= now.day /\ now.day <= LastDay
    BY DEF Inv, Types, Config, Parts
  <2>2. FirstDay - 2 \in Int /\ LastDay + 2 \in Int /\ FirstDay - 2 < now.day /\ now.day <= LastDay + 2
    BY <2>1, RuleAssumption DEF Time
  <2> QED BY <2>1, <2>2, ScheduleCorrect
<1> QED BY <1>1, InitInv, NextInv, PTL DEF Spec

\* Once nothing is under way, every condition on a point of another node that has
\* not missed one is as active as the value that the store has of this point says:
\* whatever batches of points devices send, whatever the rule's own actions set, and
\* however points, edits, ticks and restarts interleave, the last value counts.
THEOREM ConditionsFollowPoints == Spec => []ConditionsFollow
<1>1. Init => FollowInv
  BY FollowEmpty DEF Init, FollowInv
<1>2. Inv /\ FollowInv => ConditionsFollow
  <2> SUFFICES ASSUME Inv, FollowInv, running, rulePts = <<>>, NEW i \in Conds \ blind,
                      cfg[i].type = "pointValue", cfg[i].node # "", cfg[i].point # ""
               PROVE  cfg[i].active = Compare(cfg[i], db[cfg[i].node][cfg[i].point])
    BY DEF ConditionsFollow, Quiet
  <2>1. Watches(cfg[i])
    BY DEF Inv, Types, Config, Parts, Watches
  <2>2. Ok(db, cfg[i], <<>>)
    BY DEF FollowInv, Follow
  <2> QED BY <2>1, <2>2, OkEmpty
<1> QED BY <1>1, <1>2, InitInv, NextInv, NextFollow, PTL DEF Spec

\* If no two actions that are run together are ever given the same point to set,
\* then once everything is stored the points that the actions of the active
\* (inactive) rule set have the values of these actions: run leaves no edit,
\* no change of a condition and no restart behind, in whatever order conditions
\* change, users edit, enable and disable, ticks come and the store handles what
\* was sent.
THEOREM OutputsFollow ==
    ASSUME OutputsApart
    PROVE  Spec => []OutputFollows
<1>1. Inv /\ OutInv => OutputFollows
  <2> SUFFICES ASSUME Inv, OutInv, ran, ~lost, pub = <<>>, NEW i \in ToSet(Due(cfg)), Goes(cfg, i),
                      cfg[i].node \notin {b.id : b \in Batches}
               PROVE  db[cfg[i].node][cfg[i].point] = cfg[i].value
    BY DEF OutputFollows, Due, Goes
  <2>1. Reach(db, <<>>, cfg[i].node, cfg[i].point, cfg[i].value)
    BY DEF OutInv, Outputs, Shared
  <2>2. Outs(<<>>) = <<>>
    BY DEF Outs
  <2> QED BY <2>1, <2>2, LatestEmpty DEF Reach
<1> QED BY <1>1, InitInv, NextInv, InitOutputs, NextOutputs, PTL DEF Spec

=============================================================================
