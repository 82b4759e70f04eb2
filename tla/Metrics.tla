------------------------------- MODULE Metrics ------------------------------
(***************************************************************************)
(* The counters of a campaign and their history (internal/metrics/         *)
(* metrics.go, series.go) and the budget that ends it (terminationReason,  *)
(* internal/daemon/campaign.go).                                           *)
(*                                                                         *)
(* A worker reports absolute values; after a restart its own counters      *)
(* begin at zero again while its last report still counts.  A snapshot is  *)
(* abstracted to its instant, one counter that is summed over the workers  *)
(* (execs) and one of which the maximum is taken (coverage).  Time is      *)
(* counted in units of the finest interval's fraction.                     *)
(***************************************************************************)
EXTENDS Naturals, Sequences, FiniteSets, SequencesExt, FiniteSetsExt

CONSTANTS
    Sources,    \* the workers that report
    Intervals,  \* levelIntervals
    PerLevel,   \* perLevel
    Retention,  \* the age at which a point is discarded; 0 keeps it
    ExecBudget, \* stop.Execs
    MaxTime, MaxExecs, MaxResets   \* bounds

VARIABLES
    clock,
    did,        \* the counters of each worker's process: [execs, coverage]
    perWorker,  \* Collector.perWorker
    current,    \* Collector.current
    levels,     \* Series.buckets: for each level the retained snapshots
    lastAt,     \* Series.lastAt, 0 when nothing has been added
    truth,      \* history: executions of all processes of all workers
    added,      \* history: the snapshots handed to the series
    resets

metricVars == <<clock, did, perWorker, current, levels, lastAt, truth, added, resets>>

Levels == 1 .. Len(Intervals)
Zero == [execs |-> 0, coverage |-> 0]

Init ==
    /\ clock = 1
    /\ did = [w \in Sources |-> Zero] /\ perWorker = [w \in Sources |-> Zero]
    /\ current = [at |-> 0, execs |-> 0, coverage |-> 0]
    /\ levels = [l \in Levels |-> << >>] /\ lastAt = [l \in Levels |-> 0]
    /\ truth = 0 /\ added = {} /\ resets = 0

\* A worker executes, and may learn something.
execute(w) ==
    /\ truth < MaxExecs
    /\ truth' = truth + 1
    /\ \E c \in {0, 1} :
        did' = [did EXCEPT ![w] = [execs |-> @.execs + 1, coverage |-> @.coverage + c]]
    /\ UNCHANGED <<clock, perWorker, current, levels, lastAt, added, resets>>

restart(w) ==
    /\ resets < MaxResets /\ did[w] # Zero
    /\ resets' = resets + 1
    /\ did' = [did EXCEPT ![w] = Zero]
    /\ UNCHANGED <<clock, perWorker, current, levels, lastAt, truth, added>>

tick ==
    /\ clock < MaxTime
    /\ clock' = clock + 1
    /\ UNCHANGED <<did, perWorker, current, levels, lastAt, truth, added, resets>>

-----------------------------------------------------------------------------
(* Series. *)

\* The loop of Add: a level is reached when no level up to it says "too soon".
reaches(l, at) ==
    \A k \in 1 .. l : lastAt[k] = 0 \/ at - lastAt[k] >= Intervals[k]

trimmed(s) == IF Len(s) > PerLevel THEN SubSeq(s, Len(s) - PerLevel + 1, Len(s)) ELSE s

\* The loop of expire: the points at the front that are too old.
tooOld(s, now) == {n \in 0 .. Len(s) : \A i \in 1 .. n : s[i].at + Retention < now}

expire(s, now) ==
    IF Retention = 0 THEN s ELSE SubSeq(s, Max(tooOld(s, now)) + 1, Len(s))

\* Mistake in lastAfter: the time of the attempt is kept, not that of the point.
lastOfAttempt(snap) == [l \in Levels |-> snap.at]

lastAfter(snap) ==
    [l \in Levels |-> IF reaches(l, snap.at) THEN snap.at ELSE lastAt[l]]

\* Series.Add.
Add(snap) ==
    /\ levels' = [l \in Levels |->
           expire(IF reaches(l, snap.at) THEN trimmed(Append(levels[l], snap))
                  ELSE levels[l], snap.at)]
    /\ lastAt' = lastAfter(snap)
    /\ added' = added \cup {snap}

\* Series.Points: every instant once, oldest first.
Points ==
    LET all == UNION {ToSet(levels[l]) : l \in Levels}
        instants == {p.at : p \in all} IN
    [i \in 1 .. Cardinality(instants) |->
        CHOOSE p \in all : Cardinality({t \in instants : t < p.at}) = i - 1]

-----------------------------------------------------------------------------
(* Collector. *)

\* Mistake in recompute: the report is added to the total instead of replacing the
\* contribution of its worker.
recomputeAccumulates(reports, at) ==
    [at |-> at,
     execs |-> current.execs + MapThenSumSet(LAMBDA w : reports[w].execs, Sources),
     coverage |-> Max({reports[w].coverage : w \in Sources})]

\* The total is made from what every worker currently claims.
recompute(reports, at) ==
    [at |-> at,
     execs |-> MapThenSumSet(LAMBDA w : reports[w].execs, Sources),
     coverage |-> Max({reports[w].coverage : w \in Sources})]

\* Report: one report for each instant, as their clock has nanoseconds.
Report(w) ==
    /\ current.at < clock
    /\ LET reports == [perWorker EXCEPT ![w] = did[w]]
           total == recompute(reports, clock) IN
       /\ perWorker' = reports
       /\ current' = total
       /\ Add(total)
    /\ UNCHANGED <<clock, did, truth, resets>>

Next ==
    \/ \E w \in Sources : execute(w) \/ restart(w) \/ Report(w)
    \/ tick

Spec == Init /\ [][Next]_metricVars

\* terminationReason, as far as it looks at the counters.
BudgetReached == ExecBudget > 0 /\ current.execs >= ExecBudget

-----------------------------------------------------------------------------
(* Properties. *)

TypeOK ==
    /\ clock \in 1 .. MaxTime /\ truth \in 0 .. MaxExecs
    /\ \A l \in Levels : Len(levels[l]) <= PerLevel /\ lastAt[l] \in 0 .. clock

\* Report: whatever restarts and reports come in which order, the campaign never
\* claims executions that did not happen, so its execution budget never ends it
\* early.
BudgetIsSpent == BudgetReached => truth >= ExecBudget

SumOfIntervals[l \in 0 .. Len(Intervals)] ==
    IF l = 0 THEN 0 ELSE SumOfIntervals[l - 1] + Intervals[l]

\* Series: thinning keeps the shape of the run.  The curve consists of real
\* snapshots, and since the oldest point a level still holds, every snapshot the
\* series was given has a predecessor in the curve closer than the intervals up to
\* that level.
ShapeIsKept ==
    /\ ToSet(Points) \subseteq added
    /\ \A l \in Levels, s \in added :
        levels[l] # << >> /\ s.at >= levels[l][1].at =>
            \E p \in ToSet(Points) : p.at <= s.at /\ s.at - p.at < SumOfIntervals[l]
=============================================================================
