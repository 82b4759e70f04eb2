------------------------------- MODULE Triage -------------------------------
(***************************************************************************)
(* internal/triage: one finding through the pipeline of worker.go.  Its    *)
(* reproducer is verified, minimised, run once more for its bucket, and    *)
(* what came of it is recorded (Triage, Verify, Minimize,                  *)
(* MinimizeStructured, Bucket; onTriaged of daemon/campaign.go).           *)
(*                                                                         *)
(* The target is chosen at the start: the bytes it needs to fail in each   *)
(* of two ways, and whether it fails every time.  Bytes are told apart by  *)
(* where they come from in the original; 0 is the filler.                  *)
(***************************************************************************)
EXTENDS Naturals, Sequences, SequencesExt

CONSTANTS
    TrBytes,      \* length of the reproducer
    TrTrials,     \* Config.Trials
    TrBudget,     \* MinimizeOptions.MaxRuns
    TrLinks       \* strategies of the chain with evidence, before the signal

VARIABLES
    trJob,        \* the job, the target and the configuration
    trPhase,      \* where Triage is
    trReport,     \* VerifyReport
    trMin,        \* the minimiser's state
    trResult,     \* Result
    trRow,        \* what the store has on the finding
    trBlobs,      \* reproducers in the blob store
    trDone        \* the context is done

trVars == <<trJob, trPhase, trReport, trMin, trResult, trRow, trBlobs, trDone>>

Original == [i \in 1..TrBytes |-> i]

\* A tree whose encoding is the reproducer: a repeat, an optional part, and a
\* run of bytes that can be cut short.
Tree == [kids |-> SubSeq(Original, 1, TrBytes - 2), min |-> 1, opt |-> TRUE, raw |-> 1]
encode(t) ==
    t.kids \o (IF t.opt THEN <<TrBytes - 1>> ELSE <<>>) \o (IF t.raw > 0 THEN <<TrBytes>> ELSE <<>>)

\* Class: the kind of failure with the marker that the target printed.
Classify(input) ==
    CASE trJob.a \subseteq ToSet(input) -> "A"
      [] ~(trJob.a \subseteq ToSet(input)) /\ trJob.b \subseteq ToSet(input) -> "B"
      [] OTHER -> "ok"
Crashed(class) == class # "ok"

\* What a run of an input may show.
Outcomes(input) == {Classify(input)} \cup (IF trJob.flaky THEN {"ok"} ELSE {})

NoReport == [trials |-> 0, reproduced |-> 0, class |-> "none", divergent |-> FALSE]
NoMin == [best |-> <<>>, tree |-> Tree, blocks |-> 0, start |-> 0, at |-> 1, runs |-> 0,
          exhausted |-> FALSE]
NoResult == [state |-> "none", minimized |-> <<>>, signature |-> <<>>, err |-> FALSE]

Init ==
    /\ trJob \in [a : SUBSET (1..TrBytes), b : {{}, {1}, {TrBytes}, {1, TrBytes}}, flaky : BOOLEAN,
                  node : BOOLEAN, skip : BOOLEAN, normalize : BOOLEAN]
    /\ trJob.node => ~trJob.normalize /\ TrBytes >= 2
    /\ trJob.skip => ~trJob.normalize /\ ~trJob.node
    /\ trPhase = "verify" /\ trReport = NoReport /\ trMin = NoMin /\ trResult = NoResult
    /\ trRow = [state |-> "new", minimized |-> <<>>, bucket |-> <<>>]
    /\ trBlobs = {Original} /\ trDone = FALSE

-----------------------------------------------------------------------------
(* Verify. *)

State(rep) ==
    CASE rep.reproduced = 0 -> "unverified"
      [] rep.reproduced = rep.trials /\ rep.reproduced # 0 -> "verified"
      [] OTHER -> "flaky"

\* One trial.  The class is that of the first reproduction.
trial(rep, o) ==
    IF ~Crashed(o) THEN [rep EXCEPT !.trials = @ + 1]
    ELSE [trials |-> rep.trials + 1, reproduced |-> rep.reproduced + 1,
          class |-> IF rep.class = "none" THEN o ELSE rep.class,
          divergent |-> rep.divergent \/ (rep.class # "none" /\ rep.class # o)]

\* Where a pass over the blocks of best begins: at its end.
newPass(m, best, blocks) ==
    [m EXCEPT !.best = best, !.blocks = blocks, !.start = Len(best) - Len(best) \div blocks]
over(m) == Len(m.best) <= 1 \/ Len(m.best) \div m.blocks = 0

minimizer(node) ==
    IF node THEN [NoMin EXCEPT !.best = encode(Tree), !.blocks = 1]
    ELSE newPass(NoMin, Original, 2)

afterBlocks(m) == IF trJob.normalize /\ ~m.exhausted THEN "normalize" ELSE "final"

Verify ==
    /\ trPhase = "verify" /\ ~trDone
    /\ \E o \in Outcomes(Original) :
         LET rep == trial(trReport, o) IN
         /\ trReport' = rep
         /\ trPhase' = CASE rep.trials < TrTrials -> "verify"
                         [] rep.trials = TrTrials /\ rep.reproduced = 0 -> "report"
                         [] OTHER -> IF trJob.skip THEN "final" ELSE IF trJob.node THEN "tree"
                                     ELSE IF TrBytes <= 1 THEN "final" ELSE "blocks"
         /\ trResult' = [trResult EXCEPT !.state = State(rep), !.minimized = Original,
                                         !.signature = <<"unreproducible">>]
         /\ trMin' = minimizer(trJob.node)
    /\ UNCHANGED <<trJob, trRow, trBlobs, trDone>>

-----------------------------------------------------------------------------
(* Minimize. *)

\* Mistake: it still crashes, in whatever way.
preserveLoosely(o) == Crashed(o)
preserve(o) == Crashed(o) /\ o = trReport.class

\* A pass ends at the start of best; nothing was removed, so blocks get smaller.
nextBlock(m) ==
    LET size == Len(m.best) \div m.blocks IN
    IF m.start >= size THEN [m EXCEPT !.start = m.start - size]
    ELSE IF m.blocks >= Len(m.best) THEN [m EXCEPT !.blocks = Len(m.best) + 1]
    ELSE newPass(m, m.best, m.blocks * 2)

without(m) ==
    LET size == Len(m.best) \div m.blocks IN
    SubSeq(m.best, 1, m.start) \o SubSeq(m.best, m.start + size + 1, Len(m.best))

stepTo(m, phase) ==
    /\ trMin' = m
    /\ trPhase' = IF m.exhausted THEN "final" ELSE phase
    /\ UNCHANGED <<trJob, trReport, trResult, trRow, trBlobs, trDone>>

exhaust == stepTo([trMin EXCEPT !.exhausted = TRUE], "final")

\* One candidate of Minimize: a block is left out.
tryBlock ==
    /\ trPhase = "blocks" /\ ~trDone
    /\ IF trMin.runs >= TrBudget THEN exhaust
       ELSE \E o \in Outcomes(without(trMin)) :
              LET ran == [trMin EXCEPT !.runs = @ + 1]
                  m == IF preserve(o) THEN newPass(ran, without(trMin), trMin.blocks) ELSE nextBlock(ran)
              IN  stepTo(m, IF over(m) THEN afterBlocks(m) ELSE "blocks")

\* One candidate of normalize: a byte is overwritten with the filler.
tryFiller ==
    /\ trPhase = "normalize" /\ ~trDone
    /\ LET filled == [trMin.best EXCEPT ![trMin.at] = 0]
           next == [trMin EXCEPT !.at = @ + 1]
       IN  IF trMin.at > Len(trMin.best) THEN stepTo(trMin, "final")
           ELSE IF trMin.runs >= TrBudget THEN exhaust
           ELSE \E o \in Outcomes(filled) :
                   stepTo([next EXCEPT !.runs = @ + 1, !.best = IF preserve(o) THEN filled ELSE @],
                          "normalize")

\* removals: the trees with one part less, the largest part first, those that
\* apply allows.
removals(t) ==
    LET drop(i) == [t EXCEPT !.kids = RemoveAt(t.kids, Len(t.kids) + 1 - i)]
        kids == IF Len(t.kids) - 1 < t.min THEN <<>> ELSE [i \in 1..Len(t.kids) |-> drop(i)]
        opts == IF t.opt THEN <<[t EXCEPT !.opt = FALSE]>> ELSE <<>>
        raws == IF t.raw > 0 THEN <<[t EXCEPT !.raw = 0]>> ELSE <<>>
    IN  kids \o opts \o raws

\* One candidate of MinimizeStructured; blocks counts the removals of the pass.
tryRemoval ==
    /\ trPhase = "tree" /\ ~trDone
    /\ LET left == removals(trMin.tree) IN
       IF trMin.blocks > Len(left) THEN stepTo(trMin, "final")
       ELSE IF trMin.runs >= TrBudget THEN exhaust
       ELSE LET t == left[trMin.blocks] IN
            \E o \in Outcomes(encode(t)) :
               stepTo(IF preserve(o)
                      THEN [trMin EXCEPT !.runs = @ + 1, !.tree = t, !.best = encode(t), !.blocks = 1]
                      ELSE [trMin EXCEPT !.runs = @ + 1, !.blocks = @ + 1], "tree")

-----------------------------------------------------------------------------
(* The bucket, and what is recorded. *)

\* Chain: the first strategy with evidence.  Frames and the marker tell the class,
\* the signal only that it failed.
Signature(class) ==
    IF Crashed(class) /\ TrLinks # {} THEN <<CHOOSE l \in TrLinks : TRUE, class>>
    ELSE <<"signal", IF Crashed(class) THEN "crash" ELSE "ok">>

Bucket ==
    /\ trPhase = "final" /\ ~trDone
    /\ LET best == IF trJob.skip THEN Original ELSE trMin.best IN
       \E o \in Outcomes(best) :
         trResult' = [state |-> IF ~trJob.skip /\ trReport.reproduced = trReport.trials THEN "minimized"
                                ELSE trResult.state,
                      minimized |-> best, signature |-> Signature(o), err |-> FALSE]
    /\ trPhase' = "report"
    /\ UNCHANGED <<trJob, trReport, trMin, trRow, trBlobs, trDone>>

\* Any run may fail, and every one does once the context is done.
runFails ==
    /\ trPhase \in {"verify", "blocks", "tree", "normalize", "final"}
    /\ trResult' = [trResult EXCEPT !.err = TRUE]
    /\ trPhase' = "report"
    /\ UNCHANGED <<trJob, trReport, trMin, trRow, trBlobs, trDone>>

cancel ==
    /\ ~trDone /\ trPhase # "done"
    /\ trDone' = TRUE
    /\ UNCHANGED <<trJob, trPhase, trReport, trMin, trResult, trRow, trBlobs>>

\* Mistake: the result of a pass that could not finish is recorded.
onTriagedAnyway ==
    /\ trPhase = "report"
    /\ trRow' = [state |-> trResult.state, minimized |-> trResult.minimized, bucket |-> trResult.signature]
    /\ trBlobs' = trBlobs \cup {trResult.minimized}
    /\ trPhase' = "done"
    /\ UNCHANGED <<trJob, trReport, trMin, trResult, trDone>>

\* onTriaged: an error is reported and changes nothing.  The reproducer is stored
\* when it is smaller than the original; when that fails the row keeps the old one.
\* A finding that was not reproduced keeps its bucket.
onTriaged ==
    /\ trPhase = "report"
    /\ trPhase' = "done"
    /\ \E found, stored, updated, filed \in BOOLEAN :
         LET smaller == stored /\ Len(trResult.minimized) < TrBytes IN
         /\ trBlobs' = IF ~trResult.err /\ found /\ smaller THEN trBlobs \cup {trResult.minimized}
                       ELSE trBlobs
         /\ trRow' = IF trResult.err \/ ~found \/ ~updated THEN trRow
                     ELSE [state |-> trResult.state,
                           minimized |-> IF smaller THEN trResult.minimized ELSE trRow.minimized,
                           bucket |-> IF filed /\ trReport.reproduced > 0 THEN trResult.signature
                                      ELSE trRow.bucket]
    /\ UNCHANGED <<trJob, trReport, trMin, trResult, trDone>>

Next == Verify \/ tryBlock \/ tryFiller \/ tryRemoval \/ Bucket \/ runFails \/ cancel \/ onTriaged

-----------------------------------------------------------------------------
(***************************************************************************)
(* What triage records of a finding is a reproducer of it: it is in the    *)
(* store, shorter than the original, and on a target that always behaves   *)
(* alike it fails in the way the original was seen to fail and is filed    *)
(* under that failure.  A pass that could not finish records nothing, and  *)
(* minimising stays within its budget (Triage, Minimize,                   *)
(* MinimizeStructured, onTriaged).                                         *)
(***************************************************************************)
ReproducerIsKept ==
    /\ trRow.minimized # <<>> =>
         /\ trRow.minimized \in trBlobs
         /\ Len(trRow.minimized) < TrBytes
         /\ ~trJob.flaky => Classify(trRow.minimized) = Classify(Original)
    /\ ~trJob.flaky /\ trRow.bucket # <<>> => trRow.bucket = Signature(Classify(Original))
    /\ trResult.err => trRow.state = "new" /\ trBlobs = {Original}
    /\ trMin.runs <= TrBudget
=============================================================================
