--------------------------- MODULE StateGuidance ---------------------------
(***************************************************************************)
(* State guidance of a stateful campaign (pkg/state): the trace of a       *)
(* session, the model of states and moves, the trace store, the feedback   *)
(* that commits to the model, and the scheduler that picks a state to aim  *)
(* for, an entry that reaches it and the message of it to change.  The     *)
(* engine's loop around them (internal/engine) is kept as far as it        *)
(* touches them.                                                           *)
(*                                                                         *)
(* A session is a sequence of messages; the target is a deterministic      *)
(* Mealy machine.  Random choices are nondeterministic.  The state         *)
(* feedback is the only one of the campaign, or one of those that Any      *)
(* composes (internal/worker/build.go).  The others, coverage among them,  *)
(* may then find any session interesting; what a removal does to coverage, *)
(* and which entries a distillation finds redundant, is not constrained.   *)
(***************************************************************************)
EXTENDS Naturals, Sequences, FiniteSets, SequencesExt

CONSTANTS
    SgTarget,     \* [trans, out] by state and message; the first state is 1
    SgMessages,   \* the messages
    SgLength,     \* the longest session
    SgLabels,     \* the labels of the target, in the order of sortedLabels
    SgTraces,     \* the capacity of the trace store
    SgRare,       \* Scheduler.RareStates
    SgDeclared,   \* the moves the campaign declares, {} for none
    SgAppends,    \* bound on the sessions added as seeds or admitted
    SgSetups      \* <<tier, alone>>: "session", or "driver", whose trace begins with the first
                  \* screen, and whether the state feedback is the only one

VARIABLES
    sgTier,
    sgAlone,
    sgCorpus,     \* the entries' sessions
    sgDropped,    \* history: the sessions that distillations have dropped
    sgStates,     \* Model.states: visits of each label
    sgMoves,      \* Model.transitions: uses of each move
    sgIllegal,    \* Model.illegal
    sgStore,      \* TraceStore.traces, by session
    sgPending,    \* Feedback.pending, <<>> for none
    sgAim,        \* the entry being fuzzed and the state it was chosen for
    sgLast,       \* the last choice of a message and the session it led to
    sgCount       \* bound: sessions added or admitted

modelVars == <<sgStates, sgMoves, sgIllegal>>
corpusVars == <<sgCorpus, sgDropped, sgStore, sgCount>>
sgVars == <<sgTier, sgAlone, modelVars, corpusVars, sgPending, sgAim, sgLast>>

Sessions == UNION {[1..n -> SgMessages] : n \in 1..SgLength}
Start == "start"
LabelSet == ToSet(SgLabels)
Moves == (LabelSet \cup {Start}) \X LabelSet
NoAim == [seed |-> <<>>, state |-> ""]
NoChoice == [parent |-> <<>>, message |-> 0, target |-> "", at |-> 0, own |-> TRUE, child |-> <<>>]

\* The labels one execution of a session leaves in the observer's trace.
traceOf(w) ==
    LET at[i \in 0..Len(w)] == IF i = 0 THEN 1 ELSE SgTarget.trans[at[i - 1]][w[i]]
    IN  (IF sgTier = "driver" THEN <<Start, Head(SgLabels)>> ELSE <<Start>>)
            \o [i \in 1..Len(w) |-> SgTarget.out[at[i - 1]][w[i]]]

Reached(t, l) == l \in ToSet(t)

\* Mistake: one message too early.
IndexOfEarly(t, l) ==
    LET hits == {i \in 2..Len(t) : t[i] = l}
    IN  IF hits = {} THEN 0 ELSE (CHOOSE i \in hits : \A j \in hits : i <= j) - 2

\* The message that first produced a label, 0 for none: the trace begins with Start.
IndexOf(t, l) ==
    LET hits == {i \in 2..Len(t) : t[i] = l}
    IN  IF hits = {} THEN 0 ELSE (CHOOSE i \in hits : \A j \in hits : i <= j) - 1

transitions(t) == [i \in 1..Len(t) - 1 |-> <<t[i], t[i + 1]>>]
times(s, x) == Cardinality({i \in DOMAIN s : s[i] = x})

-----------------------------------------------------------------------------
(* The model and the feedback. *)

\* Model.inspect: a state or a move the model does not have.
novel(t) ==
    \/ \E l \in ToSet(t) \ {Start} : sgStates[l] = 0
    \/ \E m \in ToSet(transitions(t)) : sgMoves[m] = 0

illegalMoves(t) ==
    IF SgDeclared = {} THEN {} ELSE ToSet(transitions(t)) \ SgDeclared

\* Mistake: a state is counted once for each session that reaches it.
RecordOnce(t) ==
    /\ sgStates' = [l \in LabelSet |-> sgStates[l] + IF Reached(t, l) THEN 1 ELSE 0]
    /\ sgMoves' = [m \in Moves |-> sgMoves[m] + times(transitions(t), m)]
    /\ sgIllegal' = sgIllegal \cup illegalMoves(t)

\* Model.Record.
Record(t) ==
    /\ sgStates' = [l \in LabelSet |-> sgStates[l] + times(t, l)]
    /\ sgMoves' = [m \in Moves |-> sgMoves[m] + times(transitions(t), m)]
    /\ sgIllegal' = sgIllegal \cup illegalMoves(t)

\* Feedback.Append of what IsInteresting held back: in a composition a feedback that did
\* not fire is told to discard (combinator.Append), one that is alone always commits.
AppendFeedback(t) ==
    /\ sgPending' = <<>>
    /\ IF sgAlone \/ novel(t) THEN Record(t) ELSE UNCHANGED modelVars

\* Feedback.Discard leaves the model alone.
Discard == sgPending' = <<>> /\ UNCHANGED modelVars

-----------------------------------------------------------------------------
(* The trace store and the scheduler. *)

\* TraceStore.Put: a full store is emptied first.
Put(store, id, t) ==
    LET kept == IF Cardinality(DOMAIN store) >= SgTraces THEN {} ELSE DOMAIN store
    IN  [w \in kept \cup {id} |-> IF w = id THEN t ELSE store[w]]

Get(id) == IF id \in DOMAIN sgStore THEN sgStore[id] ELSE <<>>

\* Model.Rarest: fewest visits first, then in the order of the labels.
Rarest(n) ==
    LET seen == {i \in 1..Len(SgLabels) : sgStates[SgLabels[i]] > 0}
        before(i, j) == \/ sgStates[SgLabels[i]] < sgStates[SgLabels[j]]
                        \/ sgStates[SgLabels[i]] = sgStates[SgLabels[j]] /\ i <= j
    IN  {SgLabels[i] : i \in {i \in seen : Cardinality({j \in seen : before(j, i)}) <= n}}

Smaller(a, b) == IF a < b THEN a ELSE b
Larger(a, b) == IF a < b THEN b ELSE a

\* A third of the model, at least two states and at most SgRare.
rareCount ==
    LET size == Cardinality({l \in LabelSet : sgStates[l] > 0})
    IN  Smaller(Larger((size + 2) \div 3, 2), SgRare)

pickState == Rarest(rareCount)

\* Scheduler.PickSeed: a rare state, and an entry whose trace reaches it.
PickSeed ==
    UNION {{[seed |-> e, state |-> l] : e \in {f \in sgCorpus : Reached(Get(f), l)}} :
              l \in pickState}

\* Scheduler.Pick: where the state is aimed past, or before it, or anywhere.
Pick(t, n, aim) ==
    LET anywhere == {[message |-> k, target |-> "", at |-> 0] : k \in 1..n}
        wanted == IF aim = "" THEN pickState ELSE {aim}
        past(l) == LET at == Smaller(IndexOf(t, l), n)
                   IN  IF at = 0 THEN anywhere
                       ELSE {[message |-> k, target |-> l, at |-> at] : k \in 1..n}
    IN  IF Len(t) < 2 THEN anywhere
        ELSE (IF aim = "" THEN anywhere ELSE {}) \cup UNION {past(l) : l \in wanted}

\* Guidance.Target: the whole session (message 0), or one message of it.
Target(parent, aim) ==
    {[message |-> 0, target |-> "", at |-> 0]} \cup Pick(Get(parent), Len(parent), aim)

\* What mutation can make of the part it was given.
mutated(parent, message) ==
    IF message = 0 THEN Sessions
    ELSE {w \in [1..Len(parent) -> SgMessages] :
             \A i \in 1..Len(parent) : i = message \/ w[i] = parent[i]}

-----------------------------------------------------------------------------
(* The engine. *)

\* Mistake: trimming looks at coverage alone.
stateSignatureOff(w) == {}

\* The set of the states an execution went through.
stateSignature(w) == ToSet(traceOf(w))

\* A session with one message removed.
without(w) == {SubSeq(w, 1, i - 1) \o SubSeq(w, i + 1, Len(w)) : i \in 1..Len(w)} \ {<<>>}

\* Engine.trim: what is kept, and what was executed last.  It needs coverage.
trim(w) ==
    LET keeps == {v \in without(w) : stateSignature(v) = stateSignature(w)}
    IN  {[kept |-> w, last |-> w]} \cup
            IF sgAlone THEN {}
            ELSE {[kept |-> v, last |-> v] : v \in keeps}
                    \cup {[kept |-> v, last |-> u] : v \in keeps \cup {w}, u \in without(w)}

Init ==
    /\ \E s \in SgSetups : sgTier = s[1] /\ sgAlone = s[2]
    /\ sgCorpus = {} /\ sgDropped = {}
    /\ sgStates = [l \in LabelSet |-> 0]
    /\ sgMoves = [m \in Moves |-> 0]
    /\ sgIllegal = {}
    /\ sgStore = [w \in {} |-> <<>>]
    /\ sgPending = <<>>
    /\ sgAim = NoAim
    /\ sgLast = NoChoice
    /\ sgCount = 0

\* A session that the corpus does not have becomes an entry, with the trace recorded for it.
Enter(w, t) ==
    /\ sgCorpus' = sgCorpus \cup {w}
    /\ sgStore' = Put(sgStore, w, t)
    /\ UNCHANGED sgDropped

\* Engine.AddSeed: kept whether or not it is novel.
AddSeed(w) ==
    /\ sgPending = <<>> /\ sgAim = NoAim
    /\ sgCount < SgAppends /\ sgCount' = sgCount + 1
    /\ w \notin sgCorpus
    /\ AppendFeedback(traceOf(w))
    /\ Enter(w, traceOf(w))
    /\ UNCHANGED <<sgTier, sgAlone, sgAim, sgLast>>

\* The loop's choice of an entry: the state model's, or else the coverage scheduler's.
Seed ==
    /\ sgPending = <<>> /\ sgAim = NoAim
    /\ sgCorpus # {}
    /\ sgAim' \in PickSeed \cup {[seed |-> w, state |-> ""] : w \in sgCorpus}
    /\ UNCHANGED <<sgTier, sgAlone, modelVars, corpusVars, sgPending, sgLast>>

\* havocStage: one candidate of the entry is executed and inspected.
execute ==
    /\ sgPending = <<>> /\ sgAim # NoAim
    /\ \E c \in Target(sgAim.seed, sgAim.state) :
         \E w \in mutated(sgAim.seed, c.message) :
            /\ sgLast' = [parent |-> sgAim.seed, message |-> c.message, target |-> c.target,
                          at |-> c.at, own |-> Get(sgAim.seed) = traceOf(sgAim.seed), child |-> w]
            /\ sgPending' = traceOf(w)
    /\ UNCHANGED <<sgTier, sgAlone, modelVars, corpusVars, sgAim>>

\* Engine.evaluate, interesting because the states are new or because another feedback of
\* the composition finds it so: the trimmed session is admitted unless the corpus has it,
\* and the trace recorded is the one the observer holds then.
admit ==
    /\ sgPending # <<>>
    /\ novel(sgPending) \/ ~ sgAlone
    /\ sgCount < SgAppends /\ sgCount' = sgCount + 1
    /\ AppendFeedback(sgPending)
    /\ \E t \in trim(sgLast.child) :
         IF t.kept \in sgCorpus
         THEN UNCHANGED <<sgCorpus, sgDropped, sgStore>>
         ELSE Enter(t.kept, traceOf(t.last))
    /\ sgLast' = NoChoice
    /\ UNCHANGED <<sgTier, sgAlone, sgAim>>

\* Engine.evaluate, nothing new in it.
reject ==
    /\ sgPending # <<>>
    /\ ~ novel(sgPending)
    /\ Discard
    /\ sgLast' = NoChoice
    /\ UNCHANGED <<sgTier, sgAlone, corpusVars, sgAim>>

\* The entry's energy is spent, or the slice is over.
energySpent ==
    /\ sgPending = <<>> /\ sgAim # NoAim
    /\ sgAim' = NoAim
    /\ UNCHANGED <<sgTier, sgAlone, modelVars, corpusVars, sgPending, sgLast>>

\* Engine.Distill, between slices: a cover of the coverage is kept, which some entry has;
\* the states are not looked at, and the traces of what is dropped stay in the store.
Distill ==
    /\ sgPending = <<>> /\ sgAim = NoAim
    /\ ~ sgAlone
    /\ \E kept \in SUBSET sgCorpus \ {{}} :
         /\ sgCorpus' = kept
         /\ sgDropped' = sgDropped \cup (sgCorpus \ kept)
    /\ UNCHANGED <<sgTier, sgAlone, modelVars, sgStore, sgCount, sgPending, sgAim, sgLast>>

Next ==
    \/ \E w \in Sessions : AddSeed(w)
    \/ Seed \/ execute \/ admit \/ reject \/ energySpent \/ Distill

TypeOK ==
    /\ sgCorpus \cup sgDropped \subseteq Sessions
    /\ DOMAIN sgStore \subseteq sgCorpus \cup sgDropped
    /\ Cardinality(DOMAIN sgStore) <= SgTraces
    /\ sgAim.state \in LabelSet \cup {""}
    /\ sgCount \in 0..SgAppends

(***************************************************************************)
(* A state the model counts as seen is one that an entry of the corpus     *)
(* reaches, or that only a distillation has taken away: no later session   *)
(* is admitted for reaching it, so one recorded by a session nobody kept   *)
(* would be lost to the campaign (Discard, trim, stateSignature).          *)
(***************************************************************************)
KnownStateIsKept ==
    \A l \in LabelSet :
        sgStates[l] > 0 => \E w \in sgCorpus \cup sgDropped : Reached(traceOf(w), l)

(***************************************************************************)
(* "every dropped entry reaches something a kept one also reaches"         *)
(* (Engine.Distill): a state the model counts has an entry, distillations  *)
(* or not.  TLC refutes it: the cover is of coverage, and a state that     *)
(* only a dropped entry reaches is counted and never sought again.         *)
(***************************************************************************)
DistillationKeepsStates ==
    \A l \in LabelSet : sgStates[l] > 0 => \E w \in sgCorpus : Reached(traceOf(w), l)

(***************************************************************************)
(* A message changed past the one that produced the state aimed at leaves  *)
(* the path to that state alone: the child reaches it too, as long as the  *)
(* trace the choice was made with is the entry's own (Pick, IndexOf).      *)
(***************************************************************************)
AimIsPreserved ==
    (sgLast.own /\ sgLast.target # "" /\ sgLast.message > sgLast.at) =>
        Reached(traceOf(sgLast.child), sgLast.target)

(***************************************************************************)
(* The model's two counts agree: a state is visited as often as a move     *)
(* leads into it, whatever was appended, discarded or declared (Record),   *)
(* and no declared move is held to be illegal.                             *)
(***************************************************************************)
CountsBalance ==
    /\ \A l \in LabelSet :
         sgStates[l] = FoldFunction(+, 0, [m \in {n \in Moves : n[2] = l} |-> sgMoves[m]])
    /\ sgIllegal \cap SgDeclared = {}

\* What the three say together.
GuidanceIsSound == KnownStateIsKept /\ AimIsPreserved /\ CountsBalance
=============================================================================
