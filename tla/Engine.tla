------------------------------- MODULE Engine -------------------------------
(***************************************************************************)
(* The fuzzing engine of one worker (internal/engine) with the in-memory   *)
(* corpus (pkg/corpus), the coverage feedback (pkg/feedback) and the state *)
(* guidance (pkg/state) it drives.  The engine is sequential: its          *)
(* operations are steps of the worker's loop goroutine, which module       *)
(* Worker schedules.                                                       *)
(*                                                                         *)
(* An input is a model value with constant attributes: the counters it     *)
(* leaves in the coverage map, each in its logarithmic bucket, the         *)
(* protocol states it drives the target to, the bug it shows and what      *)
(* removing a run of its bytes leaves.  The target is deterministic.  What *)
(* mutation, comparison substitution and the solver produce is any input.  *)
(***************************************************************************)
EXTENDS Naturals, Sequences, FiniteSets, SequencesExt

CONSTANTS
    Inputs,      \* what the fuzzer can generate, by digest
    Unreadable,  \* inputs the codec cannot decode
    Hits,        \* Hits[i]: the <<counter, bucket>> pairs of a run of i
    StatesOf,    \* StatesOf[i]: the protocol states a run of i goes through
    Bug,         \* Bug[i]: the bucket of the finding a run of i is, or NoBug
    NoBug,
    Size,        \* Size[i]: bytes
    Shrinks,     \* Shrinks[i]: what is left when one run of bytes is removed
    NoTrace,
    TraceMax     \* the capacity of the trace store

\* A digest has 32 bytes.  A run of a target reaches its entry point at least, and
\* removing bytes makes an input smaller.  Remnants that cannot be decoded are left out.
ASSUME InputAssumption ==
    /\ IsFiniteSet(Inputs) /\ Unreadable \subseteq Inputs
    /\ \A i \in Inputs :
         /\ Hits[i] # {} /\ IsFiniteSet(Hits[i])
         /\ Shrinks[i] \subseteq Inputs \ Unreadable
         /\ \A s \in Shrinks[i] : Size[s] < Size[i]
    /\ TraceMax \in Nat \ {0}

VARIABLES
    stateful,  \* the campaign has a state model (Config.State)
    corpus,    \* Corpus.entries: the inputs, in order
    virgin,    \* MapFeedback.virgin: the <<counter, bucket>> pairs seen
    known,     \* Model.states: the protocol states seen
    traces,    \* TraceStore.traces: the states recorded against each entry
    findings   \* Engine.findings, one for each bucket

engineVars == <<stateful, corpus, virgin, known, traces, findings>>

\* The sequences without repetition over S.
Arrangements(S) ==
    UNION {{p \in [1 .. n -> S] : IsInjective(p)} : n \in 0 .. Cardinality(S)}

\* The counters a run of i touches (coveredIndices).
Counters(i) == {h[1] : h \in Hits[i]}

\* What the state observer, if there is one, sees of a run of i.
Seen(i) == IF stateful THEN StatesOf[i] ELSE {}

EngineInit ==
    /\ corpus = << >>
    /\ virgin = {}
    /\ known = {}
    /\ traces = [i \in Inputs |-> NoTrace]
    /\ findings = << >>

-----------------------------------------------------------------------------
(* The trace store, the findings and the corpus. *)

HasTrace(t, i) == t[i] # NoTrace

\* A full store is cleared before the trace goes in.
Put(t, i, seen) ==
    IF Cardinality({j \in Inputs : HasTrace(t, j)}) >= TraceMax
    THEN [j \in Inputs |-> IF j = i THEN seen ELSE NoTrace]
    ELSE [t EXCEPT ![i] = seen]

\* Only the first input of a bucket is kept.
record(fs, i) ==
    IF Bug[i] = NoBug \/ \E n \in DOMAIN fs : fs[n].bug = Bug[i] THEN fs
    ELSE Append(fs, [bug |-> Bug[i], input |-> i])

\* Mistake in Add: an entry synced twice is admitted twice.
AddAlways(c, i) == Append(c, i)

\* De-duplicated by content.
Add(c, i) == IF Contains(c, i) THEN c ELSE Append(c, i)

\* The last entry fills the hole.
RemoveEntry(c, n) ==
    SubSeq([c EXCEPT ![n] = Last(c)], 1, Len(c) - 1)

-----------------------------------------------------------------------------
(* Judging an execution. *)

IsInteresting(i) == ~ Hits[i] \subseteq virgin \/ ~ Seen(i) \subseteq known

\* Feedback.Append: every feedback of the stack commits what it saw as new.
AppendFeedback(i) ==
    /\ virgin' = virgin \cup Hits[i]
    /\ known' = known \cup Seen(i)

\* Mistake in SameSignature: shortening an input may lose a counter.
SameSignatureLoose(i, s) == Hits[s] \subseteq Hits[i] /\ Seen(s) = Seen(i)

\* CoverageMap.Signature and stateSignature agree.
SameSignature(i, s) == Hits[s] = Hits[i] /\ Seen(s) = Seen(i)

\* The inputs trim can arrive at from i, a removal at a time.
Reductions(i) ==
    LET after[n \in 0 .. Cardinality(Inputs)] ==
          IF n = 0 THEN {i}
          ELSE LET before == after[n - 1]
               IN before \cup
                  {s \in UNION {Shrinks[k] : k \in before} : SameSignature(i, s)}
    IN after[Cardinality(Inputs)]

\* What trim(i) keeps, and the input it executed last: the reduction it took or a
\* candidate it rejected.  One with nothing to remove is not executed again.
trim(i) ==
    {t \in [kept : Reductions(i), last : Inputs] :
       \/ t.last = t.kept /\ (t.kept # i \/ Shrinks[i] = {})
       \/ t.last \in Shrinks[t.kept] /\ ~ SameSignature(i, t.last)}

-----------------------------------------------------------------------------
(* The engine's operations. *)

\* evaluate, with admit and trim: whatever stage derived the input, it is judged by
\* the objective and by the feedback, and admitted in its trimmed form.  The trace
\* recorded is the one the observers hold afterwards.
evaluate(i) ==
    /\ findings' = record(findings, i)
    /\ IF IsInteresting(i)
       THEN /\ AppendFeedback(i)
            /\ \E t \in trim(i) :
                 IF Contains(corpus, t.kept) THEN UNCHANGED <<corpus, traces>>
                 ELSE /\ corpus' = Add(corpus, t.kept)
                      /\ traces' = IF stateful THEN Put(traces, t.kept, Seen(t.last))
                                   ELSE traces
       ELSE UNCHANGED <<corpus, virgin, known, traces>>
    /\ UNCHANGED stateful

\* AddSeed: executed and judged once, admitted whether novel or not.
AddSeed(i) ==
    /\ i \notin Unreadable /\ ~ Contains(corpus, i)
    /\ findings' = record(findings, i)
    /\ AppendFeedback(i)
    /\ traces' = IF stateful THEN Put(traces, i, Seen(i)) ELSE traces
    /\ corpus' = Add(corpus, i)
    /\ UNCHANGED stateful

\* AddSeed, the feedback failing after the objective has judged.
AddSeedFails(i) ==
    /\ i \notin Unreadable /\ ~ Contains(corpus, i)
    /\ findings' = record(findings, i)
    /\ UNCHANGED <<stateful, corpus, virgin, known, traces>>

\* Mistake in judged: an entry is given its trace without being judged.
judgedNot(r, i) ==
    IF HasTrace(r.traces, i) THEN r
    ELSE [r EXCEPT !.traces = Put(@, i, Seen(i))]

\* An entry without a trace is executed, recorded and judged.
judged(r, i) ==
    IF HasTrace(r.traces, i) THEN r
    ELSE [traces |-> Put(r.traces, i, Seen(i)), findings |-> record(r.findings, i)]

\* traceCorpus(c), the n-th execution failing: the entries before it in turn.
traceCorpus(c, n) ==
    LET after[k \in 0 .. n - 1] ==
          IF k = 0 THEN [traces |-> traces, findings |-> findings]
          ELSE judged(after[k - 1], c[k])
    IN after[n - 1]

\* The corpus with the readable ones of the entries added.
loaded(entries) ==
    LET after[n \in 0 .. Len(entries)] ==
          IF n = 0 THEN corpus
          ELSE IF entries[n] \in Unreadable THEN after[n - 1] ELSE Add(after[n - 1], entries[n])
    IN after[Len(entries)]

\* LoadCorpus: admitted without being executed, except that a campaign with a state
\* model traces what has no trace, unless nothing was loaded.
LoadCorpus(entries) ==
    /\ corpus' = loaded(entries)
    /\ IF stateful /\ corpus' # corpus
       THEN \E n \in 1 .. Len(corpus') + 1 :
              LET r == traceCorpus(corpus', n)
              IN traces' = r.traces /\ findings' = r.findings
       ELSE UNCHANGED <<traces, findings>>
    /\ UNCHANGED <<stateful, virgin, known>>

\* Snapshot: the map is taken only when it is the whole of the feedback.
Snapshot == IF stateful THEN {} ELSE virgin

\* The counters of a set of entries.
CountersOf(S) == UNION {Counters(i) : i \in S}

\* Entry n of c is the one the next round of the greedy cover takes: the most counters
\* not yet covered, then the smallest, then the earliest.
IsBest(c, chosen, n) ==
    LET covered == CountersOf(chosen)
        gain(k) == Cardinality(Counters(c[k]) \ covered)
    IN \A m \in DOMAIN c :
         \/ gain(n) > gain(m)
         \/ gain(n) = gain(m) /\ Size[c[n]] < Size[c[m]]
         \/ gain(n) = gain(m) /\ Size[c[n]] = Size[c[m]] /\ n <= m

\* corpus.Distill: the entries the greedy cover of c takes, in that order, until
\* nothing is left uncovered.
IsCover(c, p) ==
    /\ \A k \in DOMAIN p :
         LET chosen == {c[p[m]] : m \in 1 .. k - 1}
         IN CountersOf(chosen) # CountersOf(ToSet(c)) /\ IsBest(c, chosen, p[k])
    /\ CountersOf({c[p[m]] : m \in DOMAIN p}) = CountersOf(ToSet(c))

\* The entries not kept are removed, from the back.
Without(c, kept) ==
    LET last(n) == Len(c) - n + 1
        after[n \in 0 .. Len(c)] ==
          IF n = 0 THEN c
          ELSE IF after[n - 1][last(n)] \in kept THEN after[n - 1]
          ELSE RemoveEntry(after[n - 1], last(n))
    IN after[Len(c)]

\* Distill: every entry is measured before any is removed.
Distill ==
    /\ \E p \in Arrangements(DOMAIN corpus) :
         /\ IsCover(corpus, p)
         /\ corpus' = Without(corpus, {corpus[p[m]] : m \in DOMAIN p})
    /\ UNCHANGED <<stateful, virgin, known, traces, findings>>
=============================================================================
