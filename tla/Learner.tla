------------------------------ MODULE Learner ------------------------------
(***************************************************************************)
(* Active learning of a protocol's state machine: Learn and its            *)
(* observation table (pkg/learn/lstar.go), and the teacher that answers a  *)
(* word by running one session of the target (internal/worker/learn.go).   *)
(*                                                                         *)
(* The target is a Mealy machine of LnTargets.  A transition to state 0 is *)
(* a target that answers and then closes the connection.  A word is a      *)
(* sequence of letters; a row of the table is what each suffix of lnE      *)
(* answered after an access word.                                          *)
(***************************************************************************)
EXTENDS Naturals, Sequences, FiniteSets, SequencesExt

CONSTANTS
    LnAlphabet,     \* the letters, in the order of opts.Alphabet
    LnTargets,      \* machines [states, trans, out] the target may be
    LnQueries,      \* opts.MaxQueries
    LnStates,       \* opts.MaxStates
    LnWords,        \* opts.EquivalenceWords
    LnLength,       \* opts.MaxWordLength
    LnPatience      \* after how many queries the campaign may stop the learner

VARIABLES
    lnTarget,       \* the target's machine
    lnLeft,         \* the queries after which the campaign's context is cancelled
    lnPhase,        \* "close" (the table), "search" (a counterexample) or "done"
    lnS,            \* access words
    lnE,            \* distinguishing suffixes
    lnRows,         \* the rows memoised for the present lnE
    lnAsked,        \* the words in the query cache
    lnHyp,          \* the hypothesis
    lnRounds,       \* rep.Rounds
    lnChecked,      \* rep.Checked
    lnWhy           \* how learning ended

vars == <<lnTarget, lnLeft, lnPhase, lnS, lnE, lnRows, lnAsked, lnHyp, lnRounds, lnChecked,
          lnWhy>>

Letters == ToSet(LnAlphabet)
Words == UNION {[1..n -> Letters] : n \in 1..LnLength}

\* The states a session of the word w passes through, 0 once the connection closed.
path(t, w) ==
    LET at[i \in 0..Len(w)] ==
            IF i = 0 THEN 1 ELSE IF at[i - 1] = 0 THEN 0 ELSE t.trans[at[i - 1]][w[i]]
    IN  at

(***************************************************************************)
(* sessionTeacher.Output.  The observer's trace begins with the start      *)
(* label, holds one label for every answered message and, when a message   *)
(* finds the connection closed, ends with "closed".  The answer is taken   *)
(* from the end of that trace.                                             *)
(***************************************************************************)
labelled(t, w, at, answered) ==
    <<"start">> \o [i \in 1..answered |-> t.out[at[i - 1]][w[i]]]
                \o (IF answered < Len(w) THEN <<"closed">> ELSE <<>>)
observed(t, w, at) == labelled(t, w, at, Cardinality({i \in 1..Len(w) : at[i - 1] # 0}))
stateLabels(t, w) == observed(t, w, path(t, w))

lastOf(labels, n) ==
    [i \in 1..n |-> IF Len(labels) + i > n THEN labels[Len(labels) + i - n] ELSE "closed"]
Output(t, w) == lastOf(stateLabels(t, w), Len(w))

(***************************************************************************)
(* The learner.  acc is what one call threads through: the access words,   *)
(* the memoised rows, the words asked, the first error, and whether the    *)
(* context is the campaign's (which can be cancelled) or Background.       *)
(***************************************************************************)
ask(acc, w) ==
    IF acc.err # "none" \/ w \in acc.asked THEN acc
    ELSE IF Cardinality(acc.asked) >= LnQueries THEN [acc EXCEPT !.err = "budget"]
    ELSE IF acc.ctx /\ Cardinality(acc.asked) >= lnLeft THEN [acc EXCEPT !.err = "cancelled"]
    ELSE [acc EXCEPT !.asked = @ \cup {w}]

\* The outputs of each suffix after the access word s.
answers(s) ==
    [i \in 1..Len(lnE) |-> SubSeq(Output(lnTarget, s \o lnE[i]), Len(s) + 1, Len(s \o lnE[i]))]

memo(rows, s, r) == [w \in DOMAIN rows \cup {s} |-> IF w = s THEN r ELSE rows[w]]

memoised(acc, s) == IF acc.err # "none" THEN acc ELSE [acc EXCEPT !.rows = memo(@, s, answers(s))]

row(acc, s) ==
    IF acc.err # "none" \/ s \in DOMAIN acc.rows THEN acc
    ELSE memoised(FoldLeft(LAMBDA a, e : ask(a, s \o e), acc, lnE), s)

table(ctx) == [s |-> lnS, rows |-> lnRows, asked |-> lnAsked, err |-> "none", ctx |-> ctx]

known(acc) == {acc.rows[w] : w \in ToSet(acc.s) \cap DOMAIN acc.rows}

\* One symbol more than an access word; a new row becomes an access word.
admit(acc, s) ==
    IF acc.err # "none" \/ acc.rows[s] \in known(acc) THEN acc ELSE [acc EXCEPT !.s = Append(@, s)]
extend(acc, ext) == admit(row(acc, ext), ext)

extensions(s) == [i \in 1..Len(LnAlphabet) |-> Append(s, LnAlphabet[i])]

\* One pass of learner.close over the access words it began with.
allExtensions(words) == FlattenSeq([i \in 1..Len(words) |-> extensions(words[i])])
closePass == FoldLeft(extend, FoldLeft(row, table(TRUE), lnS), allExtensions(lnS))

(***************************************************************************)
(* learner.hypothesis.  It asks with Background, so what the campaign's    *)
(* context refused it asks the target after all.  A transition whose row   *)
(* cannot be had is left out, one whose row is not an access word's goes   *)
(* to the initial state.                                                   *)
(***************************************************************************)
\* The state whose row is r, the initial one when there is none.
stateOf(rows, reps, r) ==
    CHOOSE i \in 1..Len(reps) :
        \/ reps[i] \in DOMAIN rows /\ rows[reps[i]] = r
        \/ i = 1 /\ \A j \in 1..Len(reps) : reps[j] \in DOMAIN rows => rows[reps[j]] # r

seen(reps, i, words) == {a \in Letters : Append(reps[i], a) \in words}

machine(reps, full) ==
    [rows |-> full.rows,
     asked |-> full.asked,
     m |-> [access |-> reps,
            trans |-> [i \in 1..Len(reps) |-> [a \in seen(reps, i, DOMAIN full.rows) |->
                            stateOf(full.rows, reps, full.rows[Append(reps[i], a)])]],
            out |-> [i \in 1..Len(reps) |-> [a \in seen(reps, i, DOMAIN full.rows \cap full.asked) |->
                            Last(Output(lnTarget, Append(reps[i], a)))]]]]

\* An error in one row does not keep the next from being asked for.
filled(reps, acc) ==
    machine(reps, FoldLeft(LAMBDA a, w : [row(a, w) EXCEPT !.err = "none"],
                           [acc EXCEPT !.err = "none"], allExtensions(reps)))
states(acc) == filled(IF acc.s = <<>> THEN << <<>> >> ELSE acc.s, acc)

\* The states are the access words of distinct rows, the first of each.
hypothesis(from) ==
    states(FoldLeft(extend, [from EXCEPT !.s = <<>>, !.err = "none", !.ctx = FALSE], from.s))

\* Mealy.Run: a symbol the machine never saw answers nothing and moves nowhere.
walk(m, w) ==
    LET at[i \in 0..Len(w)] ==
            IF i = 0 THEN 1
            ELSE IF w[i] \in DOMAIN m.out[at[i - 1]] THEN m.trans[at[i - 1]][w[i]] ELSE at[i - 1]
    IN  at
said(m, w, at) ==
    [i \in 1..Len(w) |-> IF w[i] \in DOMAIN m.out[at[i - 1]] THEN m.out[at[i - 1]][w[i]] ELSE "none"]
Run(m, w) == said(m, w, walk(m, w))

Init ==
    /\ lnTarget \in LnTargets
    /\ lnLeft \in LnPatience
    /\ lnPhase = "close"
    /\ lnS = << <<>> >>
    /\ lnE = [i \in 1..Len(LnAlphabet) |-> <<LnAlphabet[i]>>]
    /\ lnRows = [w \in {} |-> <<>>]
    /\ lnAsked = {}
    /\ lnHyp = [access |-> <<>>, trans |-> <<>>, out |-> <<>>]
    /\ lnRounds = 0
    /\ lnChecked = 0
    /\ lnWhy = "running"

\* learner.report: the table as far as it got, and why.
report(acc, why) ==
    /\ lnPhase' = "done"
    /\ lnWhy' = why
    /\ lnS' = acc.s
    /\ \E h \in {hypothesis(acc)} : lnRows' = h.rows /\ lnAsked' = h.asked /\ lnHyp' = h.m
    /\ UNCHANGED <<lnTarget, lnLeft, lnE, lnRounds, lnChecked>>

tableLimit == LnStates * Len(LnAlphabet) + LnStates
maxRounds == LnStates * Len(LnAlphabet) + 16

\* A pass that added an access word is followed by another, within the guard's limit.
closeAgain(acc) ==
    /\ acc.err = "none"
    /\ Len(acc.s) > Len(lnS)
    /\ IF Len(acc.s) > tableLimit
       THEN report(acc, "budget")
       ELSE /\ lnS' = acc.s
            /\ lnRows' = acc.rows
            /\ lnAsked' = acc.asked
            /\ UNCHANGED <<lnTarget, lnLeft, lnPhase, lnE, lnHyp, lnRounds, lnChecked, lnWhy>>

\* An error ends the learning with the hypothesis of the table as it is.
closeFails(acc) == acc.err # "none" /\ report(acc, acc.err)

\* The table is closed: a hypothesis, and the bounds on rounds and states.
closed(acc) ==
    /\ acc.err = "none"
    /\ acc.s = lnS
    /\ \E h \in {hypothesis(acc)} :
        /\ lnRows' = h.rows
        /\ lnAsked' = h.asked
        /\ lnHyp' = h.m
        /\ IF lnRounds + 1 > maxRounds \/ Len(h.m.trans) >= LnStates
           THEN lnPhase' = "done" /\ lnWhy' = IF lnRounds + 1 > maxRounds THEN "rounds" ELSE "states"
           ELSE lnPhase' = "search" /\ UNCHANGED lnWhy
    /\ lnRounds' = lnRounds + 1
    /\ lnChecked' = 0
    /\ UNCHANGED <<lnTarget, lnLeft, lnS, lnE>>

close ==
    /\ lnPhase = "close"
    /\ \E acc \in {closePass} : closeAgain(acc) \/ closeFails(acc) \/ closed(acc)

\* The first position at which two answers differ, 0 when they agree.
firstWrong(x, y) ==
    CHOOSE k \in 0..Len(x) : /\ k = 0 => x = y
                             /\ k > 0 => x[k] # y[k] /\ \A l \in 1..k - 1 : x[l] = y[l]

\* Mistake: the prefix before the disagreement.
disagreementShort(w) == SubSeq(w, 1, firstWrong(Run(lnHyp, w), Output(lnTarget, w)) - 1)

\* The prefix of w up to and including the first answer the hypothesis gets wrong.
disagreement(w) == SubSeq(w, 1, firstWrong(Run(lnHyp, w), Output(lnTarget, w)))

\* Mistake: the counterexample itself is the only new column.
newSuffixesWhole(cx) == IF cx \in ToSet(lnE) THEN <<>> ELSE <<cx>>

\* The suffixes of a counterexample that are not columns yet, longest first.
newSuffixes(cx) ==
    SelectSeq([i \in 1..Len(cx) |-> SubSeq(cx, i, Len(cx))], LAMBDA suf : suf \notin ToSet(lnE))

\* Mistake: the rows of the old columns are kept.
addSuffixesKeepsRows(cx) ==
    /\ IF newSuffixes(cx) = <<>>
       THEN lnPhase' = "done" /\ lnWhy' = "no new suffix" /\ UNCHANGED lnE
       ELSE lnE' = lnE \o newSuffixes(cx) /\ lnPhase' = "close" /\ UNCHANGED lnWhy
    /\ UNCHANGED lnRows

\* learner.addSuffixes, and Learn's verdict on a counterexample that adds none.
addSuffixes(cx) ==
    IF newSuffixes(cx) = <<>>
    THEN /\ lnPhase' = "done"
         /\ lnWhy' = "no new suffix"
         /\ UNCHANGED <<lnE, lnRows>>
    ELSE /\ lnE' = lnE \o newSuffixes(cx)
         /\ lnRows' = [w \in {} |-> <<>>]
         /\ lnPhase' = "close"
         /\ UNCHANGED lnWhy

\* One word of findCounterexample; the last of LnWords that agrees settles the machine.
sample(w) ==
    /\ lnPhase = "search"
    /\ \E acc \in {ask(table(TRUE), w)} :
        /\ lnAsked' = acc.asked
        /\ IF acc.err # "none"
           THEN /\ lnPhase' = "done"
                /\ lnWhy' = acc.err
                /\ UNCHANGED <<lnE, lnRows, lnChecked>>
           ELSE /\ lnChecked' = lnChecked + 1
                /\ IF Run(lnHyp, w) # Output(lnTarget, w)
                   THEN \E cx \in {disagreement(w)} : addSuffixes(cx)
                   ELSE /\ lnPhase' = IF lnChecked + 1 = LnWords THEN "done" ELSE "search"
                        /\ lnWhy' = IF lnChecked + 1 = LnWords THEN "settled" ELSE lnWhy
                        /\ UNCHANGED <<lnE, lnRows>>
    /\ UNCHANGED <<lnTarget, lnLeft, lnS, lnHyp, lnRounds>>

Next == close \/ \E w \in Words : sample(w)

Spec == Init /\ [][Next]_vars

TypeOK ==
    /\ lnPhase \in {"close", "search", "done"}
    /\ lnRounds \in 0..maxRounds + 1
    /\ lnChecked \in 0..LnWords
    /\ \A s \in ToSet(lnS) : s \in Seq(Letters)
    /\ Cardinality(lnAsked) <= LnQueries

\* The target never closes the connection on a message of the alphabet.
NeverCloses == \A s \in 1..lnTarget.states, a \in Letters : lnTarget.trans[s][a] # 0

(***************************************************************************)
(* The hypothesis of a closed table answers every question of the table as *)
(* the target did, for as many rounds as it takes: the columns are closed  *)
(* under suffixes, so a state that the machine moves to is the row that    *)
(* the table says (hypothesis, addSuffixes).                               *)
(***************************************************************************)
MachineExplainsTable ==
    (lnPhase = "search" /\ NeverCloses) =>
        \A s \in ToSet(lnS), e \in ToSet(lnE) : Run(lnHyp, s \o e) = Output(lnTarget, s \o e)

(***************************************************************************)
(* "A suffix that distinguishes the counterexample splits at least one     *)
(* state, so each round makes the table strictly finer": a target that is  *)
(* a machine is never said to answer the same question in two ways, and    *)
(* needs no more rounds than it has states, nor do more states come out of *)
(* it than it has.                                                         *)
(***************************************************************************)
EachRoundSplits ==
    NeverCloses => /\ lnWhy \notin {"no new suffix", "rounds"}
                   /\ lnRounds <= lnTarget.states
                   /\ Len(lnHyp.access) <= lnTarget.states
=============================================================================
