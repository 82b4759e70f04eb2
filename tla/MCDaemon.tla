------------------------------- MODULE MCDaemon -----------------------------
(***************************************************************************)
(* Four parts of the daemon and its workers that share no variable: the    *)
(* registry under concurrent requests, the synchronisation of the workers' *)
(* corpora, the counters of a campaign made into a budget and a history,   *)
(* and the states a worker saw made into a choice of seeds.  A behaviour   *)
(* exercises one of them, the one that part names.                         *)
(***************************************************************************)
EXTENDS Naturals, Sequences, FiniteSets, Functions

CONSTANTS
    Requests, Names, Dirs, Nobody, MaxCampaigns,
    Procs, Found, OutboxDepth, MaxCrashes, MaxSaveFails,
    Sources, Intervals, PerLevel, Retention, ExecBudget, MaxTime, MaxExecs, MaxResets,
    SgTarget, SgMessages, SgLength, SgLabels, SgTraces, SgRare, SgDeclared, SgAppends, SgSetups,
    Parts

ASSUME DaemonAssumption == Nobody \notin Requests /\ OutboxDepth \in Nat

\* There are finitely many workers, and every level of the history has an interval and room.
ASSUME MetricsAssumption ==
    /\ IsFiniteSet(Sources)
    /\ Intervals \in Seq(Nat \ {0}) /\ {PerLevel, MaxTime} \subseteq Nat \ {0}
    /\ {Retention, ExecBudget, MaxExecs} \subseteq Nat

\* A target answers every message in every state it can be in, with one of its labels, of
\* which the label of a new session is none; the trace store has room.
ASSUME GuidanceAssumption ==
    /\ 1 \in DOMAIN SgTarget.trans
    /\ \A q \in DOMAIN SgTarget.trans, m \in SgMessages :
          SgTarget.trans[q][m] \in DOMAIN SgTarget.trans /\ SgTarget.out[q][m] \in Range(SgLabels)
    /\ SgLabels \in Seq(Range(SgLabels)) \ {<<>>} /\ "start" \notin Range(SgLabels)
    /\ SgTraces \in Nat \ {0} /\ {SgLength, SgAppends} \subseteq Nat

VARIABLES
    part,
    campaigns, stores, opened, rows, object, request, daemon, closing,
    corpus, reported, upPipe, onPump, seen, saved, pending, outbox, flushing, missed,
    unsaved, bereft, queued, crashes, saveFails,
    clock, did, perWorker, current, levels, lastAt, truth, added, resets,
    sgTier, sgAlone, sgCorpus, sgDropped, sgStates, sgMoves, sgIllegal, sgStore, sgPending, sgAim,
    sgLast, sgCount

Reg == INSTANCE Registry
Sync == INSTANCE CorpusSync
Met == INSTANCE Metrics
Sg == INSTANCE StateGuidance

regVars == <<campaigns, stores, opened, rows, object, request, daemon, closing>>
syncVars == <<corpus, reported, upPipe, onPump, seen, saved, pending, outbox, flushing,
              missed, unsaved, bereft, queued, crashes, saveFails>>
metricVars == <<clock, did, perWorker, current, levels, lastAt, truth, added, resets>>
sgVars == <<sgTier, sgAlone, sgCorpus, sgDropped, sgStates, sgMoves, sgIllegal, sgStore,
            sgPending, sgAim, sgLast, sgCount>>
vars == <<part, regVars, syncVars, metricVars, sgVars>>

\* The variables of a part that is not exercised stay 0, or in its first state.
Init ==
    /\ part \in Parts /\ Reg!Init /\ Sync!Init
    /\ IF part = "metrics" THEN Met!Init
       ELSE /\ clock = 0 /\ did = 0 /\ perWorker = 0 /\ current = 0 /\ levels = 0
            /\ lastAt = 0 /\ truth = 0 /\ added = 0 /\ resets = 0
    /\ IF part = "guidance" THEN Sg!Init
       ELSE /\ sgTier = 0 /\ sgAlone = 0 /\ sgCorpus = 0 /\ sgDropped = 0 /\ sgStates = 0
            /\ sgMoves = 0 /\ sgIllegal = 0 /\ sgStore = 0 /\ sgPending = 0 /\ sgAim = 0
            /\ sgLast = 0 /\ sgCount = 0

Next ==
    \/ part = "registry" /\ Reg!Next /\ UNCHANGED <<part, syncVars, metricVars, sgVars>>
    \/ part = "sync" /\ Sync!Next /\ UNCHANGED <<part, regVars, metricVars, sgVars>>
    \/ part = "metrics" /\ Met!Next /\ UNCHANGED <<part, regVars, syncVars, sgVars>>
    \/ part = "guidance" /\ Sg!Next /\ UNCHANGED <<part, regVars, syncVars, metricVars>>

Spec == Init /\ [][Next]_vars /\ (part = "sync" => Sync!Fairness)

\* storeAt opens a directory once, and a campaign has one id and one seed,
\* however the requests interleave (Registry).
RegistryIsSound == Reg!TypeOK /\ Reg!OneHandlePerStore /\ Reg!OneSeedPerCampaign

\* A discovery that a worker reported is kept, and queued for the siblings once
\* (CorpusSync).
ReportedIsKept == Sync!TypeOK /\ Sync!ReportedIsKept /\ Sync!OneRound

\* The execution budget never ends a campaign early, and thinning the history
\* keeps its shape (Metrics).
CountersAreTrue == part = "metrics" => Met!TypeOK /\ Met!BudgetIsSpent /\ Met!ShapeIsKept

\* Seeds for the states that were counted are kept, but for what a distillation drops, the
\* messages that lead to the aim are left alone, and the counts balance (StateGuidance).
GuidanceIsSound == part = "guidance" => Sg!TypeOK /\ Sg!GuidanceIsSound

\* A stored discovery reaches every worker or is counted as dropped (CorpusSync).
Spreads == Sync!Spreads

----------------------------------------------------------------------------
(* Three statements of the code's comments that the code does not keep: TLC *)
(* refutes each of them in this instance.                                   *)

\* daemon.go, Close: "Close stops every campaign" (Registry).
CloseStopsEveryCampaign == Reg!CloseStopsEveryCampaign

\* worker.go, Send: the next round carries what was dropped (CorpusSync).
NextRoundCarriesIt == Sync!NextRoundCarriesIt

\* engine.go, Distill: a kept entry reaches what a dropped one reached (StateGuidance).
DistillationKeepsStates == part = "guidance" => Sg!DistillationKeepsStates

----------------------------------------------------------------------------
(* Values of the constants.                                                *)

MCIntervals == <<2, 3>>

\* A server of three states with two messages.
OnMessage(x, y) == [m \in {"a", "b"} |-> IF m = "a" THEN x ELSE y]
Server == [trans |-> <<OnMessage(1, 2), OnMessage(3, 2), OnMessage(3, 1)>>,
           out |-> <<OnMessage("s", "u"), OnMessage("v", "s"), OnMessage("s", "s")>>]
Labels == <<"s", "u", "v">>
Setups == {<<"driver", FALSE>>, <<"session", TRUE>>}
Legal == {<<"start", "s">>, <<"s", "u">>, <<"u", "v">>, <<"start", "u">>}
=============================================================================
