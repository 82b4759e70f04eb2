------------------------------ MODULE MCGuard -------------------------------
(***************************************************************************)
(* What stands between the fuzzer and other programs: the spawner, the     *)
(* scope, the protocol of an extension, the proxy that records, and, for a *)
(* target with an interface, the connection to a browser, the sequences of *)
(* the driver and the terminal.  A behaviour exercises the one that part   *)
(* names.                                                                  *)
(***************************************************************************)
EXTENDS Naturals, Sequences, FiniteSets

CONSTANTS
    SpParties,
    PlFeedbacks, PlOthers, PlJudgements,
    ScBits, ScPublic, ScLoopback, ScPorts, ScNames, ScRules,
    RcConns, RcRequests,
    CdCalls, CdInbox, CdPings, CdNobody,
    UiKinds, UiSeqs, UiEvents, UiLaunches,
    VtSizes, VtFirst, VtWrites, VtParams, VtString, VtOps,
    Parts

VARIABLES
    part,
    spMode, spLeader, spEscaped, spWaited, spCancelled, spRun, spResult, spExited, spKilled,
    spParty,
    plFailed, plPending, plId, plRequest, plReply, plPhase, plFor, plDecided, plCommits,
    plJudged, plUnsettled, plAlive,
    scName, scRules, scWorker, scAck, scLoop, scRemote, scAuth, scState, scAudit, scChecked,
    scReached,
    rcCA, rcListening, rcServe, rcAt, rcOpen, rcTracked, rcClosed, rcClose, rcAsked, rcNow,
    rcAnswered, rcExchanges, rcTunnelled,
    cdCall, cdAnswer, cdPending, cdChan, cdLock, cdAsked, cdIn, cdMsg, cdReader, cdClosed,
    cdSocket, cdBrowser, cdStop, cdPinged,
    uiKind, uiSeq, uiPhase, uiLate, uiLeft, uiMade, uiUp, uiDead, uiReaped, uiCur, uiPages,
    uiPage, uiOpen, uiProblems, uiLoaded, uiGone, uiBegan, uiVerdict,
    vtTerm, vtDone, vtErased

\* The two values of plFor that are no extension, and the reply that has not come, are values
\* of their own.
ASSUME GuardAssumption ==
    /\ PlJudgements \in Nat
    /\ {"none", "closing"} \cap PlFeedbacks = {}
    /\ "none" \notin CdCalls

Sp == INSTANCE Spawner
Pl == INSTANCE PluginHost
Sc == INSTANCE Scope
Rc == INSTANCE Recorder
Cd == INSTANCE Cdp
Ui == INSTANCE UiDriver
Vt == INSTANCE Terminal

spVars == <<spMode, spLeader, spEscaped, spWaited, spCancelled, spRun, spResult, spExited,
            spKilled, spParty>>
plVars == <<plFailed, plPending, plId, plRequest, plReply, plPhase, plFor, plDecided,
            plCommits, plJudged, plUnsettled, plAlive>>
scVars == <<scName, scRules, scWorker, scAck, scLoop, scRemote, scAuth, scState, scAudit,
            scChecked, scReached>>
rcVars == <<rcCA, rcListening, rcServe, rcAt, rcOpen, rcTracked, rcClosed, rcClose, rcAsked,
            rcNow, rcAnswered, rcExchanges, rcTunnelled>>
cdVars == <<cdCall, cdAnswer, cdPending, cdChan, cdLock, cdAsked, cdIn, cdMsg, cdReader,
            cdClosed, cdSocket, cdBrowser, cdStop, cdPinged>>
uiVars == <<uiKind, uiSeq, uiPhase, uiLate, uiLeft, uiMade, uiUp, uiDead, uiReaped, uiCur,
            uiPages, uiPage, uiOpen, uiProblems, uiLoaded, uiGone, uiBegan, uiVerdict>>
vtVars == <<vtTerm, vtDone, vtErased>>
guardVars == <<spVars, plVars, scVars, rcVars>>
uiTargetVars == <<cdVars, uiVars, vtVars>>
vars == <<part, guardVars, uiTargetVars>>

\* A part that is not exercised starts in one fixed state.
Init ==
    /\ part \in Parts
    /\ IF part = "spawner" THEN Sp!Init ELSE Sp!Init /\ spMode = "run"
    /\ Pl!Init
    /\ IF part = "scope" THEN Sc!Init
       ELSE /\ Sc!Init
            /\ scName = CHOOSE as \in ScNames : TRUE
            /\ scAck = FALSE /\ scLoop = FALSE /\ scRemote = FALSE /\ scAuth = "absent"
    /\ IF part = "proxy" THEN Rc!Init ELSE Rc!Init /\ rcCA = FALSE
    /\ Cd!Init
    /\ IF part = "driver" THEN Ui!Init ELSE Ui!Init /\ uiKind = "tui"
    /\ Vt!Init

Next ==
    \/ part = "spawner" /\ Sp!Next /\ UNCHANGED <<part, plVars, scVars, rcVars, uiTargetVars>>
    \/ part = "plugin" /\ Pl!Next /\ UNCHANGED <<part, spVars, scVars, rcVars, uiTargetVars>>
    \/ part = "scope" /\ Sc!Next /\ UNCHANGED <<part, spVars, plVars, rcVars, uiTargetVars>>
    \/ part = "proxy" /\ Rc!Next /\ UNCHANGED <<part, spVars, plVars, scVars, uiTargetVars>>
    \/ part = "cdp" /\ Cd!Next /\ UNCHANGED <<part, guardVars, uiVars, vtVars>>
    \/ part = "driver" /\ Ui!Next /\ UNCHANGED <<part, guardVars, cdVars, vtVars>>
    \/ part = "terminal" /\ Vt!Next /\ UNCHANGED <<part, guardVars, cdVars, uiVars>>

\* Fairness is assumed of the part that is exercised.
Spec ==
    /\ Init /\ [][Next]_vars
    /\ part = "spawner" => Sp!Fairness
    /\ part = "proxy" => Rc!Fairness

UiSpec == Init /\ [][Next]_vars /\ (part = "cdp" => Cd!Fairness)

\* An execution always comes back from the spawner, and a process's end
\* releases every goroutine that waits for it (Spawner).
SpawnedComesBack == Sp!RunReturns /\ Sp!WaitersAreReleased

\* A plugin is told every decision, in order and in time (PluginHost).
SettlementArrives == Pl!TypeOK /\ Pl!SettlementArrives

\* Nothing outside the scope is reached (Scope).
ScopeIsEnforced == Sp!TypeOK /\ Sc!TypeOK /\ Sc!ScopeIsEnforced

\* A capture holds what its clients saw (Recorder).
CaptureIsComplete == Rc!TypeOK /\ Rc!CaptureIsComplete

\* The proxy stops when it is told to (Recorder).
CloseReturns == Rc!CloseReturns

\* A call gets the reply to itself or none (Cdp).
ReplyIsOwn == Cd!TypeOK /\ Cd!ReplyIsOwn

\* Stopping the browser ends, whatever it answers, and frees every caller (Cdp).
StopEnds == Cd!StopEnds

\* A sequence is judged by what happened in it, and a program that was started
\* belongs to somebody who will end it (UiDriver).
SequenceIsOwn == Ui!TypeOK /\ Ui!SequenceIsOwn /\ Ui!ProgramsAreOwned

\* The cursor, the region and the grid fit each other (Terminal).
ScreenIsSound == Vt!ScreenIsSound

\* The screen stays sound through every write and resize, and what is outside
\* the scroll region stays where it is (Terminal).
TerminalIsSound == []ScreenIsSound /\ Vt!RegionHolds

----------------------------------------------------------------------------
(* Statements of the code's comments that the code does not keep: TLC       *)
(* refutes each of them, the first where another extension has the name of  *)
(* a feedback.                                                              *)

\* protocol.go, Keep: settling with the next call "loses nothing" (PluginHost).
SettlementIsNotLost == Pl!SettlementArrives

\* scope.go: what was checked is what is connected to (Scope).
CheckedIsDialled == Sc!CheckedIsDialled

\* scope.go: the allowlist in use is the one that was attested to (Scope).
AttestedIsChecked == Sc!AttestedIsChecked

\* scope.go: refusals and control channels are audited (Scope).
DecisionsAreAudited == Sc!DecisionsAreAudited

\* scope.go: a rule that covers a public address is acknowledged (Scope).
PublicIsAcknowledged == Sc!PublicIsAcknowledged

\* tui.go: a program that died is not recorded as a clean run (UiDriver).
CrashIsSeen == Ui!CrashIsSeen

----------------------------------------------------------------------------
(* A small terminal for TLC. *)

TermFirst == <<3, 3>>
TermSizes == {<<3, 3>>, <<2, 2>>}
NarrowSizes == {<<1, 2>>}
Finals == {"A", "C", "D", "E", "H", "J", "K", "L", "M", "P", "S", "T", "X", "Z", "@", "d", "r", "I"}
CSI(params, final) == <<"ESC", "[">> \o params \o <<final>>
TermWrites ==
    {<<"x">>, <<"lead", "ST8">>, <<"lead", "mark2">>, <<"BS">>, <<"HT">>, <<"LF">>, <<"CR">>} \cup
    {<<"lead">>, <<"ST8">>, <<"ESC">>, <<"ESC", "[", "n2", ";">>, <<"ESC", "]", "x">>, <<"CAN">>} \cup
    {<<"ESC", c>> : c \in {"D", "E", "M", "n7", "n8", "c", "("}} \cup
    {CSI(p, f) : p \in {<<>>, <<"n2">>}, f \in Finals} \cup
    {CSI(<<"n2", ";", "n3">>, f) : f \in {"H", "r"}} \cup
    {CSI(<<"n1", ";", "n2">>, f) : f \in {"H", "r"}} \cup
    {CSI(<<"n3", ";", "n1", ";", "n1">>, "H"), CSI(<<"!">>, "p")} \cup
    {CSI(m, f) : m \in {<<"n4">>, <<"?", "n6">>, <<"?", "n7">>, <<"?", "n47">>, <<"?", "n1049">>},
                 f \in {"h", "l"}}
=============================================================================
