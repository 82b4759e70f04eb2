------------------------------ MODULE UiDriver ------------------------------
(***************************************************************************)
(* pkg/executor/driver.go over the backends of internal/driver: one        *)
(* sequence of events after another against a program with an interface,   *)
(* a terminal program (tui.go), a desktop application (gui.go) or a page   *)
(* in a browser (web.go).                                                  *)
(*                                                                         *)
(* Programs and pages are numbered in the order they are created.  Between *)
(* sequences a terminal program and an application are restarted; a        *)
(* browser is kept and given a new page, and restarted when that fails.    *)
(***************************************************************************)
EXTENDS Naturals, FiniteSets

CONSTANTS
    UiKinds,      \* the backends: "tui", "gui", "web"
    UiSeqs,       \* sequences run
    UiEvents,     \* events of a sequence
    UiLaunches    \* programs, and pages, started

VARIABLES
    uiKind,       \* the backend
    uiSeq,        \* sequences started
    uiPhase,      \* where the driver is
    uiLate,       \* the sequence's context is done
    uiLeft,       \* events left
    uiMade,       \* programs started
    uiUp,         \* programs running
    uiDead,       \* programs that crashed by themselves
    uiReaped,     \* programs whose exit the backend has recorded
    uiCur,        \* the backend's current session; 0 is none
    uiPages,      \* pages created
    uiPage,       \* the session's page
    uiOpen,       \* pages that have not been closed
    uiProblems,   \* pages whose problems the session holds
    uiLoaded,     \* what the wait for a load has seen: none, armed, or a page
    uiGone,       \* whether the program had died when the last event settled: "no", "missed",
                  \* or "waited" for
    uiBegan,      \* the program this sequence began with
    uiVerdict     \* what the last sequence was judged on

uiVars == <<uiKind, uiSeq, uiPhase, uiLate, uiLeft, uiMade, uiUp, uiDead, uiReaped, uiCur,
            uiPages, uiPage, uiOpen, uiProblems, uiLoaded, uiGone, uiBegan, uiVerdict>>

NoVerdict == [kind |-> "none", of |-> 0, problems |-> {}, page |-> 0, before |-> 0]

Init ==
    /\ uiKind \in UiKinds
    /\ uiSeq = 0 /\ uiPhase = "new" /\ uiLate = FALSE /\ uiLeft = 0
    /\ uiMade = 0 /\ uiUp = {} /\ uiDead = {} /\ uiReaped = {} /\ uiCur = 0
    /\ uiPages = 0 /\ uiPage = 0 /\ uiOpen = {} /\ uiProblems = {} /\ uiLoaded = "none"
    /\ uiGone = "no" /\ uiBegan = 0
    /\ uiVerdict = NoVerdict

progVars == <<uiMade, uiUp, uiDead, uiReaped>>
pageVars == <<uiPages, uiPage, uiOpen, uiProblems, uiLoaded>>
runVars == <<uiKind, uiSeq, uiLate, uiLeft, uiGone, uiBegan, uiVerdict>>

Goto(phase) == uiPhase' = phase

-----------------------------------------------------------------------------
(* Programs and pages. *)

\* The program under test ends by itself, or the browser does.
Die(g) ==
    /\ g \in uiUp
    /\ uiUp' = uiUp \ {g} /\ uiDead' = uiDead \cup {g}
    /\ UNCHANGED <<runVars, uiPhase, uiMade, uiReaped, uiCur, pageVars>>

\* The goroutine that waits for the process records its exit.
watch(g) ==
    /\ g \in 1..uiMade /\ g \notin uiUp /\ g \notin uiReaped
    /\ uiReaped' = uiReaped \cup {g}
    /\ UNCHANGED <<runVars, uiPhase, uiMade, uiUp, uiDead, uiCur, pageVars>>

\* An event of a page: it is recorded for the session, whichever page sent it.
onEvent(p) ==
    /\ uiKind = "web" /\ p \in uiOpen /\ uiCur \in uiUp
    /\ \/ uiProblems' = uiProblems \cup {p} /\ UNCHANGED uiLoaded
       \/ uiLoaded = "armed" /\ uiLoaded' = "loaded" /\ UNCHANGED uiProblems
    /\ UNCHANGED <<runVars, uiPhase, progVars, uiCur, uiPages, uiPage, uiOpen>>

\* The sequence's timeout passes.
expire ==
    /\ uiPhase \notin {"new", "idle", "closed"} /\ ~uiLate
    /\ uiLate' = TRUE
    /\ UNCHANGED <<uiKind, uiSeq, uiLeft, uiGone, uiBegan, uiVerdict, uiPhase, progVars, uiCur,
                   pageVars>>

\* stop, pty.Close: the process of a session is killed and waited for.
killed(g) == /\ uiUp' = uiUp \ {g}
             /\ uiReaped' = uiReaped \cup ({g} \ {0})

-----------------------------------------------------------------------------
(* launch, startLocked. *)

launch ==
    /\ uiPhase \in {"new", "launch"}
    /\ uiMade < UiLaunches
    /\ uiMade' = uiMade + 1 /\ uiUp' = uiUp \cup {uiMade + 1}
    /\ Goto(IF uiPhase = "new" THEN "firstawait" ELSE "await")
    /\ UNCHANGED <<runVars, uiDead, uiReaped, uiCur, pageVars>>

\* The interface is up: a session with its first page becomes the current one.
launched ==
    /\ uiPhase \in {"firstawait", "await"}
    /\ uiPages < UiLaunches
    /\ uiCur' = uiMade
    /\ uiPages' = uiPages + 1 /\ uiPage' = uiPages + 1 /\ uiOpen' = {uiPages + 1}
    /\ uiProblems' = {} /\ uiLoaded' = "none"
    /\ IF uiPhase = "firstawait" THEN Goto("idle") /\ UNCHANGED uiBegan
       ELSE Goto("first") /\ uiBegan' = uiMade
    /\ UNCHANGED <<uiKind, uiSeq, uiLate, uiLeft, uiGone, uiVerdict, progVars>>

\* Run's end when the reset failed: a timeout, or an error that ends the worker.
resetFailed ==
    /\ IF uiLate THEN Goto("idle") /\ uiVerdict' = [NoVerdict EXCEPT !.kind = "timeout"]
       ELSE Goto("failed") /\ uiVerdict' = [NoVerdict EXCEPT !.kind = "error"]
    /\ UNCHANGED <<uiKind, uiSeq, uiLate, uiLeft, uiGone, uiBegan>>

\* Mistake: a program that does not become ready is left running.
launchFailsLeaks ==
    /\ uiPhase = "await" /\ uiKind # "tui"
    /\ resetFailed
    /\ UNCHANGED <<progVars, uiCur, pageVars>>

\* The application published no tree, the browser no endpoint, or the context
\* ended first.  (A terminal program has no such step: its settle only waits.)
launchFails ==
    /\ uiPhase = "await" /\ uiKind # "tui"
    /\ killed(uiMade)
    /\ resetFailed
    /\ UNCHANGED <<uiMade, uiDead, uiCur, pageVars>>

startFails ==
    /\ uiPhase = "firstawait" /\ uiKind # "tui"
    /\ killed(uiMade)
    /\ Goto("failed")
    /\ UNCHANGED <<runVars, uiMade, uiDead, uiCur, pageVars>>

spawnFails ==
    /\ uiPhase = "launch"
    /\ resetFailed
    /\ UNCHANGED <<progVars, uiCur, pageVars>>

-----------------------------------------------------------------------------
(* Run. *)

Run ==
    /\ uiPhase = "idle" /\ uiSeq < UiSeqs
    /\ uiSeq' = uiSeq + 1 /\ uiLate' = FALSE /\ uiLeft' = UiEvents
    /\ uiVerdict' = NoVerdict /\ uiGone' = "no"
    /\ Goto("reset")
    /\ UNCHANGED <<uiKind, uiBegan, progVars, uiCur, pageVars>>

\* A terminal program and an application are stopped before the next is started.
\* An application's session is dropped first, a terminal's once it has ended.
restart ==
    /\ uiPhase = "reset" /\ uiKind \in {"tui", "gui"}
    /\ killed(uiCur)
    /\ uiCur' = 0
    /\ Goto("launch")
    /\ UNCHANGED <<runVars, uiMade, uiDead, pageVars>>

\* A browser whose connection is known to be gone.
relaunch ==
    /\ uiPhase = "reset" /\ uiKind = "web" /\ uiCur \notin uiUp
    /\ killed(uiCur)
    /\ Goto("launch")
    /\ UNCHANGED <<runVars, uiMade, uiDead, uiCur, pageVars>>

\* newPage: the new page exists before the old one is closed.
newPage ==
    /\ uiPhase = "reset" /\ uiKind = "web" /\ uiCur \in uiUp
    /\ uiPages < UiLaunches
    /\ uiPages' = uiPages + 1 /\ uiPage' = uiPages + 1 /\ uiOpen' = uiOpen \cup {uiPages + 1}
    /\ uiProblems' = {}
    /\ Goto("oldpage")
    /\ UNCHANGED <<runVars, progVars, uiCur, uiLoaded>>

\* Mistake: the page of the sequence before is left open.
closeOldLeaves ==
    /\ uiPhase = "oldpage"
    /\ Goto("navigate")
    /\ UNCHANGED <<runVars, progVars, uiCur, pageVars>>

\* The old page is closed; when the call times out it stays.
closeOld ==
    /\ uiPhase = "oldpage"
    /\ \/ uiCur \in uiUp /\ ~uiLate /\ uiOpen' = uiOpen \ {uiPage - 1}
       \/ (uiCur \notin uiUp \/ uiLate) /\ UNCHANGED uiOpen
    /\ Goto("navigate")
    /\ UNCHANGED <<runVars, progVars, uiCur, uiPages, uiPage, uiProblems, uiLoaded>>

\* Storage is cleared, best effort; the wait is armed and the page navigates.
navigate ==
    /\ uiPhase = "navigate" /\ uiCur \in uiUp /\ ~uiLate
    /\ uiLoaded' = "armed"
    /\ Goto("load")
    /\ UNCHANGED <<runVars, progVars, uiCur, uiPages, uiPage, uiOpen, uiProblems>>

\* waitLoad ends with the event or by a bound, and settle with quiet.
waitLoad ==
    /\ uiPhase = "load"
    /\ uiLoaded' = "none"
    /\ uiBegan' = uiCur
    /\ Goto("first")
    /\ UNCHANGED <<uiKind, uiSeq, uiLate, uiLeft, uiGone, uiVerdict, progVars, uiCur, uiPages,
                   uiPage, uiOpen, uiProblems>>

\* A page that cannot be made or loaded: the browser is replaced.
newPageFails ==
    /\ uiPhase \in {"reset", "navigate"} /\ uiKind = "web"
    /\ killed(uiCur)
    /\ Goto("launch")
    /\ UNCHANGED <<runVars, uiMade, uiDead, uiCur, pageVars>>

\* The state before the first event is recorded.
begin ==
    /\ uiPhase = "first"
    /\ Goto("events")
    /\ UNCHANGED <<runVars, progVars, uiCur, pageVars>>

\* Alive asks the browser's connection, which notices an end in its own time,
\* and for the other two whether the exit has been recorded.
Alive == uiKind = "web" \/ (uiCur # 0 /\ uiCur \notin uiReaped)
NotAlive == IF uiKind = "web" THEN uiCur \notin uiUp ELSE ~Alive

judge(kind) ==
    /\ uiVerdict' = [kind |-> kind, of |-> IF kind = "crash" THEN uiCur ELSE 0,
                     problems |-> uiProblems, page |-> uiPage, before |-> uiPage - 1]
    /\ Goto("idle")
    /\ UNCHANGED <<uiKind, uiSeq, uiLate, uiLeft, uiGone, uiBegan, progVars, uiCur, pageVars>>

Send ==
    /\ uiPhase = "events" /\ uiLeft > 0 /\ ~uiLate /\ Alive
    /\ uiLeft' = uiLeft - 1
    /\ Goto("settle")
    /\ UNCHANGED <<uiKind, uiSeq, uiLate, uiGone, uiBegan, uiVerdict, progVars, uiCur, pageVars>>

\* ErrSkipEvent: counted, and neither settled nor observed.
skip ==
    /\ uiPhase = "events" /\ uiLeft > 0 /\ ~uiLate /\ Alive
    /\ uiLeft' = uiLeft - 1
    /\ UNCHANGED <<uiKind, uiSeq, uiLate, uiGone, uiBegan, uiVerdict, uiPhase, progVars, uiCur,
                   pageVars>>

\* A command to a browser that has gone, before Alive knew.
sendFails ==
    /\ uiPhase = "events" /\ uiLeft > 0 /\ ~uiLate /\ uiKind = "web" /\ uiCur \notin uiUp
    /\ Goto("failed")
    /\ uiVerdict' = [NoVerdict EXCEPT !.kind = "error"]
    /\ UNCHANGED <<uiKind, uiSeq, uiLate, uiLeft, uiGone, uiBegan, progVars, uiCur, pageVars>>

settled(gone) ==
    /\ uiGone' = gone
    /\ Goto("events")
    /\ UNCHANGED <<uiKind, uiSeq, uiLate, uiLeft, uiBegan, uiVerdict, progVars, uiCur, pageVars>>

Died == IF uiCur \in uiUp THEN "no" ELSE "missed"

\* Mistake: end-of-file on the terminal is taken for the exit of the program.
settleOnEOF ==
    /\ uiPhase = "settle"
    /\ settled(IF uiKind = "tui" /\ uiCur \notin uiUp THEN "waited" ELSE Died)

\* Wait for quiet.  A program that has gone is quiet too, so that timer may fire before
\* end-of-file is noticed; when it is noticed, a terminal waits for the exit to be
\* recorded, but no longer than exitWait or the sequence.
settle ==
    /\ uiPhase = "settle"
    /\ \/ settled(Died)
       \/ uiKind = "tui" /\ uiCur \in uiReaped \ uiUp /\ settled("waited")

\* The loop ends: no event left, the program gone, or the time up.
finish ==
    /\ uiPhase = "events"
    /\ uiLeft = 0 \/ uiLate \/ NotAlive
    /\ judge(CASE uiLate /\ uiLeft > 0 -> "timeout"
               [] ~(uiLate /\ uiLeft > 0) /\ uiCur \in uiReaped /\ uiCur \in uiDead -> "crash"
               [] OTHER -> "ok")

Close ==
    /\ uiPhase \in {"idle", "failed"}
    /\ killed(uiCur)
    /\ uiCur' = 0
    /\ Goto("closed")
    /\ UNCHANGED <<runVars, uiMade, uiDead, pageVars>>

reset == restart \/ relaunch \/ newPage \/ closeOld \/ navigate \/ waitLoad \/ newPageFails

Next ==
    \/ \E g \in 1..UiLaunches : Die(g) \/ watch(g) \/ onEvent(g)
    \/ expire
    \/ launch \/ launched \/ launchFails \/ startFails \/ spawnFails
    \/ Run \/ reset \/ begin \/ Send \/ skip \/ sendFails \/ settle \/ finish \/ Close

-----------------------------------------------------------------------------
TypeOK ==
    /\ uiPhase \in {"new", "firstawait", "idle", "reset", "launch", "await", "oldpage", "navigate",
                    "load", "first", "events", "settle", "failed", "closed"}
    /\ uiUp \cup uiDead \cup uiReaped \subseteq 1..uiMade
    /\ uiPage \in uiOpen \cup {0}
    /\ uiCur \in 0..uiMade

(***************************************************************************)
(* No program outlives the session it was started for: between sequences   *)
(* only the current one runs, and none after Close, however far a launch   *)
(* got before it failed (launch, ResetWith, Close).                        *)
(***************************************************************************)
ProgramsAreOwned ==
    /\ uiPhase \in {"idle", "failed"} => uiUp \subseteq {uiCur}
    /\ uiPhase = "closed" => uiUp = {}

(***************************************************************************)
(* A sequence is judged on what happened to it: a crash is that of the     *)
(* program it began with, and a terminal program that died of itself and   *)
(* whose exit the last settle waited for is reported as a crash (Run,      *)
(* settle, Result).  The problems of a page may also be those of the page  *)
(* it replaced, because an event is recorded for whichever page sent it    *)
(* (onEvent, newPage).                                                     *)
(***************************************************************************)
SequenceIsOwn ==
    /\ uiVerdict.kind = "crash" => uiVerdict.of = uiBegan /\ uiBegan \in uiDead
    /\ uiVerdict.kind \in {"ok", "crash"} => uiVerdict.problems \subseteq {uiVerdict.page, uiVerdict.before}
    /\ uiGone = "waited" /\ ~uiLate => uiVerdict.kind \in {"none", "crash"}

(***************************************************************************)
(* What the comment on settle's wait wants (tui.go:267-273): a terminal    *)
(* program that had died when the last event settled is not recorded as a  *)
(* clean run.  The code does not keep it: the timer for quiet may fire     *)
(* first, and the wait for the exit has a bound of its own.                *)
(***************************************************************************)
CrashIsSeen ==
    uiKind = "tui" /\ uiGone # "no" /\ ~uiLate => uiVerdict.kind \in {"none", "crash"}
=============================================================================
