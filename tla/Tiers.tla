-------------------------------- MODULE Tiers -------------------------------
(***************************************************************************)
(* The executors without a server, pkg/executor: InProc calls a function   *)
(* of the worker's own process, Subprocess starts a process for each       *)
(* input, Emulated does so under a tracing backend.  All of them arm the   *)
(* observers, execute, and harvest.                                        *)
(*                                                                         *)
(* Executions are numbered, and an input is named after the execution it   *)
(* is for.  Go cannot stop a goroutine: a call that ran out of time goes   *)
(* on, writing coverage and panicking when it likes.                       *)
(***************************************************************************)
EXTENDS Naturals, FiniteSets

CONSTANTS TiRuns   \* executions

Kinds == {"inproc", "subprocess", "emulated"}
Deliveries == {"stdin", "file", "arg"}

VARIABLES
    tiKind,        \* the executor
    tiDelivery,    \* Delivery, and where a work directory comes from
    tiDir,         \* WorkDir: none, given or own
    tiFile,        \* the input the file holds
    tiRun,         \* executions begun
    tiPhase,       \* where Run is
    tiInput,       \* what the recording observer holds
    tiTarget,      \* the input the target was given
    tiMap,         \* the executions whose coverage is in the map
    tiCalls,       \* calls of the harness still running
    tiDone,        \* execution -> what its call sent
    tiPanic,       \* lastPanic: whose it is
    tiBeside,      \* abandoned calls that were still running when this execution began
    tiVerdict      \* what Run returned, and for an objective, whose panic it was

tiVars == <<tiKind, tiDelivery, tiDir, tiFile, tiRun, tiPhase, tiInput, tiTarget, tiMap, tiCalls,
            tiDone, tiPanic, tiBeside, tiVerdict>>

NoVerdict == [kind |-> "none", panic |-> 0, map |-> {}]

Init ==
    /\ tiKind \in Kinds /\ tiDelivery \in Deliveries /\ tiDir \in {"none", "given"}
    /\ tiFile = 0 /\ tiRun = 0 /\ tiPhase = "idle"
    /\ tiInput = 0 /\ tiTarget = 0 /\ tiMap = {} /\ tiCalls = {}
    /\ tiDone = [n \in 1..TiRuns |-> "none"] /\ tiPanic = 0 /\ tiBeside = {}
    /\ tiVerdict = NoVerdict

confVars == <<tiKind, tiDelivery>>
callVars == <<tiCalls, tiDone, tiPanic, tiBeside>>
harnessed == tiKind = "inproc"

-----------------------------------------------------------------------------
Begin ==
    /\ tiPhase = "idle" /\ tiRun < TiRuns
    /\ tiRun' = tiRun + 1
    /\ tiPhase' = IF harnessed THEN "arm" ELSE "prepare"
    /\ tiVerdict' = NoVerdict /\ tiTarget' = 0
    /\ tiBeside' = tiCalls
    /\ UNCHANGED <<confVars, tiDir, tiFile, tiInput, tiMap, tiCalls, tiDone, tiPanic>>

\* Run returns an error before anything was executed.
failsEarly ==
    /\ tiPhase' = "idle" /\ tiVerdict' = [NoVerdict EXCEPT !.kind = "error"]
    /\ UNCHANGED <<confVars, tiRun, tiInput, tiTarget, tiMap, callVars>>

\* A work directory the executor makes is its own to remove.
ensureWorkDir == tiDir' = IF tiDir = "none" THEN "own" ELSE tiDir

\* Mistake: an input that could not be written is not noticed.
prepareUnchecked ==
    /\ tiPhase = "prepare"
    /\ tiDelivery = "file" => ensureWorkDir
    /\ tiDelivery # "file" => UNCHANGED tiDir
    /\ tiFile' \in IF tiDelivery = "file" THEN {tiFile, tiRun} ELSE {tiFile}
    /\ tiPhase' = "arm"
    /\ UNCHANGED <<confVars, tiRun, tiInput, tiTarget, tiMap, callVars, tiVerdict>>

\* The input goes where the target will read it; a directory or a file that
\* cannot be written ends the execution here.
prepare ==
    /\ tiPhase = "prepare"
    /\ \/ /\ IF tiDelivery = "file" THEN ensureWorkDir /\ tiFile' = tiRun ELSE UNCHANGED <<tiDir, tiFile>>
          /\ tiPhase' = "arm"
          /\ UNCHANGED <<confVars, tiRun, tiInput, tiTarget, tiMap, callVars, tiVerdict>>
       \/ /\ tiDelivery = "file"
          /\ ensureWorkDir \/ UNCHANGED tiDir
          /\ UNCHANGED tiFile
          /\ failsEarly

\* Mistake: the observer is given the input and then reset.
ArmBackwards ==
    /\ tiPhase = "arm"
    /\ tiInput' = 0 /\ tiMap' = {}
    /\ tiPhase' = "execute"
    /\ UNCHANGED <<confVars, tiDir, tiFile, tiRun, tiTarget, callVars, tiVerdict>>

\* Every observer is reset, and one that wants the input is then given it.
Arm ==
    /\ tiPhase = "arm"
    /\ \/ /\ tiInput' = tiRun /\ tiMap' = {}
          /\ tiPhase' = "execute"
          /\ UNCHANGED <<confVars, tiDir, tiFile, tiRun, tiTarget, callVars, tiVerdict>>
       \/ UNCHANGED <<tiDir, tiFile>> /\ failsEarly

-----------------------------------------------------------------------------
(* Subprocess.Run, Emulated.Run. *)

\* The spawner, or the tracer, runs the target; a trace is folded into the map.
execute ==
    /\ tiPhase = "execute" /\ ~harnessed
    /\ tiTarget' = IF tiDelivery = "file" THEN tiFile ELSE tiRun
    /\ tiMap' = tiMap \cup {tiRun}
    /\ tiPhase' = "idle"
    /\ \E kind \in {"ok", "crash", "timeout", "oom"} :
          tiVerdict' = [kind |-> kind, panic |-> 0, map |-> tiMap']
    /\ UNCHANGED <<confVars, tiDir, tiFile, tiRun, tiInput, callVars>>

\* The process could not be started, or the backend failed.
executeFails ==
    /\ tiPhase = "execute" /\ ~harnessed
    /\ UNCHANGED <<tiDir, tiFile>> /\ failsEarly

Close ==
    /\ tiPhase = "idle"
    /\ tiPhase' = "closed"
    /\ tiDir' = IF tiDir = "own" THEN "removed" ELSE tiDir
    /\ UNCHANGED <<confVars, tiFile, tiRun, tiInput, tiTarget, tiMap, callVars, tiVerdict>>

-----------------------------------------------------------------------------
(* InProc. *)

callWithTimeout ==
    /\ tiPhase = "execute" /\ harnessed
    /\ tiTarget' = tiRun /\ tiCalls' = tiCalls \cup {tiRun}
    /\ tiPanic' = 0
    /\ tiPhase' = "wait"
    /\ UNCHANGED <<confVars, tiDir, tiFile, tiRun, tiInput, tiMap, tiDone, tiBeside, tiVerdict>>

\* The harness, of this execution or of one abandoned: coverage, then an end.
harness(n) ==
    /\ n \in tiCalls
    /\ tiMap' = tiMap \cup {n}
    /\ UNCHANGED <<confVars, tiDir, tiFile, tiRun, tiPhase, tiInput, tiTarget, callVars, tiVerdict>>

call(n) ==
    /\ n \in tiCalls
    /\ tiCalls' = tiCalls \ {n}
    /\ \/ tiDone' = [tiDone EXCEPT ![n] = "ok"] /\ UNCHANGED tiPanic
       \/ tiDone' = [tiDone EXCEPT ![n] = "crash"] /\ tiPanic' = n
    /\ UNCHANGED <<confVars, tiDir, tiFile, tiRun, tiPhase, tiInput, tiTarget, tiMap, tiBeside,
                   tiVerdict>>

\* Mistake: one channel for all calls, so that an abandoned one is heard.
returnedAny ==
    /\ tiPhase = "wait"
    /\ \E n \in 1..tiRun :
          /\ tiDone[n] # "none"
          /\ tiVerdict' = [kind |-> tiDone[n], panic |-> tiPanic, map |-> tiMap]
    /\ tiPhase' = "idle"
    /\ UNCHANGED <<confVars, tiDir, tiFile, tiRun, tiInput, tiTarget, tiMap, callVars>>

\* The call's own channel; an objective then reads the panic.
returned ==
    /\ tiPhase = "wait" /\ tiDone[tiRun] # "none"
    /\ tiVerdict' = [kind |-> tiDone[tiRun], panic |-> tiPanic, map |-> tiMap]
    /\ tiPhase' = "idle"
    /\ UNCHANGED <<confVars, tiDir, tiFile, tiRun, tiInput, tiTarget, tiMap, callVars>>

\* The time is up, or the context done.
abandon ==
    /\ tiPhase = "wait"
    /\ \E kind \in {"timeout", "error"} : tiVerdict' = [kind |-> kind, panic |-> 0, map |-> tiMap]
    /\ tiPhase' = "idle"
    /\ UNCHANGED <<confVars, tiDir, tiFile, tiRun, tiInput, tiTarget, tiMap, callVars>>

Next ==
    \/ Begin \/ prepare \/ Arm \/ execute \/ executeFails \/ Close
    \/ callWithTimeout \/ returned \/ abandon
    \/ \E n \in 1..TiRuns : harness(n) \/ call(n)

-----------------------------------------------------------------------------
TypeOK ==
    /\ tiPhase \in {"idle", "prepare", "arm", "execute", "wait", "closed"}
    /\ tiDir \in {"none", "given", "own", "removed"}
    /\ tiCalls \cup tiMap \cup tiBeside \subseteq 1..tiRun

(***************************************************************************)
(* An execution is judged on itself (Run of the three executors, Arm).     *)
(* The target was given this input, and so was the observer that records   *)
(* it, also when an earlier step had failed; the verdict is that of this   *)
(* call, whatever an abandoned one has sent since.  Coverage and panic are *)
(* its own or those of an abandoned call that was still at work when it    *)
(* began, never of one that had ended.  A directory the executor made is   *)
(* gone after Close, and no other is.                                      *)
(***************************************************************************)
ExecutionIsOwn ==
    /\ tiTarget \in {0, tiRun}
    /\ tiVerdict.kind \in {"ok", "crash"} =>
         /\ tiTarget = tiRun /\ tiInput = tiRun
         /\ harnessed => tiDone[tiRun] = tiVerdict.kind
         /\ tiVerdict.map \subseteq {tiRun} \cup tiBeside
         /\ tiVerdict.panic \in {0, tiRun} \cup tiBeside
         /\ tiVerdict.kind = "crash" /\ harnessed => tiVerdict.panic \in {tiRun} \cup tiBeside
    /\ tiPhase = "closed" => tiDir # "own"
=============================================================================
