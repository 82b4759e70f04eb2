------------------------------ MODULE Campaign ------------------------------
(***************************************************************************)
(* The life of one campaign (internal/daemon/campaign.go): Start, Pause,   *)
(* Resume, Stop, the run loop, finish and Close, with the two operations of*)
(* the daemon that act on a campaign it holds, Forget and Close            *)
(* (internal/daemon/daemon.go).  API handlers call these concurrently, and *)
(* each holds the campaign's lock only around its reads and writes of the  *)
(* state.                                                                  *)
(*                                                                         *)
(* The supervisor appears as SupervisorContract specifies it: workers are  *)
(* launched before its Stop and are over when that returns.  Commands other*)
(* than pause and resume, and the payload of findings, are left out.       *)
(***************************************************************************)
EXTENDS Naturals, Sequences, FiniteSets

CONSTANTS
    Callers,      \* goroutines serving API calls
    Workers,      \* Config.Workers.Count of them
    Ops,          \* the operations this instance calls
    MaxStarts,    \* bound: calls of Start
    MaxPauses,    \* bound: calls of Pause
    MaxFindings,  \* bound: findings reported
    MaxRestarts   \* bound: restarts of a worker process

ASSUME CampaignAssumption ==
    /\ "run" \notin Callers
    /\ Ops \subseteq {"Start", "Stop", "Pause", "Resume", "Forget", "Close"}
    /\ MaxStarts \in Nat /\ MaxPauses \in Nat
    /\ MaxFindings \in Nat /\ MaxRestarts \in Nat

VARIABLES
    state,      \* Campaign.state
    record,     \* the status the store holds for the campaign
    pc,         \* where each caller and the run goroutine is
    op,         \* of a caller in finish: who called it, Stop or Close
    cancel,     \* which context Campaign.cancel cancels: none, run, stray
    ctxDone,    \* the run goroutine's context is cancelled
    done,       \* Campaign.done is closed
    supStopped, \* Supervisor.stopped
    phase,      \* of each worker, as the supervisor's contract has it
    outbox,     \* pause and resume commands on their way to each worker
    paused,     \* Worker.paused of the process now running
    queue,      \* triageQueue: open or nil
    jobs,       \* findings submitted to triage and not yet reported
    storeOpen,  \* the daemon has not closed the store
    lostCheckpoint,  \* a worker's last checkpoint met a closed store
    starts, pauses, findings, restarts   \* bounds

counters == <<starts, pauses, findings, restarts>>
supVars  == <<supStopped, phase, outbox, paused>>
triVars  == <<queue, jobs>>
vars == <<state, record, pc, op, cancel, ctxDone, done, supVars, triVars, storeOpen,
          lostCheckpoint, counters>>

Procs == Callers \cup {"run"}
Active == {"running", "paused"}

Init ==
    /\ state = "created"
    /\ record = "created"
    /\ pc = [p \in Procs |-> IF p = "run" THEN "none" ELSE "idle"]
    /\ op = [p \in Callers |-> "Stop"]
    /\ cancel = "none"
    /\ ctxDone = FALSE
    /\ done = FALSE
    /\ supStopped = FALSE
    /\ phase = [w \in Workers |-> "idle"]
    /\ outbox = [w \in Workers |-> << >>]
    /\ paused = [w \in Workers |-> FALSE]
    /\ queue = "open"
    /\ jobs = 0
    /\ storeOpen = TRUE
    /\ lostCheckpoint = FALSE
    /\ starts = 0 /\ pauses = 0 /\ findings = 0 /\ restarts = 0

Goto(p, l) == pc' = [pc EXCEPT ![p] = l]

\* SetCampaignStatus, whose error every caller but Start ignores.
SetStatus(s) == record' = IF storeOpen THEN s ELSE record

-----------------------------------------------------------------------------
(* Start. *)

\* Start refuses a running campaign and nothing else.
Start(p) ==
    /\ pc[p] = "idle"
    /\ starts < MaxStarts
    /\ starts' = starts + 1
    /\ state # "running"
    /\ state' = "running"
    /\ Goto(p, "start")
    /\ UNCHANGED <<record, cancel, op, ctxDone, done, supVars, triVars, storeOpen,
                   lostCheckpoint, pauses, findings, restarts>>

\* The status, the audit entry and the seeds are written; then the new context
\* replaces the one Campaign.cancel held.
startPrepare(p) ==
    /\ pc[p] = "start"
    /\ storeOpen
    /\ record' = "running"
    /\ cancel' = IF pc["run"] = "none" THEN "run" ELSE "stray"
    /\ Goto(p, "launch")
    /\ UNCHANGED <<op, state, ctxDone, done, supVars, triVars, storeOpen,
                   lostCheckpoint, counters>>

\* Any of these fails: Start returns the error and the state stays as it is.
startFails(p) ==
    /\ pc[p] = "start"
    /\ Goto(p, "idle")
    /\ UNCHANGED <<state, record, cancel, op, ctxDone, done, supVars, triVars,
                   storeOpen, lostCheckpoint, counters>>

\* Supervisor.Start for the next worker.
startLaunch(p, w) ==
    /\ pc[p] = "launch"
    /\ ~supStopped
    /\ phase[w] = "idle"
    /\ phase' = [phase EXCEPT ![w] = "live"]
    /\ UNCHANGED <<state, record, pc, cancel, op, ctxDone, done, supStopped, outbox,
                   paused, triVars, storeOpen, lostCheckpoint, counters>>

\* Supervisor.Start refuses: it has been stopped, or it supervises the worker
\* already.  The new context is cancelled.
startRefused(p) ==
    /\ pc[p] = "launch"
    /\ supStopped \/ pc["run"] # "none"
    /\ ctxDone' = (ctxDone \/ pc["run"] = "none")
    /\ Goto(p, "idle")
    /\ UNCHANGED <<state, record, cancel, op, done, supVars, triVars, storeOpen,
                   lostCheckpoint, counters>>

\* Every worker is supervised: the run goroutine begins.
startRun(p) ==
    /\ pc[p] = "launch"
    /\ pc["run"] = "none"
    /\ \A w \in Workers : phase[w] # "idle"
    /\ pc' = [pc EXCEPT ![p] = "idle", !["run"] = "loop"]
    /\ UNCHANGED <<state, record, cancel, op, ctxDone, done, supVars, triVars,
                   storeOpen, lostCheckpoint, counters>>

-----------------------------------------------------------------------------
(* Pause and Resume. *)

Pause(p) ==
    /\ pc[p] = "idle"
    /\ pauses < MaxPauses
    /\ pauses' = pauses + 1
    /\ state = "running"
    /\ state' = "paused"
    /\ Goto(p, "pause")
    /\ UNCHANGED <<record, cancel, op, ctxDone, done, supVars, triVars, storeOpen,
                   lostCheckpoint, starts, findings, restarts>>

Resume(p) ==
    /\ pc[p] = "idle"
    /\ state = "paused"
    /\ state' = "running"
    /\ Goto(p, "resume")
    /\ UNCHANGED <<record, cancel, op, ctxDone, done, supVars, triVars, storeOpen,
                   lostCheckpoint, counters>>

\* The broadcast to every supervised worker, outside the lock.
Broadcast(p) ==
    /\ pc[p] \in {"pause", "resume"}
    /\ outbox' = [w \in Workers |->
           IF phase[w] = "idle" THEN outbox[w] ELSE Append(outbox[w], pc[p])]
    /\ Goto(p, IF pc[p] = "pause" THEN "paused" ELSE "resumed")
    /\ UNCHANGED <<state, record, cancel, op, ctxDone, done, supStopped, phase, paused,
                   triVars, storeOpen, lostCheckpoint, counters>>

\* And the status that goes with it.
recordPause(p) ==
    /\ pc[p] \in {"paused", "resumed"}
    /\ SetStatus(IF pc[p] = "paused" THEN "paused" ELSE "running")
    /\ Goto(p, "idle")
    /\ UNCHANGED <<state, cancel, op, ctxDone, done, supVars, triVars, storeOpen,
                   lostCheckpoint, counters>>

-----------------------------------------------------------------------------
(* finish, called by the run goroutine, by Stop and, through Stop, by the    *)
(* daemon's Close; op[p] says where it returns to.                           *)

Stop(p) ==
    /\ pc[p] = "idle"
    /\ state \in Active
    /\ Goto(p, "finish")
    /\ op' = [op EXCEPT ![p] = "Stop"]
    /\ UNCHANGED <<state, record, cancel, ctxDone, done, supVars, triVars,
                   storeOpen, lostCheckpoint, counters>>

\* Mistake in finish: the early return is missing.
finishAgain(p) ==
    /\ pc[p] = "finish"
    /\ state' = "stopping"
    /\ supStopped' = TRUE
    /\ Goto(p, IF supStopped THEN "queue" ELSE "join")
    /\ UNCHANGED <<record, cancel, op, ctxDone, done, phase, outbox, paused, triVars,
                   storeOpen, lostCheckpoint, counters>>

\* The first lock: return at once if somebody else is at it or has been.  Then
\* Supervisor.Stop, which returns at once when it was called before.
finish(p) ==
    /\ pc[p] = "finish"
    /\ IF state \in {"finished", "stopping"}
       THEN /\ Goto(p, "return")
            /\ UNCHANGED <<state, supStopped>>
       ELSE /\ state' = "stopping"
            /\ supStopped' = TRUE
            /\ Goto(p, IF supStopped THEN "queue" ELSE "join")
    /\ UNCHANGED <<record, cancel, op, ctxDone, done, phase, outbox, paused, triVars,
                   storeOpen, lostCheckpoint, counters>>

\* Mistake in finishJoin: every worker of the configuration is waited for, launched
\* or not.
finishJoinAll(p) ==
    /\ pc[p] = "join"
    /\ \A w \in Workers : phase[w] = "over"
    /\ Goto(p, "queue")
    /\ UNCHANGED <<state, record, cancel, op, ctxDone, done, supVars, triVars,
                   storeOpen, lostCheckpoint, counters>>

\* Supervisor.Stop returns: no launched worker is left.
finishJoin(p) ==
    /\ pc[p] = "join"
    /\ \A w \in Workers : phase[w] # "live"
    /\ Goto(p, "queue")
    /\ UNCHANGED <<state, record, cancel, op, ctxDone, done, supVars, triVars,
                   storeOpen, lostCheckpoint, counters>>

\* The queue is taken under the lock and, if there was one, closed and drained.
finishQueue(p) ==
    /\ pc[p] = "queue"
    /\ queue' = "nil"
    /\ Goto(p, IF queue = "open" THEN "drain" ELSE "declare")
    /\ UNCHANGED <<state, record, cancel, op, ctxDone, done, supVars, jobs, storeOpen,
                   lostCheckpoint, counters>>

\* Mistake in finishDrain: the queue is closed and not waited for.
finishDrainEarly(p) ==
    /\ pc[p] = "drain"
    /\ Goto(p, "declare")
    /\ UNCHANGED <<state, record, cancel, op, ctxDone, done, supVars, triVars,
                   storeOpen, lostCheckpoint, counters>>

finishDrain(p) ==
    /\ pc[p] = "drain"
    /\ jobs = 0
    /\ Goto(p, "declare")
    /\ UNCHANGED <<state, record, cancel, op, ctxDone, done, supVars, triVars,
                   storeOpen, lostCheckpoint, counters>>

finishDeclare(p) ==
    /\ pc[p] = "declare"
    /\ state' = "finished"
    /\ Goto(p, "record")
    /\ UNCHANGED <<record, cancel, op, ctxDone, done, supVars, triVars, storeOpen,
                   lostCheckpoint, counters>>

finishRecord(p) ==
    /\ pc[p] = "record"
    /\ SetStatus("finished")
    /\ Goto(p, "return")
    /\ UNCHANGED <<state, cancel, op, ctxDone, done, supVars, triVars, storeOpen,
                   lostCheckpoint, counters>>

\* Mistake in finishReturn: done is closed only by a run loop that finds the
\* campaign finished.
finishReturnFinished(p) ==
    /\ pc[p] = "return"
    /\ done' = (done \/ (p = "run" /\ state = "finished"))
    /\ ctxDone' = (ctxDone \/ (p # "run" /\ cancel = "run"))
    /\ Goto(p, IF p = "run" THEN "over"
               ELSE IF op[p] = "Stop" THEN "idle" ELSE "close")
    /\ UNCHANGED <<state, record, cancel, op, supVars, triVars, storeOpen,
                   lostCheckpoint, counters>>

\* Back in the caller: run closes done, Stop cancels the context.
finishReturn(p) ==
    /\ pc[p] = "return"
    /\ done' = (done \/ p = "run")
    /\ ctxDone' = (ctxDone \/ (p # "run" /\ cancel = "run"))
    /\ Goto(p, IF p = "run" THEN "over"
               ELSE IF op[p] = "Stop" THEN "idle" ELSE "close")
    /\ UNCHANGED <<state, record, cancel, op, supVars, triVars, storeOpen,
                   lostCheckpoint, counters>>

-----------------------------------------------------------------------------
(* The run loop. *)

\* The context is cancelled, or every worker has stopped or failed.
runLoop ==
    /\ pc["run"] = "loop"
    /\ ctxDone \/ \A w \in Workers : phase[w] = "over"
    /\ Goto("run", "finish")
    /\ UNCHANGED <<state, record, cancel, op, ctxDone, done, supVars, triVars,
                   storeOpen, lostCheckpoint, counters>>

\* terminationReason: a budget is used up.
terminate ==
    /\ pc["run"] = "loop"
    /\ Goto("run", "finish")
    /\ UNCHANGED <<state, record, cancel, op, ctxDone, done, supVars, triVars,
                   storeOpen, lostCheckpoint, counters>>

-----------------------------------------------------------------------------
(* Forget and the daemon's Close, which both end in Campaign.Close.          *)

\* Forget holds the daemon's lock until the campaign's Close returns, and has
\* taken the campaign off the daemon's table.
Forgetting == \E q \in Callers : pc[q] \in {"f_close", "f_wait"}
Forgotten  == \E q \in Callers : pc[q] = "gone" /\ op[q] # "Close"

\* Daemon.closed: only the first Close does anything.
Closed == \E q \in Callers : op[q] = "Close"

\* Forget refuses a campaign that is running or paused, and no other.
Forget(p) ==
    /\ pc[p] = "idle"
    /\ ~Forgetting /\ ~Forgotten
    /\ state \notin Active
    /\ Goto(p, "f_close")
    /\ UNCHANGED <<state, record, cancel, op, ctxDone, done, supVars, triVars,
                   storeOpen, lostCheckpoint, counters>>

\* The daemon's Close stops only a campaign it finds running or paused, and
\* does not see one that was forgotten.
Close(p) ==
    /\ pc[p] = "idle"
    /\ ~Forgetting /\ ~Closed
    /\ Goto(p, IF Forgotten THEN "store" ELSE IF state \in Active THEN "finish" ELSE "close")
    /\ op' = [op EXCEPT ![p] = "Close"]
    /\ UNCHANGED <<state, record, cancel, ctxDone, done, supVars, triVars,
                   storeOpen, lostCheckpoint, counters>>

closeQueue(p) ==
    /\ pc[p] \in {"close", "f_close"}
    /\ queue' = "nil"
    /\ Goto(p, CASE pc[p] = "f_close" /\ queue = "open" -> "f_wait"
                 [] pc[p] = "f_close" /\ queue = "nil"  -> "gone"
                 [] pc[p] = "close" /\ queue = "open"   -> "wait"
                 [] OTHER                               -> "store")
    /\ UNCHANGED <<state, record, cancel, op, ctxDone, done, supVars, jobs, storeOpen,
                   lostCheckpoint, counters>>

\* Mistake in closeWait: the campaign's run goroutine is waited for as well.
closeWaitForRun(p) ==
    /\ pc[p] \in {"wait", "f_wait"}
    /\ jobs = 0
    /\ done
    /\ Goto(p, IF pc[p] = "wait" THEN "store" ELSE "gone")
    /\ UNCHANGED <<state, record, cancel, op, ctxDone, done, supVars, triVars,
                   storeOpen, lostCheckpoint, counters>>

closeWait(p) ==
    /\ pc[p] \in {"wait", "f_wait"}
    /\ jobs = 0
    /\ Goto(p, IF pc[p] = "wait" THEN "store" ELSE "gone")
    /\ UNCHANGED <<state, record, cancel, op, ctxDone, done, supVars, triVars,
                   storeOpen, lostCheckpoint, counters>>

closeStore(p) ==
    /\ pc[p] = "store"
    /\ storeOpen' = FALSE
    /\ Goto(p, "gone")
    /\ UNCHANGED <<state, record, cancel, op, ctxDone, done, supVars, triVars,
                   lostCheckpoint, counters>>

-----------------------------------------------------------------------------
(* The workers and triage. *)

\* A worker applies the next command.
handle(w) ==
    /\ phase[w] = "live"
    /\ outbox[w] # << >>
    /\ paused' = [paused EXCEPT ![w] = Head(outbox[w]) = "pause"]
    /\ outbox' = [outbox EXCEPT ![w] = Tail(@)]
    /\ UNCHANGED <<state, record, pc, cancel, op, ctxDone, done, supStopped, phase,
                   triVars, storeOpen, lostCheckpoint, counters>>

\* onFinding and submitTriage: the submission is made under the lock, to the
\* queue if there still is one.
onFinding(w) ==
    /\ phase[w] = "live"
    /\ ~paused[w]
    /\ findings < MaxFindings
    /\ findings' = findings + 1
    /\ jobs' = IF queue = "open" THEN jobs + 1 ELSE jobs
    /\ UNCHANGED <<state, record, pc, cancel, op, ctxDone, done, supVars, queue,
                   storeOpen, lostCheckpoint, starts, pauses, restarts>>

\* Mistake in onTriaged: a result is reported for a job nobody submitted.
onTriagedAgain ==
    /\ jobs < MaxFindings
    /\ jobs' = jobs - 1
    /\ UNCHANGED <<state, record, pc, cancel, op, ctxDone, done, supVars, queue,
                   storeOpen, lostCheckpoint, counters>>

\* The triage worker takes a job and onTriaged reports it; its goroutines exist
\* once Start has begun to launch.
onTriaged ==
    /\ jobs > 0
    /\ jobs' = jobs - 1
    /\ UNCHANGED <<state, record, pc, cancel, op, ctxDone, done, supVars, queue,
                   storeOpen, lostCheckpoint, counters>>

\* A process dies and the supervisor starts another, which is not paused and
\* which gets what is left in the outbox.
restart(w) ==
    /\ phase[w] = "live"
    /\ restarts < MaxRestarts
    /\ restarts' = restarts + 1
    /\ paused' = [paused EXCEPT ![w] = FALSE]
    /\ UNCHANGED <<state, record, pc, cancel, op, ctxDone, done, supStopped, phase,
                   outbox, triVars, storeOpen, lostCheckpoint, starts, pauses,
                   findings>>

\* A worker is over: stopped, given up on, or out of budget.  The checkpoint of
\* its way out is saved by onCheckpoint.
workerEnds(w) ==
    /\ phase[w] = "live"
    /\ phase' = [phase EXCEPT ![w] = "over"]
    /\ lostCheckpoint' = (lostCheckpoint \/ ~storeOpen)
    /\ UNCHANGED <<state, record, pc, cancel, op, ctxDone, done, supStopped, outbox,
                   paused, triVars, storeOpen, counters>>

-----------------------------------------------------------------------------
Call(p) ==
    \/ "Start" \in Ops /\ Start(p)
    \/ "Stop" \in Ops /\ Stop(p)
    \/ "Pause" \in Ops /\ Pause(p)
    \/ "Resume" \in Ops /\ Resume(p)
    \/ "Forget" \in Ops /\ Forget(p)
    \/ "Close" \in Ops /\ Close(p)

StartStep(p) ==
    \/ startPrepare(p) \/ startFails(p) \/ startRefused(p) \/ startRun(p)
    \/ \E w \in Workers : startLaunch(p, w)

FinishStep(p) ==
    \/ finish(p) \/ finishJoin(p) \/ finishQueue(p) \/ finishDrain(p)
    \/ finishDeclare(p) \/ finishRecord(p) \/ finishReturn(p)

CallerStep(p) ==
    \/ StartStep(p) \/ FinishStep(p) \/ Broadcast(p) \/ recordPause(p)
    \/ closeQueue(p) \/ closeWait(p) \/ closeStore(p)

Next ==
    \/ \E p \in Callers : Call(p) \/ CallerStep(p)
    \/ runLoop \/ terminate \/ FinishStep("run")
    \/ onTriaged
    \/ \E w \in Workers : handle(w) \/ onFinding(w) \/ restart(w) \/ workerEnds(w)

Spec == Init /\ [][Next]_vars

\* Goroutines are scheduled; triage reports every job (its executions have a
\* timeout); a worker reads its commands; and, by the supervisor's contract,
\* every worker is over once the supervisor is stopped.  No caller is assumed to
\* call anything.
Fairness ==
    /\ \A p \in Callers : WF_vars(CallerStep(p))
    /\ WF_vars(runLoop) /\ WF_vars(FinishStep("run"))
    /\ WF_vars(onTriaged)
    /\ \A w \in Workers : WF_vars(handle(w)) /\ WF_vars(supStopped /\ workerEnds(w))

FairSpec == Spec /\ Fairness

-----------------------------------------------------------------------------
(* Properties. *)

FinishLabels == {"finish", "join", "queue", "drain", "declare", "record", "return"}

\* The types of the campaign's state.
TypeOK ==
    /\ state \in {"created", "running", "paused", "stopping", "finished"}
    /\ record \in {"created", "running", "paused", "finished"}
    /\ pc \in [Procs -> {"none", "idle", "loop", "over", "start", "launch", "pause",
                         "resume", "paused", "resumed", "close", "f_close", "wait",
                         "f_wait", "store", "gone"}
                        \cup FinishLabels]
    /\ op \in [Callers -> {"Stop", "Close"}]
    /\ cancel \in {"none", "run", "stray"}
    /\ {ctxDone, done, supStopped, storeOpen, lostCheckpoint} \subseteq BOOLEAN
    /\ phase \in [Workers -> {"idle", "live", "over"}]
    /\ outbox \in [Workers -> Seq({"pause", "resume"})]
    /\ paused \in [Workers -> BOOLEAN]
    /\ queue \in {"open", "nil"}
    /\ jobs \in Nat
    /\ {starts, pauses, findings, restarts} \subseteq Nat

\* campaign.go, finish: "finished" means triage is done too, and no worker is left.
FinishedMeansDone ==
    state = "finished" => jobs = 0 /\ \A w \in Workers : phase[w] # "live"

\* The same for a campaign that is started once, as long as nobody drops it:
\* neither Forget nor the daemon's Close has begun to take its queue.
DoneUnlessDropped ==
    (\A p \in Callers : pc[p] \notin {"close", "f_close", "wait", "f_wait", "store",
                                      "gone"})
        => FinishedMeansDone

\* finish runs once: its body has one executor at a time.
OneFinisher ==
    \A p, q \in Procs :
        {pc[p], pc[q]} \subseteq {"join", "queue", "drain", "declare"} => p = q

\* A campaign leaves its lifecycle once, and not before its findings are triaged.
FinishIsClean == TypeOK /\ OneFinisher /\ DoneUnlessDropped

\* A campaign that is being stopped does finish, however the calls interleave, and
\* then lets go of whoever waits for it, provided its run loop had been started.
StoppingFinishes ==
    /\ state = "stopping" ~> state = "finished"
    /\ (state = "finished" /\ pc["run"] # "none") ~> done

\* Forget and the daemon's Close come to an end: neither waits for what a campaign
\* that failed to start, or that another caller is stopping, will never do.
ShutdownReturns ==
    \A p \in Callers :
        (pc[p] \in {"close", "f_close"} \/ (pc[p] = "finish" /\ op[p] = "Close"))
            ~> pc[p] = "gone"

----------------------------------------------------------------------------
(* Two statements of the code's comments that the code does not keep: TLC   *)
(* refutes each of them under FairSpec.  With MaxStarts = 2 it refutes      *)
(* OneFinisher and DoneUnlessDropped, too: Start makes a campaign that is   *)
(* being stopped "running" again, and the next finisher declares it         *)
(* finished while the first still waits for its workers.                    *)

\* Pause suspends fuzzing: if the campaign stays paused, its workers stop.
PauseSuspends ==
    <>[](state = "paused") => <>[](\A w \in Workers : phase[w] = "live" => paused[w])

\* daemon.go, Close: a worker's last checkpoint is written before the store it
\* would be written to is closed.
CheckpointBeforeStoreCloses == ~lostCheckpoint
=============================================================================
