----------------------------- MODULE Supervisor -----------------------------
(***************************************************************************)
(* The supervisor of a campaign's worker processes                         *)
(* (internal/daemon/worker.go) and, as far as the supervisor can see it,   *)
(* the control loop of the process it runs (internal/worker/run.go).       *)
(*                                                                         *)
(* Per worker there are five goroutines in the daemon (supervise, the pump *)
(* it calls, the kill watcher, the pipe writer, and the spawner's own      *)
(* watcher of the context) and two in the worker process (readCommands and *)
(* the fuzzing loop).  Status messages are       *)
(* abstracted to "msg", "stopped" and "bad" (a line that does not decode), *)
(* commands to "stop" and "other".                                         *)
(***************************************************************************)
EXTENDS Naturals, Sequences, FiniteSets

CONSTANTS
    Workers,
    MaxRestarts,  \* Supervisor.MaxRestarts
    OutboxDepth,  \* outboxDepth
    PipeCap,      \* commands the control pipe holds before a write blocks
    StatusCap,    \* messages the status pipe holds before a write blocks
    IncomingCap,  \* the worker's own command queue
    MaxSends,     \* bound: commands a campaign sends to one worker
    MaxLongRuns   \* bound: runs longer than RestartWindow, per worker

ASSUME SupervisorAssumption ==
    /\ MaxRestarts \in Nat /\ MaxSends \in Nat /\ MaxLongRuns \in Nat
    /\ OutboxDepth \in Nat \ {0} /\ PipeCap \in Nat \ {0}
    /\ StatusCap \in Nat \ {0} /\ IncomingCap \in Nat \ {0}

VARIABLES
    sup,       \* where supervise(w) is
    state,     \* WorkerStatus.State
    restarts,  \* worker.restarts
    stopping,  \* worker.stopping
    cancelled, \* the worker's context
    outbox,    \* worker.outbox
    writer,    \* writeLoop: off, idle, or the command it is writing
    pipe,      \* commands in the control pipe
    up,        \* messages in the status pipe
    proc,      \* the worker process
    incoming,  \* Worker.incoming
    asked,     \* Worker.stop
    stop,      \* the call of Stop: [at, todo, on]
    sends,     \* bound: commands sent so far
    longRuns   \* bound: runs forgiven so far

svVars   == <<sup, state, restarts, longRuns>>
flagVars == <<stopping, cancelled>>
cmdVars  == <<outbox, writer, pipe, sends>>
procVars == <<proc, up, incoming, asked>>
vars == <<svVars, flagVars, cmdVars, procVars, stop>>

Commands == {"stop", "other"}
Alive == {"building", "looping", "leaving"}

Init ==
    /\ sup = [w \in Workers |-> "none"]
    /\ state = [w \in Workers |-> "none"]
    /\ restarts = [w \in Workers |-> 0]
    /\ stopping = [w \in Workers |-> FALSE]
    /\ cancelled = [w \in Workers |-> FALSE]
    /\ outbox = [w \in Workers |-> << >>]
    /\ writer = [w \in Workers |-> "off"]
    /\ pipe = [w \in Workers |-> << >>]
    /\ up = [w \in Workers |-> << >>]
    /\ proc = [w \in Workers |-> "none"]
    /\ incoming = [w \in Workers |-> << >>]
    /\ asked = [w \in Workers |-> FALSE]
    /\ stop = [at |-> "no", todo |-> {}, on |-> {}]
    /\ sends = [w \in Workers |-> 0]
    /\ longRuns = [w \in Workers |-> 0]

-----------------------------------------------------------------------------
(* Start and the commands a campaign sends. *)

\* Mistake in Start: a stopped supervisor still takes workers.
StartAnyway(w) ==
    /\ sup[w] = "none"
    /\ sup' = [sup EXCEPT ![w] = "spawn"]
    /\ state' = [state EXCEPT ![w] = "starting"]
    /\ UNCHANGED <<restarts, longRuns, flagVars, cmdVars, procVars, stop>>

\* A worker is supervised once, and none after Stop.
Start(w) ==
    /\ stop.at = "no"
    /\ sup[w] = "none"
    /\ sup' = [sup EXCEPT ![w] = "spawn"]
    /\ state' = [state EXCEPT ![w] = "starting"]
    /\ UNCHANGED <<restarts, longRuns, flagVars, cmdVars, procVars, stop>>

\* A command that does not fit the outbox is dropped.
Enqueue(w, c) ==
    outbox' = [outbox EXCEPT ![w] =
        IF Len(@) < OutboxDepth THEN Append(@, c) ELSE @]

Send(w) ==
    /\ sup[w] # "none"
    /\ sends[w] < MaxSends
    /\ sends' = [sends EXCEPT ![w] = @ + 1]
    /\ Enqueue(w, "other")
    /\ UNCHANGED <<svVars, flagVars, writer, pipe, procVars, stop>>

-----------------------------------------------------------------------------
(* runOnce. *)

\* The process is started with fresh pipes; the outbox is the worker's and is
\* carried over from the process before.
spawn(w) ==
    /\ sup[w] = "spawn"
    /\ sup' = [sup EXCEPT ![w] = "pump"]
    /\ state' = [state EXCEPT ![w] = "running"]
    /\ proc' = [proc EXCEPT ![w] = "building"]
    /\ writer' = [writer EXCEPT ![w] = "idle"]
    /\ pipe' = [pipe EXCEPT ![w] = << >>]
    /\ up' = [up EXCEPT ![w] = << >>]
    /\ incoming' = [incoming EXCEPT ![w] = << >>]
    /\ asked' = [asked EXCEPT ![w] = FALSE]
    /\ UNCHANGED <<restarts, longRuns, flagVars, outbox, sends, stop>>

\* The spawner refuses, or the binary cannot be started.
spawnFails(w) ==
    /\ sup[w] = "spawn"
    /\ sup' = [sup EXCEPT ![w] = "decide"]
    /\ UNCHANGED <<state, restarts, longRuns, flagVars, cmdVars, procVars, stop>>

\* pump: one message.  MsgStopped and a line that does not decode both end it,
\* and with it the kill watcher.
pump(w) ==
    /\ sup[w] = "pump"
    /\ up[w] # << >>
    /\ up' = [up EXCEPT ![w] = Tail(@)]
    /\ sup' = [sup EXCEPT ![w] = IF Head(up[w]) = "msg" THEN "pump" ELSE "join"]
    /\ stopping' = [stopping EXCEPT ![w] = @ \/ Head(up[w]) = "stopped"]
    /\ UNCHANGED <<state, restarts, longRuns, cancelled, cmdVars, proc, incoming,
                   asked, stop>>

pumpEOF(w) ==
    /\ sup[w] = "pump"
    /\ up[w] = << >>
    /\ proc[w] = "dead"
    /\ sup' = [sup EXCEPT ![w] = "join"]
    /\ UNCHANGED <<state, restarts, longRuns, flagVars, cmdVars, procVars, stop>>

\* The worker's context ends and the process is killed: by the watcher while the
\* pump runs, and by the spawner, which was given the same context, until the
\* process has exited.
watch(w) ==
    /\ cancelled[w]
    /\ proc[w] \in Alive
    /\ proc' = [proc EXCEPT ![w] = "dead"]
    /\ UNCHANGED <<svVars, flagVars, cmdVars, up, incoming, asked, stop>>

\* writeLoop: take a command, and write it once the pipe has room; a write to a
\* dead process fails at once.
writeTake(w) ==
    /\ writer[w] = "idle"
    /\ outbox[w] # << >>
    /\ writer' = [writer EXCEPT ![w] = Head(outbox[w])]
    /\ outbox' = [outbox EXCEPT ![w] = Tail(@)]
    /\ UNCHANGED <<svVars, flagVars, pipe, sends, procVars, stop>>

writeEncode(w) ==
    /\ writer[w] \in Commands
    /\ proc[w] = "dead" \/ Len(pipe[w]) < PipeCap
    /\ pipe' = [pipe EXCEPT ![w] =
           IF proc[w] = "dead" THEN @ ELSE Append(@, writer[w])]
    /\ writer' = [writer EXCEPT ![w] = "idle"]
    /\ UNCHANGED <<svVars, flagVars, outbox, sends, procVars, stop>>

writeDone(w) ==
    /\ writer[w] = "idle"
    /\ sup[w] = "join"
    /\ writer' = [writer EXCEPT ![w] = "off"]
    /\ UNCHANGED <<svVars, flagVars, outbox, pipe, sends, procVars, stop>>

\* Mistake in join: the writer is not waited for.
joinAnyway(w) ==
    /\ sup[w] = "join"
    /\ sup' = [sup EXCEPT ![w] = "reap"]
    /\ UNCHANGED <<state, restarts, longRuns, flagVars, cmdVars, procVars, stop>>

\* writerWG.Wait().
join(w) ==
    /\ sup[w] = "join"
    /\ writer[w] = "off"
    /\ sup' = [sup EXCEPT ![w] = "reap"]
    /\ UNCHANGED <<state, restarts, longRuns, flagVars, cmdVars, procVars, stop>>

\* waitOrKill: the grace period runs out.
reapKill(w) ==
    /\ sup[w] = "reap"
    /\ proc[w] \in Alive
    /\ proc' = [proc EXCEPT ![w] = "dead"]
    /\ UNCHANGED <<svVars, flagVars, cmdVars, up, incoming, asked, stop>>

\* waitOrKill: the process is gone.
reap(w) ==
    /\ sup[w] = "reap"
    /\ proc[w] = "dead"
    /\ sup' = [sup EXCEPT ![w] = "decide"]
    /\ UNCHANGED <<state, restarts, longRuns, flagVars, cmdVars, procVars, stop>>

-----------------------------------------------------------------------------
(* supervise, after runOnce. *)

Ending(w, s) ==
    /\ sup' = [sup EXCEPT ![w] = "done"]
    /\ state' = [state EXCEPT ![w] = s]

\* Mistake in mayRestart: the last restart is not granted.
mayRestartFewer(n) == n < MaxRestarts

mayRestart(n) == n <= MaxRestarts

\* Mistake in decide: a worker that finished on its own is restarted.
decideRestarts(w, long) ==
    /\ sup[w] = "decide"
    /\ ~long
    /\ restarts' = [restarts EXCEPT ![w] = @ + 1]
    /\ IF mayRestart(restarts[w] + 1)
       THEN sup' = [sup EXCEPT ![w] = "backoff"] /\ UNCHANGED state
       ELSE Ending(w, "failed")
    /\ UNCHANGED <<flagVars, cmdVars, procVars, stop, longRuns>>

\* Mistake in decide: a long run takes one restart back.
decideTakesBack(w, long) ==
    /\ sup[w] = "decide"
    /\ ~cancelled[w] /\ ~stopping[w]
    /\ restarts' = [restarts EXCEPT ![w] = IF long THEN @ - 1 ELSE @ + 1]
    /\ IF mayRestart(restarts'[w])
       THEN sup' = [sup EXCEPT ![w] = "backoff"] /\ UNCHANGED state
       ELSE Ending(w, "failed")
    /\ UNCHANGED <<flagVars, cmdVars, procVars, stop, longRuns>>

\* long: the run that ended outlasted RestartWindow.
decide(w, long) ==
    /\ sup[w] = "decide"
    /\ \/ /\ cancelled[w] \/ stopping[w]
          /\ ~long
          /\ Ending(w, "stopped")
          /\ UNCHANGED <<restarts, longRuns>>
       \/ /\ ~cancelled[w] /\ ~stopping[w]
          /\ long => longRuns[w] < MaxLongRuns
          /\ longRuns' = [longRuns EXCEPT ![w] = IF long THEN @ + 1 ELSE @]
          /\ restarts' = [restarts EXCEPT ![w] = (IF long THEN 0 ELSE @) + 1]
          /\ IF mayRestart(restarts'[w])
             THEN sup' = [sup EXCEPT ![w] = "backoff"] /\ UNCHANGED state
             ELSE Ending(w, "failed")
    /\ UNCHANGED <<flagVars, cmdVars, procVars, stop>>

\* The backoff runs out.  The loop does not look at stopping here.
retry(w) ==
    /\ sup[w] = "backoff"
    /\ sup' = [sup EXCEPT ![w] = "spawn"]
    /\ UNCHANGED <<state, restarts, longRuns, flagVars, cmdVars, procVars, stop>>

retryCancelled(w) ==
    /\ sup[w] = "backoff"
    /\ cancelled[w]
    /\ Ending(w, "stopped")
    /\ UNCHANGED <<restarts, longRuns, flagVars, cmdVars, procVars, stop>>

-----------------------------------------------------------------------------
(* Stop. *)

Started == {w \in Workers : sup[w] # "none"}

\* Where Stop goes when its loop over the workers is through.
StopStep(at, todo, on) ==
    stop' = IF todo # {} \/ on # {} THEN [at |-> at, todo |-> todo, on |-> on]
            ELSE [at |-> IF at = "ask" THEN "wait" ELSE "returned", todo |-> {}, on |-> {}]

Stop ==
    /\ stop.at = "no"
    /\ StopStep("ask", Started, {})
    /\ UNCHANGED <<svVars, flagVars, cmdVars, procVars>>

stopAsk(w) ==
    /\ stop.at = "ask"
    /\ w \in stop.todo
    /\ stopping' = [stopping EXCEPT ![w] = TRUE]
    /\ Enqueue(w, "stop")
    /\ StopStep("ask", stop.todo \ {w}, {})
    /\ UNCHANGED <<svVars, cancelled, writer, pipe, sends, procVars>>

\* Every worker is done, or the shared deadline has passed.
stopWait ==
    /\ stop.at = "wait"
    /\ StopStep("cancel", Started, {})
    /\ UNCHANGED <<svVars, flagVars, cmdVars, procVars>>

\* Mistake in stopCancel: done is waited for without the cancellation.
stopCancelForgotten(w) ==
    /\ stop.at = "cancel"
    /\ stop.on = {}
    /\ w \in stop.todo
    /\ StopStep("cancel", stop.todo \ {w}, {w})
    /\ UNCHANGED <<svVars, flagVars, cmdVars, procVars>>

stopCancel(w) ==
    /\ stop.at = "cancel"
    /\ stop.on = {}
    /\ w \in stop.todo
    /\ cancelled' = [cancelled EXCEPT ![w] = TRUE]
    /\ StopStep("cancel", stop.todo \ {w}, {w})
    /\ UNCHANGED <<svVars, stopping, cmdVars, procVars>>

\* Mistake in stopJoin: Stop does not wait for the worker's goroutine.
stopJoinEarly(w) ==
    /\ stop.at = "cancel"
    /\ w \in stop.on
    /\ StopStep("cancel", stop.todo, {})
    /\ UNCHANGED <<svVars, flagVars, cmdVars, procVars>>

stopJoin(w) ==
    /\ stop.at = "cancel"
    /\ w \in stop.on
    /\ sup[w] = "done"
    /\ StopStep("cancel", stop.todo, {})
    /\ UNCHANGED <<svVars, flagVars, cmdVars, procVars>>

-----------------------------------------------------------------------------
(* The worker process, internal/worker/run.go. *)

Become(w, p) == proc' = [proc EXCEPT ![w] = p]
Report(w, m) == Len(up[w]) < StatusCap /\ up' = [up EXCEPT ![w] = Append(@, m)]

\* build, loadCorpus and learning end with MsgReady; only then does the process
\* begin to read its control pipe.
ready(w) ==
    /\ proc[w] = "building"
    /\ Report(w, "msg")
    /\ Become(w, "looping")
    /\ UNCHANGED <<svVars, flagVars, cmdVars, incoming, asked, stop>>

\* A report of the fuzzing loop (or of learning), or a stray line.
report(w, m) ==
    /\ proc[w] \in {"building", "looping"}
    /\ Report(w, m)
    /\ UNCHANGED <<svVars, flagVars, cmdVars, proc, incoming, asked, stop>>

readCommands(w) ==
    /\ proc[w] \in {"looping", "leaving"}
    /\ pipe[w] # << >>
    /\ pipe' = [pipe EXCEPT ![w] = Tail(@)]
    /\ incoming' = [incoming EXCEPT ![w] =
           IF Len(@) < IncomingCap THEN Append(@, Head(pipe[w])) ELSE @]
    /\ UNCHANGED <<svVars, flagVars, outbox, writer, sends, proc, up, asked, stop>>

drainCommands(w) ==
    /\ proc[w] = "looping"
    /\ incoming[w] # << >>
    /\ asked' = [asked EXCEPT ![w] = @ \/ Head(incoming[w]) = "stop"]
    /\ incoming' = [incoming EXCEPT ![w] = Tail(@)]
    /\ UNCHANGED <<svVars, flagVars, cmdVars, proc, up, stop>>

\* finish: asked to, or because of an engine error or the worker's own budget.
finish(w) ==
    /\ proc[w] = "looping"
    /\ Report(w, "stopped")
    /\ Become(w, "leaving")
    /\ UNCHANGED <<svVars, flagVars, cmdVars, incoming, asked, stop>>

\* The process exits after finish, or dies before it: a crash, or an error while
\* building, which sends no MsgStopped.
exit(w) ==
    /\ proc[w] \in Alive
    /\ Become(w, "dead")
    /\ UNCHANGED <<svVars, flagVars, cmdVars, up, incoming, asked, stop>>

-----------------------------------------------------------------------------
SuperviseStep(w) ==
    \/ spawn(w) \/ spawnFails(w) \/ pump(w) \/ pumpEOF(w)
    \/ join(w) \/ reap(w)
    \/ \E long \in BOOLEAN : decide(w, long)
    \/ retry(w) \/ retryCancelled(w)

WriterStep(w) == writeTake(w) \/ writeEncode(w) \/ writeDone(w)

KillStep(w) == watch(w) \/ reapKill(w)

StopProgress ==
    stopWait \/ \E w \in Workers : stopAsk(w) \/ stopCancel(w) \/ stopJoin(w)

ProcessStep(w) ==
    \/ ready(w) \/ report(w, "msg") \/ report(w, "bad")
    \/ readCommands(w) \/ drainCommands(w)
    \/ finish(w) \/ exit(w)

Next ==
    \/ Stop \/ StopProgress
    \/ \E w \in Workers :
        \/ Start(w) \/ Send(w)
        \/ SuperviseStep(w) \/ WriterStep(w) \/ KillStep(w)
        \/ ProcessStep(w)

Spec == Init /\ [][Next]_vars

\* The daemon's goroutines are scheduled and its timers fire.  Nothing is
\* assumed of the worker processes: a wedged worker is one that takes no more
\* steps.  The pump may be fed for ever and a write may be blocked for ever, so
\* Stop's join relies on the kill that follows the cancellation; writeDone
\* competes with writeTake in a select that is random, hence the strong fairness.
Fairness ==
    /\ WF_vars(StopProgress)
    /\ \A w \in Workers :
        /\ WF_vars(SuperviseStep(w))
        /\ WF_vars(writeTake(w) \/ writeEncode(w))
        /\ SF_vars(writeDone(w))
        /\ WF_vars(KillStep(w))

FairSpec == Spec /\ Fairness

-----------------------------------------------------------------------------
(* Properties. *)

\* The types of the supervisor's state.
TypeOK ==
    /\ sup \in [Workers -> {"none", "spawn", "pump", "join", "reap", "decide",
                            "backoff", "done"}]
    /\ state \in [Workers -> {"none", "starting", "running", "stopped", "failed"}]
    /\ restarts \in [Workers -> Nat]
    /\ stopping \in [Workers -> BOOLEAN]
    /\ cancelled \in [Workers -> BOOLEAN]
    /\ outbox \in [Workers -> Seq(Commands)]
    /\ writer \in [Workers -> {"off", "idle"} \cup Commands]
    /\ pipe \in [Workers -> Seq(Commands)]
    /\ up \in [Workers -> Seq({"msg", "bad", "stopped"})]
    /\ proc \in [Workers -> Alive \cup {"none", "dead"}]
    /\ incoming \in [Workers -> Seq(Commands)]
    /\ asked \in [Workers -> BOOLEAN]
    /\ stop \in [at : {"no", "ask", "wait", "cancel", "returned"},
                 todo : SUBSET Workers, on : SUBSET Workers]
    /\ sends \in [Workers -> Nat]
    /\ longRuns \in [Workers -> Nat]

\* When Stop has returned, no process of any worker is left and no goroutine
\* of its supervision is running, however the processes behaved.
StopLeavesNothing ==
    stop.at = "returned" =>
        \A w \in Workers :
            /\ sup[w] \in {"none", "done"}
            /\ proc[w] \notin Alive
            /\ writer[w] = "off"

\* encoder() reads worker.enc without the lock because the writer goroutine
\* exists only between the assignment of the encoder and its clearing; and no
\* two processes are ever run for one worker at a time.
WriterWithinRun ==
    \A w \in Workers :
        /\ writer[w] # "off" => sup[w] \in {"pump", "join"}
        /\ proc[w] \in Alive => sup[w] \in {"pump", "join", "reap"}

\* A worker is given up on only after MaxRestarts restarts have been tried, and
\* never one that had been asked to stop or had finished on its own.
GivenUpOnlyAfterRestarts ==
    \A w \in Workers :
        state[w] = "failed" => restarts[w] = MaxRestarts + 1

\* A run that ends after the worker reported MsgStopped, or after Stop asked it
\* to, is its last, and the worker ends as stopped, never as failed.
FinishedIsNotRestarted ==
    [][\A w \in Workers :
          sup[w] \in {"join", "reap", "decide"} /\ stopping[w] =>
              /\ sup'[w] \in {"join", "reap", "decide", "done"}
              /\ sup'[w] = "done" => state'[w] = "stopped"
       ]_vars

\* Stop returns, whatever the worker processes do: one that is wedged, that
\* ignores the request, that closed its status pipe and reads nothing, or that
\* dies and is being restarted does not hold it up.
StopReturns == (stop.at # "no") ~> (stop.at = "returned")

\* "a blocked write blocks nothing but itself" (runOnce): the supervisor gets
\* past the writer once the stream of a worker has ended.  It does not: the join
\* comes before the bounded wait that kills, so a worker that sent a bad line or
\* MsgStopped and then neither reads nor exits is not restarted while a write to
\* it is blocked, until Stop cancels it.
JoinReturns == \A w \in Workers : (sup[w] = "join") ~> (sup[w] # "join")

\* The phase of a worker as a campaign sees it.
PhaseOf(w) ==
    CASE sup[w] = "none" -> "idle" [] sup[w] = "done" -> "over" [] OTHER -> "live"

Contract == INSTANCE SupervisorContract WITH
    phase <- [w \in Workers |-> PhaseOf(w)],
    stop <- CASE stop.at = "no" -> "no" [] stop.at = "returned" -> "returned"
              [] OTHER -> "asked"

\* The supervisor implements what the campaign relies on.
ImplementsContract == Contract!Spec
=============================================================================
