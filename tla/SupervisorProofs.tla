-------------------------- MODULE SupervisorProofs --------------------------
(***************************************************************************)
(* Proofs about Supervisor, for any set of workers, any restart limit and  *)
(* any capacity of the outbox, the pipes and the command queue.            *)
(***************************************************************************)
EXTENDS Supervisor, TLAPS

\* What Stop relies on: it has at most one worker in hand, every other worker
\* that is not over is still ahead of it, and none is left when it returns.
Over(w) == sup[w] \in {"none", "done"}

StopInv ==
    /\ \A v, w \in stop.on : v = w
    /\ stop.at = "cancel" =>
           \A w \in Workers : Over(w) \/ w \in stop.todo \cup stop.on
    /\ stop.at = "returned" => \A w \in Workers : Over(w)

\* The restart counter never passes the limit while the worker is alive.
RestartInv ==
    \A w \in Workers :
        /\ sup[w] # "done" => restarts[w] <= MaxRestarts /\ state[w] # "failed"
        /\ state[w] = "failed" => restarts[w] = MaxRestarts + 1

\* The initial state is well typed.
LEMMA InitTypeOK == Init => TypeOK
BY DEF Init, TypeOK, Alive, Commands

\* Appending to one worker's queue keeps the queues well typed.
LEMMA AppendType ==
    ASSUME NEW S, NEW q \in [Workers -> Seq(S)], NEW w \in Workers, NEW c \in S
    PROVE  [q EXCEPT ![w] = Append(@, c)] \in [Workers -> Seq(S)]
<1>1. Append(q[w], c) \in Seq(S)
  OBVIOUS
<1> QED BY <1>1

\* So does taking the head of a queue that has one.
LEMMA TailType ==
    ASSUME NEW S, NEW q \in [Workers -> Seq(S)], NEW w \in Workers, q[w] # << >>
    PROVE  /\ [q EXCEPT ![w] = Tail(@)] \in [Workers -> Seq(S)]
           /\ Head(q[w]) \in S
<1>1. Tail(q[w]) \in Seq(S) /\ Head(q[w]) \in S
  OBVIOUS
<1> QED BY <1>1

\* A command put in the outbox, or dropped because the outbox is full.
LEMMA EnqueueType ==
    ASSUME TypeOK, NEW w \in Workers, NEW c \in Commands, Enqueue(w, c)
    PROVE  outbox' \in [Workers -> Seq(Commands)]
<1>1. outbox \in [Workers -> Seq(Commands)]
  BY DEF TypeOK
<1>2. CASE outbox' = [outbox EXCEPT ![w] = Append(@, c)]
  BY <1>1, <1>2, AppendType
<1>3. CASE outbox' = [outbox EXCEPT ![w] = @]
  BY <1>1, <1>3
<1> QED BY <1>2, <1>3 DEF Enqueue

\* The record of a call of Stop.
StopState == [at : {"no", "ask", "wait", "cancel", "returned"},
              todo : SUBSET Workers, on : SUBSET Workers]

\* A loop of Stop over a set of workers keeps its record well typed.
LEMMA StopStepType ==
    ASSUME NEW at \in {"ask", "cancel"}, NEW todo \in SUBSET Workers,
           NEW on \in SUBSET Workers, StopStep(at, todo, on)
    PROVE  stop' \in StopState
<1>1. CASE todo # {} \/ on # {}
  BY <1>1 DEF StopStep, StopState
<1>2. CASE todo = {} /\ on = {} /\ at = "ask"
  BY <1>2 DEF StopStep, StopState
<1>3. CASE todo = {} /\ on = {} /\ at = "cancel"
  BY <1>3 DEF StopStep, StopState
<1> QED BY <1>1, <1>2, <1>3

\* Every step keeps the state well typed.
LEMMA NextTypeOK == TypeOK /\ [Next]_vars => TypeOK'
<1> SUFFICES ASSUME TypeOK, [Next]_vars PROVE TypeOK'
  OBVIOUS
<1> USE SupervisorAssumption DEF svVars, flagVars, cmdVars, procVars
<1>1. ASSUME NEW w \in Workers, Start(w) PROVE TypeOK'
  BY <1>1 DEF TypeOK, Start
<1>2. ASSUME NEW w \in Workers, Send(w) PROVE TypeOK'
  <2>1. outbox' \in [Workers -> Seq(Commands)]
    BY <1>2, EnqueueType DEF Send, Commands
  <2>2. sends' \in [Workers -> Nat]
    BY <1>2 DEF Send, TypeOK
  <2> QED BY <1>2, <2>1, <2>2 DEF TypeOK, Send
<1>3. ASSUME NEW w \in Workers, spawn(w) PROVE TypeOK'
  BY <1>3 DEF TypeOK, spawn, Alive, Commands
<1>4. ASSUME NEW w \in Workers,
             spawnFails(w) \/ pumpEOF(w) \/ join(w) \/ reap(w) \/ retry(w)
      PROVE TypeOK'
  BY <1>4 DEF TypeOK, spawnFails, pumpEOF, join, reap, retry
<1>5. ASSUME NEW w \in Workers, pump(w) PROVE TypeOK'
  <2>1. up' \in [Workers -> Seq({"msg", "bad", "stopped"})]
    BY <1>5, TailType DEF pump, TypeOK
  <2> QED BY <1>5, <2>1 DEF TypeOK, pump
<1>6. ASSUME NEW w \in Workers, watch(w) \/ reapKill(w) \/ exit(w) PROVE TypeOK'
  BY <1>6 DEF TypeOK, watch, reapKill, exit, Become, Alive
<1>7. ASSUME NEW w \in Workers, writeTake(w) PROVE TypeOK'
  <2>1. outbox' \in [Workers -> Seq(Commands)] /\ Head(outbox[w]) \in Commands
    BY <1>7, TailType DEF writeTake, TypeOK
  <2> QED BY <1>7, <2>1 DEF TypeOK, writeTake
<1>8. ASSUME NEW w \in Workers, writeEncode(w) PROVE TypeOK'
  <2>1. pipe' \in [Workers -> Seq(Commands)]
    <3>1. CASE pipe' = [pipe EXCEPT ![w] = Append(@, writer[w])]
      BY <1>8, <3>1, AppendType DEF writeEncode, TypeOK
    <3>2. CASE pipe' = [pipe EXCEPT ![w] = @]
      BY <3>2 DEF TypeOK
    <3> QED BY <1>8, <3>1, <3>2 DEF writeEncode
  <2> QED BY <1>8, <2>1 DEF TypeOK, writeEncode
<1>9. ASSUME NEW w \in Workers, writeDone(w) PROVE TypeOK'
  BY <1>9 DEF TypeOK, writeDone
<1>10. ASSUME NEW w \in Workers, NEW long \in BOOLEAN, decide(w, long) PROVE TypeOK'
  <2>1. /\ restarts' \in [Workers -> Nat] /\ longRuns' \in [Workers -> Nat]
        /\ UNCHANGED <<flagVars, cmdVars, procVars, stop>>
    <3>1. CASE UNCHANGED <<restarts, longRuns>>
      BY <1>10, <3>1 DEF decide, TypeOK
    <3>2. CASE /\ longRuns' = [longRuns EXCEPT ![w] = IF long THEN @ + 1 ELSE @]
               /\ restarts' = [restarts EXCEPT ![w] = (IF long THEN 0 ELSE @) + 1]
      <4>1. /\ (IF long THEN longRuns[w] + 1 ELSE longRuns[w]) \in Nat
            /\ (IF long THEN 0 ELSE restarts[w]) + 1 \in Nat
        BY DEF TypeOK
      <4> QED BY <1>10, <3>2, <4>1 DEF decide, TypeOK
    <3> QED BY <1>10, <3>1, <3>2 DEF decide
  <2>2. CASE Ending(w, "stopped") \/ Ending(w, "failed")
    BY <2>1, <2>2 DEF Ending, TypeOK
  <2>3. CASE sup' = [sup EXCEPT ![w] = "backoff"] /\ UNCHANGED state
    BY <2>1, <2>3 DEF TypeOK
  <2> QED BY <1>10, <2>2, <2>3 DEF decide
<1>11. ASSUME NEW w \in Workers, retryCancelled(w) PROVE TypeOK'
  BY <1>11 DEF TypeOK, retryCancelled, Ending
<1>12. CASE Stop \/ stopWait
  <2>1. Started \in SUBSET Workers
    BY DEF Started
  <2>2. stop' \in StopState
    BY <1>12, <2>1, StopStepType DEF Stop, stopWait
  <2> QED BY <1>12, <2>2 DEF TypeOK, StopState, Stop, stopWait
<1>13. ASSUME NEW w \in Workers, stopAsk(w) PROVE TypeOK'
  <2>1. outbox' \in [Workers -> Seq(Commands)]
    BY <1>13, EnqueueType DEF stopAsk, Commands
  <2>2. stop.todo \ {w} \in SUBSET Workers
    BY DEF TypeOK
  <2>3. stop' \in StopState
    BY <1>13, <2>2, StopStepType DEF stopAsk
  <2> QED BY <1>13, <2>1, <2>3 DEF TypeOK, StopState, stopAsk
<1>14. ASSUME NEW w \in Workers, stopCancel(w) \/ stopJoin(w) PROVE TypeOK'
  <2>1. stop.todo \in SUBSET Workers /\ stop.todo \ {w} \in SUBSET Workers
    BY DEF TypeOK
  <2>2. stop' \in StopState
    BY <1>14, <2>1, StopStepType DEF stopCancel, stopJoin
  <2> QED BY <1>14, <2>2 DEF TypeOK, StopState, stopCancel, stopJoin
<1>15. ASSUME NEW w \in Workers,
              \/ ready(w) \/ report(w, "msg") \/ report(w, "bad") \/ finish(w)
       PROVE TypeOK'
  <2>1. up' \in [Workers -> Seq({"msg", "bad", "stopped"})]
    <3>1. \E m \in {"msg", "bad", "stopped"} : Report(w, m)
      BY <1>15 DEF ready, report, finish
    <3> PICK m \in {"msg", "bad", "stopped"} : Report(w, m)
      BY <3>1
    <3>2. up' = [up EXCEPT ![w] = Append(@, m)]
      BY DEF Report
    <3> QED BY <3>2, AppendType DEF TypeOK
  <2> QED BY <1>15, <2>1 DEF TypeOK, ready, report, finish, Become, Alive
<1>16. ASSUME NEW w \in Workers, readCommands(w) PROVE TypeOK'
  <2>1. pipe' \in [Workers -> Seq(Commands)] /\ Head(pipe[w]) \in Commands
    BY <1>16, TailType DEF readCommands, TypeOK
  <2>2. incoming' \in [Workers -> Seq(Commands)]
    <3>1. CASE incoming' = [incoming EXCEPT ![w] = Append(@, Head(pipe[w]))]
      BY <2>1, <3>1, AppendType DEF TypeOK
    <3>2. CASE incoming' = [incoming EXCEPT ![w] = @]
      BY <3>2 DEF TypeOK
    <3> QED BY <1>16, <3>1, <3>2 DEF readCommands
  <2> QED BY <1>16, <2>1, <2>2 DEF TypeOK, readCommands
<1>17. ASSUME NEW w \in Workers, drainCommands(w) PROVE TypeOK'
  <2>1. incoming' \in [Workers -> Seq(Commands)]
    BY <1>17, TailType DEF drainCommands, TypeOK
  <2> QED BY <1>17, <2>1 DEF TypeOK, drainCommands
<1>18. CASE UNCHANGED vars
  BY <1>18 DEF TypeOK, vars
<1> QED BY <1>1, <1>2, <1>3, <1>4, <1>5, <1>6, <1>7, <1>8, <1>9, <1>10, <1>11,
           <1>12, <1>13, <1>14, <1>15, <1>16, <1>17, <1>18
        DEF Next, StopProgress, SuperviseStep, WriterStep, KillStep, ProcessStep

\* Every state of the supervisor is well typed.
THEOREM TypeCorrect == Spec => []TypeOK
BY InitTypeOK, NextTypeOK, PTL DEF Spec

-----------------------------------------------------------------------------
(* The writer and the process exist only within a run. *)

\* Every step keeps the writer and the process within the run.
LEMMA NextWithinRun == TypeOK /\ WriterWithinRun /\ [Next]_vars => WriterWithinRun'
<1> SUFFICES ASSUME TypeOK, WriterWithinRun, [Next]_vars PROVE WriterWithinRun'
  OBVIOUS
<1> USE DEF TypeOK, WriterWithinRun, svVars, flagVars, cmdVars, procVars, Alive,
            Commands
<1>1. CASE UNCHANGED <<sup, writer, proc>>
  BY <1>1
<1>2. ASSUME NEW w \in Workers, Start(w) \/ spawn(w) \/ spawnFails(w)
      PROVE WriterWithinRun'
  <2>1. CASE Start(w)
    BY <2>1 DEF Start
  <2>2. CASE spawn(w)
    BY <2>2 DEF spawn
  <2>3. CASE spawnFails(w)
    BY <2>3 DEF spawnFails
  <2> QED BY <1>2, <2>1, <2>2, <2>3
<1>3. ASSUME NEW w \in Workers, pump(w) \/ pumpEOF(w) \/ join(w) \/ reap(w)
      PROVE WriterWithinRun'
  <2>1. CASE pump(w) \/ pumpEOF(w)
    <3>1. /\ UNCHANGED <<writer, proc>>
          /\ \E x \in {"pump", "join"} : sup' = [sup EXCEPT ![w] = x]
      BY <2>1 DEF pump, pumpEOF
    <3> QED BY <3>1
  <2>2. CASE join(w)
    BY <2>2 DEF join
  <2>3. CASE reap(w)
    BY <2>3 DEF reap
  <2> QED BY <1>3, <2>1, <2>2, <2>3
<1>4. ASSUME NEW w \in Workers, NEW long \in BOOLEAN, decide(w, long)
      PROVE WriterWithinRun'
  <2>1. /\ sup[w] = "decide" /\ UNCHANGED <<writer, proc>>
        /\ \E x \in {"done", "backoff"} : sup' = [sup EXCEPT ![w] = x]
    BY <1>4 DEF decide, Ending
  <2> QED BY <2>1
<1>5. ASSUME NEW w \in Workers, retry(w) \/ retryCancelled(w)
      PROVE WriterWithinRun'
  BY <1>5 DEF retry, retryCancelled, Ending
<1>6. ASSUME NEW w \in Workers, writeTake(w) \/ writeEncode(w) \/ writeDone(w)
      PROVE WriterWithinRun'
  <2>1. /\ writer[w] # "off" /\ UNCHANGED <<sup, proc>>
        /\ \A v \in Workers \ {w} : writer'[v] = writer[v]
    BY <1>6 DEF writeTake, writeEncode, writeDone
  <2> QED BY <2>1
<1>7. ASSUME NEW w \in Workers,
             watch(w) \/ reapKill(w) \/ ready(w) \/ finish(w) \/ exit(w)
      PROVE WriterWithinRun'
  <2>1. /\ proc[w] \in Alive /\ UNCHANGED <<sup, writer>>
        /\ \A v \in Workers \ {w} : proc'[v] = proc[v]
    BY <1>7 DEF watch, reapKill, ready, finish, exit, Become
  <2> QED BY <2>1
<1>8. ASSUME NEW w \in Workers,
             \/ Send(w) \/ report(w, "msg") \/ report(w, "bad")
             \/ readCommands(w) \/ drainCommands(w)
             \/ stopAsk(w) \/ stopCancel(w) \/ stopJoin(w)
      PROVE UNCHANGED <<sup, writer, proc>>
  BY <1>8 DEF Send, report, readCommands, drainCommands, stopAsk, stopCancel,
              stopJoin
<1>9. CASE Stop \/ stopWait \/ UNCHANGED vars
  BY <1>1, <1>9 DEF Stop, stopWait, vars
<1> QED BY <1>1, <1>2, <1>3, <1>4, <1>5, <1>6, <1>7, <1>8, <1>9
        DEF Next, StopProgress, SuperviseStep, WriterStep, KillStep, ProcessStep

\* The writer goroutine, and a live process, exist only while runOnce has the
\* encoder set: encoder() may read it without the lock.
THEOREM WriterOnlyWithinRun == Spec => []WriterWithinRun
<1>1. Init => WriterWithinRun
  BY DEF Init, WriterWithinRun, Alive
<1> QED BY <1>1, InitTypeOK, NextTypeOK, NextWithinRun, PTL DEF Spec

-----------------------------------------------------------------------------
(* Restarts. *)

\* Every step keeps the restart counter within its limit.
LEMMA NextRestarts == TypeOK /\ RestartInv /\ [Next]_vars => RestartInv'
<1> SUFFICES ASSUME TypeOK, RestartInv, [Next]_vars PROVE RestartInv'
  OBVIOUS
<1> USE SupervisorAssumption
        DEF TypeOK, RestartInv, svVars, flagVars, cmdVars, procVars
<1>1. CASE UNCHANGED <<sup, state, restarts>>
  BY <1>1
<1>2. ASSUME NEW w \in Workers, NEW x \in {"spawn", "pump", "join", "reap", "decide"},
             sup[w] # "done", sup' = [sup EXCEPT ![w] = x], restarts' = restarts,
             \/ state' = state
             \/ \E y \in {"starting", "running"} : state' = [state EXCEPT ![w] = y]
      PROVE RestartInv'
  BY <1>2
<1>3. ASSUME NEW w \in Workers,
             \/ Start(w) \/ spawn(w) \/ spawnFails(w) \/ pump(w) \/ pumpEOF(w)
             \/ join(w) \/ reap(w) \/ retry(w)
      PROVE RestartInv'
  BY <1>2, <1>3 DEF Start, spawn, spawnFails, pump, pumpEOF, join, reap, retry
<1>4. ASSUME NEW w \in Workers, sup[w] # "done", Ending(w, "stopped"),
             restarts' = restarts
      PROVE RestartInv'
  BY <1>4 DEF Ending
<1>5. ASSUME NEW w \in Workers, NEW long \in BOOLEAN, decide(w, long)
      PROVE RestartInv'
  <2>1. CASE Ending(w, "stopped") /\ UNCHANGED restarts
    BY <1>4, <1>5, <2>1 DEF decide
  <2>2. CASE restarts' = [restarts EXCEPT ![w] = (IF long THEN 0 ELSE @) + 1]
    <3>0. sup[w] = "decide"
      BY <1>5 DEF decide
    <3>1. restarts'[w] \in Nat /\ restarts'[w] <= MaxRestarts + 1
      <4>1. restarts[w] \in Nat /\ restarts[w] <= MaxRestarts
        BY <3>0
      <4>2. restarts'[w] = (IF long THEN 0 ELSE restarts[w]) + 1
        BY <2>2
      <4> HIDE DEF TypeOK, RestartInv
      <4> QED BY <4>1, <4>2
    <3>2. CASE sup' = [sup EXCEPT ![w] = "backoff"] /\ UNCHANGED state
               /\ restarts'[w] <= MaxRestarts
      <4>1. ASSUME NEW v \in Workers, v # w
            PROVE sup'[v] = sup[v] /\ restarts'[v] = restarts[v] /\ state'[v] = state[v]
        BY <2>2, <3>2, <4>1
      <4>2. restarts'[w] <= MaxRestarts /\ state'[w] # "failed" /\ sup'[w] # "done"
        BY <3>0, <3>2
      <4> QED BY <4>1, <4>2
    <3>3. CASE Ending(w, "failed") /\ ~(restarts'[w] <= MaxRestarts)
      BY <2>2, <3>1, <3>3 DEF Ending
    <3>4. CASE Ending(w, "stopped") /\ UNCHANGED restarts
      BY <2>1, <3>4
    <3> QED BY <1>5, <3>2, <3>3, <3>4 DEF decide, mayRestart
  <2> QED BY <1>5, <2>1, <2>2 DEF decide
<1>6. ASSUME NEW w \in Workers, retryCancelled(w) PROVE RestartInv'
  BY <1>4, <1>6 DEF retryCancelled
<1>7. ASSUME NEW w \in Workers,
             \/ Send(w) \/ WriterStep(w) \/ KillStep(w) \/ ProcessStep(w)
             \/ stopAsk(w) \/ stopCancel(w) \/ stopJoin(w)
      PROVE UNCHANGED <<sup, state, restarts>>
  BY <1>7 DEF Send, WriterStep, writeTake, writeEncode, writeDone, KillStep, watch,
              reapKill, ProcessStep, ready, report, readCommands, drainCommands,
              finish, exit, stopAsk, stopCancel, stopJoin
<1>8. CASE Stop \/ stopWait \/ UNCHANGED vars
  BY <1>1, <1>8 DEF Stop, stopWait, vars
<1> QED BY <1>1, <1>3, <1>5, <1>6, <1>7, <1>8 DEF Next, StopProgress, SuperviseStep

\* A worker is given up on only after exactly MaxRestarts restarts in a row.
THEOREM GivenUpAfterRestarts == Spec => []GivenUpOnlyAfterRestarts
<1>1. Init => RestartInv
  BY SupervisorAssumption DEF Init, RestartInv
<1>2. RestartInv => GivenUpOnlyAfterRestarts
  BY DEF RestartInv, GivenUpOnlyAfterRestarts
<1> QED BY <1>1, <1>2, InitTypeOK, NextTypeOK, NextRestarts, PTL DEF Spec

\* What one step may do to a worker that is on its way out.
LastRun ==
    \A w \in Workers :
        sup[w] \in {"join", "reap", "decide"} /\ stopping[w] =>
            /\ sup'[w] \in {"join", "reap", "decide", "done"}
            /\ sup'[w] = "done" => state'[w] = "stopped"

\* Every step obeys it.
LEMMA StepLastRun == TypeOK /\ [Next]_vars => LastRun
<1> SUFFICES ASSUME TypeOK, [Next]_vars, NEW v \in Workers,
                    sup[v] \in {"join", "reap", "decide"}, stopping[v]
             PROVE  /\ sup'[v] \in {"join", "reap", "decide", "done"}
                    /\ sup'[v] = "done" => state'[v] = "stopped"
  BY DEF LastRun
<1> USE DEF TypeOK, svVars, flagVars, cmdVars, procVars
<1>1. CASE UNCHANGED sup
  BY <1>1
<1>2. ASSUME NEW w \in Workers,
             \/ Start(w) \/ spawn(w) \/ spawnFails(w) \/ pump(w) \/ pumpEOF(w)
             \/ retry(w) \/ retryCancelled(w)
      PROVE sup'[v] = sup[v]
  BY <1>2 DEF Start, spawn, spawnFails, pump, pumpEOF, retry, retryCancelled, Ending
<1>3. ASSUME NEW w \in Workers, join(w) \/ reap(w)
      PROVE sup'[v] \in {"join", "reap", "decide"}
  BY <1>3 DEF join, reap
<1>4. ASSUME NEW w \in Workers, NEW long \in BOOLEAN, decide(w, long), w = v
      PROVE sup'[v] = "done" /\ state'[v] = "stopped"
  BY <1>4 DEF decide, Ending
<1>5. ASSUME NEW w \in Workers, NEW long \in BOOLEAN, decide(w, long), w # v
      PROVE sup'[v] = sup[v]
  BY <1>5 DEF decide, Ending
<1>6. ASSUME NEW w \in Workers,
             \/ Send(w) \/ WriterStep(w) \/ KillStep(w) \/ ProcessStep(w)
             \/ stopAsk(w) \/ stopCancel(w) \/ stopJoin(w)
      PROVE UNCHANGED sup
  BY <1>6 DEF Send, WriterStep, writeTake, writeEncode, writeDone, KillStep, watch,
              reapKill, ProcessStep, ready, report, readCommands, drainCommands,
              finish, exit, stopAsk, stopCancel, stopJoin
<1>7. CASE Stop \/ stopWait \/ UNCHANGED vars
  BY <1>1, <1>7 DEF Stop, stopWait, vars
<1> QED BY <1>1, <1>2, <1>3, <1>4, <1>5, <1>6, <1>7
        DEF Next, StopProgress, SuperviseStep

\* A worker that finished, or was asked to, is not restarted once its run ends.
THEOREM FinishedNotRestarted == Spec => FinishedIsNotRestarted
<1>1. TypeOK /\ [Next]_vars => [LastRun]_vars
  BY StepLastRun
<1>2. Spec => [][LastRun]_vars
  BY <1>1, TypeCorrect, PTL DEF Spec
<1> QED BY <1>2, PTL DEF FinishedIsNotRestarted, LastRun

-----------------------------------------------------------------------------
(* Stop. *)

\* How a worker's supervision may move once Stop has begun: never into a run
\* from outside, and never out of "done".
LEMMA OverIsStable ==
    ASSUME TypeOK, [Next]_vars, stop.at # "no", NEW v \in Workers, Over(v)
    PROVE  Over(v)'
<1> USE DEF TypeOK, svVars, flagVars, cmdVars, procVars, Over
<1>1. CASE UNCHANGED sup
  BY <1>1
<1>2. ASSUME NEW w \in Workers,
             \/ Start(w) \/ spawn(w) \/ spawnFails(w) \/ pump(w) \/ pumpEOF(w)
             \/ join(w) \/ reap(w) \/ retry(w) \/ retryCancelled(w)
      PROVE sup'[v] = sup[v]
  BY <1>2 DEF Start, spawn, spawnFails, pump, pumpEOF, join, reap, retry,
              retryCancelled, Ending
<1>3. ASSUME NEW w \in Workers, NEW long \in BOOLEAN, decide(w, long)
      PROVE sup'[v] = sup[v]
  BY <1>3 DEF decide, Ending
<1>4. ASSUME NEW w \in Workers,
             \/ Send(w) \/ WriterStep(w) \/ KillStep(w) \/ ProcessStep(w)
             \/ stopAsk(w) \/ stopCancel(w) \/ stopJoin(w)
      PROVE UNCHANGED sup
  BY <1>4 DEF Send, WriterStep, writeTake, writeEncode, writeDone, KillStep, watch,
              reapKill, ProcessStep, ready, report, readCommands, drainCommands,
              finish, exit, stopAsk, stopCancel, stopJoin
<1>5. CASE Stop \/ stopWait \/ UNCHANGED vars
  BY <1>1, <1>5 DEF Stop, stopWait, vars
<1> QED BY <1>1, <1>2, <1>3, <1>4, <1>5 DEF Next, StopProgress, SuperviseStep

\* Only Stop's own steps change its record.
LEMMA StopUnchanged ==
    ASSUME NEW w \in Workers,
           \/ Start(w) \/ Send(w) \/ SuperviseStep(w) \/ WriterStep(w)
           \/ KillStep(w) \/ ProcessStep(w)
    PROVE  UNCHANGED stop
BY DEF Start, Send, SuperviseStep, spawn, spawnFails, pump, pumpEOF, join, reap,
       decide, retry, retryCancelled, WriterStep, writeTake, writeEncode, writeDone,
       KillStep, watch, reapKill, ProcessStep, ready, report, readCommands,
       drainCommands, finish, exit

\* Every step keeps what Stop relies on.
LEMMA NextStopInv == TypeOK /\ StopInv /\ [Next]_vars => StopInv'
<1> SUFFICES ASSUME TypeOK, StopInv, [Next]_vars PROVE StopInv'
  OBVIOUS
<1>0. stop \in StopState
  BY DEF TypeOK, StopState
<1>1. CASE UNCHANGED stop
  BY <1>1, OverIsStable DEF StopInv
<1>2. CASE Stop \/ stopWait
  <2>1. UNCHANGED sup
    BY <1>2 DEF Stop, stopWait, svVars
  <2>3. CASE Stop
    <3>1. stop'.at \in {"ask", "wait"} /\ stop'.on = {}
      BY <2>3 DEF Stop, StopStep
    <3> QED BY <3>1 DEF StopInv
  <2>4. CASE stopWait
    <3>1. CASE Started # {}
      <4>1. stop' = [at |-> "cancel", todo |-> Started, on |-> {}]
        BY <2>4, <3>1 DEF stopWait, StopStep
      <4> QED BY <2>1, <4>1 DEF StopInv, Over, Started
    <3>2. CASE Started = {}
      <4>1. stop' = [at |-> "returned", todo |-> {}, on |-> {}]
        BY <2>4, <3>2 DEF stopWait, StopStep
      <4>2. \A w \in Workers : Over(w)'
        BY <2>1, <3>2 DEF Over, Started
      <4> QED BY <4>1, <4>2 DEF StopInv
    <3> QED BY <3>1, <3>2
  <2> QED BY <1>2, <2>3, <2>4
<1>3. ASSUME NEW w \in Workers, stopAsk(w) PROVE StopInv'
  <2>1. stop'.at \in {"ask", "wait"} /\ stop'.on = {}
    BY <1>3 DEF stopAsk, StopStep
  <2> QED BY <2>1 DEF StopInv
<1>4. ASSUME NEW w \in Workers, stopCancel(w) PROVE StopInv'
  <2>1. /\ stop' = [at |-> "cancel", todo |-> stop.todo \ {w}, on |-> {w}]
        /\ stop.at = "cancel" /\ stop.on = {} /\ UNCHANGED sup
    BY <1>4 DEF stopCancel, StopStep, svVars
  <2> QED BY <2>1 DEF StopInv, Over
<1>5. ASSUME NEW w \in Workers, stopJoin(w) PROVE StopInv'
  <2>1. /\ stop.at = "cancel" /\ w \in stop.on /\ sup[w] = "done" /\ UNCHANGED sup
        /\ StopStep("cancel", stop.todo, {})
    BY <1>5 DEF stopJoin, svVars
  <2>2. \A v \in Workers : Over(v)' \/ v \in stop.todo
    BY <2>1 DEF StopInv, Over
  <2>3. CASE stop.todo # {}
    <3>1. stop' = [at |-> "cancel", todo |-> stop.todo, on |-> {}]
      BY <2>1, <2>3 DEF StopStep
    <3> QED BY <2>2, <3>1 DEF StopInv
  <2>4. CASE stop.todo = {}
    <3>1. stop' = [at |-> "returned", todo |-> {}, on |-> {}]
      BY <2>1, <2>4 DEF StopStep
    <3> QED BY <2>2, <2>4, <3>1 DEF StopInv
  <2> QED BY <2>3, <2>4
<1>6. CASE UNCHANGED vars
  BY <1>1, <1>6 DEF vars
<1> QED BY <1>1, <1>2, <1>3, <1>4, <1>5, <1>6, StopUnchanged
        DEF Next, StopProgress

\* What Stop relies on holds throughout.
LEMMA StopInvAlways == Spec => []StopInv
<1>1. Init => StopInv
  BY DEF Init, StopInv
<1> QED BY <1>1, InitTypeOK, NextTypeOK, NextStopInv, PTL DEF Spec

\* When Stop has returned no goroutine and no process of any worker is left.
THEOREM StopIsClean == Spec => []StopLeavesNothing
<1>1. TypeOK /\ WriterWithinRun /\ StopInv => StopLeavesNothing
  BY DEF TypeOK, WriterWithinRun, StopInv, Over, StopLeavesNothing
<1> QED BY <1>1, TypeCorrect, WriterOnlyWithinRun, StopInvAlways, PTL

-----------------------------------------------------------------------------
(* The supervisor implements its contract. *)

\* The two variables of the contract, as the refinement maps them.
Phase == [w \in Workers |-> PhaseOf(w)]
StopPhase ==
    CASE stop.at = "no" -> "no" [] stop.at = "returned" -> "returned"
      [] OTHER -> "asked"

\* The initial states map to initial states.
LEMMA InitRefines == Init => Contract!Init
BY DEF Init, Contract!Init, PhaseOf

\* Every step maps to a step of the contract or a stutter.
LEMMA NextRefines ==
    TypeOK /\ StopInv /\ StopInv' /\ [Next]_vars
    => [Contract!Next]_<<Phase, StopPhase>>
<1> SUFFICES ASSUME TypeOK, StopInv, StopInv', [Next]_vars
             PROVE [Contract!Next]_<<Phase, StopPhase>>
  OBVIOUS
<1> USE DEF TypeOK, svVars, flagVars, cmdVars, procVars
<1>1. ASSUME NEW w \in Workers, Start(w) PROVE [Contract!Next]_<<Phase, StopPhase>>
  <2>1. Phase[w] = "idle" /\ Phase' = [Phase EXCEPT ![w] = "live"]
    BY <1>1 DEF Start, Phase, PhaseOf
  <2>2. StopPhase = "no" /\ StopPhase' = StopPhase
    BY <1>1 DEF Start, StopPhase
  <2>3. Contract!Launch(w)
    BY <2>1, <2>2 DEF Contract!Launch, Phase, StopPhase
  <2> QED BY <2>3 DEF Contract!Next
<1>2. ASSUME NEW w \in Workers, sup[w] \in {"decide", "backoff"},
             sup' = [sup EXCEPT ![w] = "done"], UNCHANGED stop
      PROVE [Contract!Next]_<<Phase, StopPhase>>
  <2>1. Phase[w] = "live" /\ Phase' = [Phase EXCEPT ![w] = "over"]
    BY <1>2 DEF Phase, PhaseOf
  <2>2. StopPhase' = StopPhase
    BY <1>2 DEF StopPhase
  <2>3. Contract!End(w)
    BY <2>1, <2>2 DEF Contract!End, Phase, StopPhase
  <2> QED BY <2>3 DEF Contract!Next
<1>3. ASSUME NEW w \in Workers, sup[w] \notin {"none", "done"}, UNCHANGED stop,
             NEW x, x \notin {"none", "done"}, sup' = [sup EXCEPT ![w] = x]
      PROVE UNCHANGED <<Phase, StopPhase>>
  <2>1. \A v \in Workers : PhaseOf(v)' = PhaseOf(v)
    BY <1>3 DEF PhaseOf
  <2> QED BY <1>3, <2>1 DEF Phase, StopPhase
<1>4. ASSUME NEW w \in Workers, SuperviseStep(w)
      PROVE \/ UNCHANGED <<Phase, StopPhase>>
            \/ [Contract!Next]_<<Phase, StopPhase>>
  <2>1. UNCHANGED stop
    BY <1>4, StopUnchanged
  <2>2. CASE \/ spawn(w) \/ spawnFails(w) \/ pump(w) \/ pumpEOF(w)
             \/ join(w) \/ reap(w) \/ retry(w)
    <3>1. /\ sup[w] \in {"spawn", "pump", "join", "reap", "backoff"}
          /\ \E x \in {"spawn", "pump", "join", "reap", "decide"} :
                 sup' = [sup EXCEPT ![w] = x]
      BY <2>2 DEF spawn, spawnFails, pump, pumpEOF, join, reap, retry
    <3> QED BY <1>3, <2>1, <3>1
  <2>3. CASE (\E long \in BOOLEAN : decide(w, long)) \/ retryCancelled(w)
    <3>1. /\ sup[w] \in {"decide", "backoff"}
          /\ \E x \in {"done", "backoff"} : sup' = [sup EXCEPT ![w] = x]
      BY <2>3 DEF decide, retryCancelled, Ending
    <3> QED BY <1>2, <1>3, <2>1, <3>1
  <2> QED BY <1>4, <2>2, <2>3 DEF SuperviseStep
<1>5. CASE UNCHANGED <<sup, stop>>
  BY <1>5 DEF Phase, PhaseOf, StopPhase
<1>6. ASSUME NEW w \in Workers,
             Send(w) \/ WriterStep(w) \/ KillStep(w) \/ ProcessStep(w)
      PROVE UNCHANGED <<sup, stop>>
  BY <1>6 DEF Send, WriterStep, writeTake, writeEncode, writeDone, KillStep, watch,
              reapKill, ProcessStep, ready, report, readCommands, drainCommands,
              finish, exit
<1>7. CASE Stop
  <2>1. UNCHANGED sup /\ stop.at = "no" /\ stop'.at \in {"ask", "wait"}
    BY <1>7 DEF Stop, StopStep
  <2>2. Phase' = Phase /\ StopPhase = "no" /\ StopPhase' = "asked"
    BY <2>1 DEF Phase, PhaseOf, StopPhase
  <2>3. Contract!Ask
    BY <2>2 DEF Contract!Ask, Phase, StopPhase
  <2> QED BY <2>3 DEF Contract!Next
<1>8. ASSUME stop.at \in {"ask", "wait", "cancel"}, UNCHANGED sup,
             stop'.at \in {"ask", "wait", "cancel", "returned"}
      PROVE [Contract!Next]_<<Phase, StopPhase>>
  <2>1. Phase' = Phase /\ StopPhase = "asked"
    BY <1>8 DEF Phase, PhaseOf, StopPhase
  <2>2. CASE stop'.at # "returned"
    <3>1. StopPhase' = "asked"
      BY <1>8, <2>2 DEF StopPhase
    <3> QED BY <2>1, <3>1
  <2>3. CASE stop'.at = "returned"
    <3>1. \A w \in Workers : Over(w)
      BY <1>8, <2>3 DEF StopInv, Over
    <3>2. \A w \in Workers : Phase[w] # "live"
      BY <3>1 DEF Phase, PhaseOf, Over
    <3>3. StopPhase' = "returned"
      BY <2>3 DEF StopPhase
    <3>4. Contract!Return
      BY <2>1, <3>2, <3>3 DEF Contract!Return, Phase, StopPhase
    <3> QED BY <3>4 DEF Contract!Next
  <2> QED BY <2>2, <2>3
<1>9. ASSUME stopWait \/ \E w \in Workers : stopAsk(w) \/ stopCancel(w) \/ stopJoin(w)
      PROVE /\ stop.at \in {"ask", "wait", "cancel"} /\ UNCHANGED sup
            /\ stop'.at \in {"ask", "wait", "cancel", "returned"}
  BY <1>9 DEF stopWait, stopAsk, stopCancel, stopJoin, StopStep
<1>10. CASE UNCHANGED vars
  BY <1>5, <1>10 DEF vars
<1> QED BY <1>1, <1>4, <1>5, <1>6, <1>7, <1>8, <1>9, <1>10 DEF Next, StopProgress

\* The supervisor implements the contract a campaign relies on: at most one
\* launch per worker, none after Stop, and no live worker when Stop returns.
THEOREM Refinement == Spec => ImplementsContract
<1>1. Spec => [][Contract!Next]_<<Phase, StopPhase>>
  BY NextRefines, TypeCorrect, StopInvAlways, PTL DEF Spec
<1> QED BY <1>1, InitRefines, PTL DEF Spec, ImplementsContract, Contract!Spec,
           Phase, StopPhase
=============================================================================
