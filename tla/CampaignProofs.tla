--------------------------- MODULE CampaignProofs ---------------------------
(***************************************************************************)
(* Proofs about Campaign, for any number of API callers and workers, any   *)
(* operations and any bounds.                                              *)
(*                                                                         *)
(* What is proved of the end of a campaign is proved of one that has been  *)
(* started at most once: Start refuses only a campaign that is running, so *)
(* a second Start can pull one out of the middle of finish.                *)
(***************************************************************************)
EXTENDS Campaign, TLAPS

Body     == {"join", "queue", "drain", "declare"}
Dropping == {"close", "f_close", "wait", "f_wait", "store", "gone"}

NoneLive == \A w \in Workers : phase[w] # "live"

\* Nobody has begun to drop the campaign.
Kept == \A p \in Callers : pc[p] \notin Dropping

Labels ==
    {"none", "idle", "loop", "over", "start", "launch", "pause", "resume", "paused",
     "resumed", "close", "f_close", "wait", "f_wait", "store", "gone"}
    \cup FinishLabels

\* The flags, which the provers treat apart.
Flags ==
    /\ ctxDone \in BOOLEAN /\ done \in BOOLEAN /\ supStopped \in BOOLEAN
    /\ storeOpen \in BOOLEAN /\ lostCheckpoint \in BOOLEAN

Types ==
    /\ state \in {"created", "running", "paused", "stopping", "finished"}
    /\ record \in {"created", "running", "paused", "finished"}
    /\ pc \in [Procs -> Labels]
    /\ op \in [Callers -> {"Stop", "Close"}]
    /\ cancel \in {"none", "run", "stray"}
    /\ phase \in [Workers -> {"idle", "live", "over"}]
    /\ outbox \in [Workers -> Seq({"pause", "resume"})]
    /\ paused \in [Workers -> BOOLEAN]
    /\ queue \in {"open", "nil"}
    /\ jobs \in Nat
    /\ starts \in Nat /\ pauses \in Nat /\ findings \in Nat /\ restarts \in Nat

\* The types, one conjunct for each variable.
LEMMA TypesAreTypeOK == Types /\ Flags <=> TypeOK
BY DEF Types, Flags, TypeOK, Labels

\* A new campaign is well typed.
LEMMA InitTypes == Init => Types /\ Flags
<1> SUFFICES ASSUME Init PROVE Types /\ Flags
  OBVIOUS
<1>1. Flags
  BY DEF Init, Flags
<1>2. pc \in [Procs -> Labels]
  BY DEF Init, Procs, Labels
<1>3. outbox \in [Workers -> Seq({"pause", "resume"})]
  BY DEF Init
<1> QED BY <1>1, <1>2, <1>3 DEF Init, Types

\* Every step leaves the flags flags.
LEMMA NextFlags == Flags /\ [Next]_vars => Flags'
<1> SUFFICES ASSUME Flags, [Next]_vars PROVE Flags'
  OBVIOUS
<1> USE DEF Flags
<1>1. ASSUME NEW p \in Callers, Call(p) PROVE Flags'
  BY <1>1 DEF Call, Start, Stop, Pause, Resume, Forget, Close, supVars
<1>2. ASSUME NEW p \in Callers, StartStep(p) PROVE Flags'
  BY <1>2 DEF StartStep, startPrepare, startFails, startRefused, startRun,
              startLaunch, supVars
<1>3. ASSUME NEW p \in Procs, FinishStep(p) PROVE Flags'
  BY <1>3 DEF FinishStep, finish, finishJoin, finishQueue, finishDrain,
              finishDeclare, finishRecord, finishReturn, supVars
<1>4. ASSUME NEW p \in Callers,
             Broadcast(p) \/ recordPause(p) \/ closeQueue(p) \/ closeWait(p) \/ closeStore(p)
      PROVE Flags'
  BY <1>4 DEF Broadcast, recordPause, closeQueue, closeWait, closeStore, supVars
<1>5. CASE runLoop \/ terminate \/ onTriaged
  BY <1>5 DEF runLoop, terminate, onTriaged, supVars
<1>6. ASSUME NEW w \in Workers, handle(w) \/ onFinding(w) \/ restart(w) \/ workerEnds(w)
      PROVE Flags'
  BY <1>6 DEF handle, onFinding, restart, workerEnds, supVars
<1>7. CASE UNCHANGED vars
  BY <1>7 DEF vars, supVars
<1> QED BY <1>1, <1>2, <1>3, <1>4, <1>5, <1>6, <1>7 DEF Next, CallerStep, Procs

\* A goroutine that goes to a label stays at one.
LEMMA GotoType ==
    ASSUME Types, NEW p \in Procs, NEW l \in Labels, Goto(p, l)
    PROVE  pc' \in [Procs -> Labels]
BY DEF Types, Goto

\* Every step keeps the types.
LEMMA NextTypes == Types /\ [Next]_vars => Types'
<1> SUFFICES ASSUME Types, [Next]_vars PROVE Types'
  OBVIOUS
<1>0. "run" \in Procs /\ Callers \subseteq Procs
  BY DEF Procs
<1>l. {"idle", "start", "launch", "pause", "resume", "paused", "resumed", "close",
       "f_close", "wait", "f_wait", "store", "gone", "loop", "over"} \cup FinishLabels
      \subseteq Labels
  BY DEF Labels
<1>1. ASSUME NEW p \in Callers, Call(p) PROVE Types'
  <2>1. \E l \in Labels : Goto(p, l)
    BY <1>1, <1>l DEF Call, Start, Stop, Pause, Resume, Forget, Close, FinishLabels
  <2>2. pc' \in [Procs -> Labels]
    BY <1>0, <2>1, GotoType
  <2>3. CASE Start(p) \/ Pause(p) \/ Resume(p)
    BY <2>2, <2>3 DEF Start, Pause, Resume, supVars, triVars, counters, Types
  <2>4. CASE Stop(p) \/ Forget(p) \/ Close(p)
    BY <2>2, <2>4 DEF Stop, Forget, Close, supVars, triVars, counters, Types
  <2> QED BY <1>1, <2>3, <2>4 DEF Call
<1>2. ASSUME NEW p \in Callers, StartStep(p) PROVE Types'
  <2>1. CASE startRun(p)
    <3>1. pc' \in [Procs -> Labels]
      BY <1>0, <1>l, <2>1 DEF startRun, Types
    <3> QED BY <2>1, <3>1 DEF startRun, supVars, triVars, counters, Types
  <2>2. CASE \E w \in Workers : startLaunch(p, w)
    BY <2>2 DEF startLaunch, triVars, counters, Types
  <2>3. CASE startPrepare(p) \/ startFails(p) \/ startRefused(p)
    <3>1. \E l \in Labels : Goto(p, l)
      BY <2>3, <1>l DEF startPrepare, startFails, startRefused
    <3>2. pc' \in [Procs -> Labels]
      BY <1>0, <3>1, GotoType
    <3> QED BY <2>3, <3>2 DEF startPrepare, startFails, startRefused, supVars,
                              triVars, counters, Types
  <2> QED BY <1>2, <2>1, <2>2, <2>3 DEF StartStep
<1>3. ASSUME NEW p \in Procs, FinishStep(p) PROVE Types'
  <2>1. \E l \in Labels : Goto(p, l)
    BY <1>3, <1>l DEF FinishStep, finish, finishJoin, finishQueue, finishDrain,
                      finishDeclare, finishRecord, finishReturn, FinishLabels
  <2>2. pc' \in [Procs -> Labels]
    BY <2>1, GotoType
  <2> QED BY <1>3, <2>2 DEF FinishStep, finish, finishJoin, finishQueue, finishDrain,
             finishDeclare, finishRecord, finishReturn, SetStatus, supVars, triVars,
             counters, Types
<1>4. ASSUME NEW p \in Callers, Broadcast(p) PROVE Types'
  <2>1. pc[p] \in {"pause", "resume"}
    BY <1>4 DEF Broadcast
  <2>2. \A w \in Workers : Append(outbox[w], pc[p]) \in Seq({"pause", "resume"})
    BY <2>1 DEF Types
  <2>3. outbox' \in [Workers -> Seq({"pause", "resume"})]
    BY <1>4, <2>2 DEF Broadcast, Types
  <2>4. pc' \in [Procs -> Labels]
    BY <1>4, <1>0, <1>l, GotoType DEF Broadcast
  <2> QED BY <1>4, <2>3, <2>4 DEF Broadcast, triVars, counters, Types
<1>5. ASSUME NEW p \in Callers, recordPause(p) \/ closeQueue(p) \/ closeWait(p) \/ closeStore(p)
      PROVE Types'
  <2>1. \E l \in Labels : Goto(p, l)
    BY <1>5, <1>l DEF recordPause, closeQueue, closeWait, closeStore
  <2>2. pc' \in [Procs -> Labels]
    BY <1>0, <2>1, GotoType
  <2> QED BY <1>5, <2>2 DEF recordPause, closeQueue, closeWait, closeStore, SetStatus,
             supVars, triVars, counters, Types
<1>6. CASE runLoop \/ terminate
  <2>1. pc' \in [Procs -> Labels]
    BY <1>6, <1>0, <1>l, GotoType DEF runLoop, terminate, FinishLabels
  <2> QED BY <1>6, <2>1 DEF runLoop, terminate, supVars, triVars, counters, Types
<1>7. CASE onTriaged
  BY <1>7 DEF onTriaged, supVars, counters, Types
<1>8. ASSUME NEW w \in Workers, handle(w) PROVE Types'
  <2>1. Tail(outbox[w]) \in Seq({"pause", "resume"})
    BY <1>8 DEF handle, Types
  <2>2. outbox' \in [Workers -> Seq({"pause", "resume"})]
    BY <1>8, <2>1 DEF handle, Types
  <2>3. paused' \in [Workers -> BOOLEAN]
    BY <1>8 DEF handle, Types
  <2> QED BY <1>8, <2>2, <2>3 DEF handle, triVars, counters, Types
<1>9. ASSUME NEW w \in Workers, onFinding(w) \/ restart(w) \/ workerEnds(w)
      PROVE Types'
  <2>1. CASE onFinding(w)
    BY <2>1 DEF onFinding, supVars, triVars, Types
  <2>2. CASE restart(w)
    <3>1. paused' \in [Workers -> BOOLEAN]
      BY <2>2 DEF restart, Types
    <3> QED BY <2>2, <3>1 DEF restart, triVars, Types
  <2>3. CASE workerEnds(w)
    BY <2>3 DEF workerEnds, triVars, counters, Types
  <2> QED BY <1>9, <2>1, <2>2, <2>3
<1>10. CASE UNCHANGED vars
  BY <1>10 DEF vars, supVars, triVars, counters, Types
<1> QED BY <1>1, <1>2, <1>3, <1>4, <1>5, <1>6, <1>7, <1>8, <1>9, <1>10
        DEF Next, CallerStep, Procs

\* Every state of a campaign is well typed.
THEOREM CampaignTypeCorrect == Spec => []TypeOK
<1>1. Spec => [](Types /\ Flags)
  BY InitTypes, NextTypes, NextFlags, PTL DEF Spec
<1> QED BY <1>1, TypesAreTypeOK, PTL

-----------------------------------------------------------------------------
(* A campaign leaves its lifecycle once.                                     *)

\* Of a campaign that has been started at most once: who can be where, and
\* what is true from each step of finish on.
LifeInv ==
    /\ starts = 0 => /\ state = "created" /\ pc["run"] = "none"
                     /\ \A p \in Callers : pc[p] \in Dropping \cup {"idle"}
    /\ supStopped <=> state \in {"stopping", "finished"}
    /\ \A p \in Procs : pc[p] \in Body => state = "stopping"
    /\ OneFinisher
    /\ \A p \in Procs : pc[p] \in Body \ {"join"} => NoneLive
    /\ state = "finished" => NoneLive
    /\ \A p \in Procs : pc[p] \in {"drain", "declare"} => queue = "nil"
    /\ state = "finished" => queue = "nil"
    /\ Kept =>
        /\ queue = "nil" =>
               state = "finished" \/ \E p \in Procs : pc[p] \in {"drain", "declare"}
        /\ \A p \in Procs : pc[p] = "declare" => jobs = 0
        /\ state = "finished" => jobs = 0

Once == starts <= 1 => LifeInv

\* A step in which a goroutine moves between labels outside finish's body and
\* nothing that finish reads or writes changes, but for jobs that are reported.
LEMMA ElsewhereKeeps ==
    ASSUME Types, Types', LifeInv, NEW p \in Procs,
           NEW l, pc' = [pc EXCEPT ![p] = l], l \notin Body, pc[p] \notin Body,
           pc[p] \in Dropping => l \in Dropping,
           starts' = 0 => l \in Dropping /\ p \in Callers,
           starts' = starts, UNCHANGED <<state, supStopped, phase, queue>>,
           jobs' <= jobs
    PROVE  LifeInv'
<1>1. \A q \in Procs \ {p} : pc'[q] = pc[q]
  BY DEF Types
<1>2. pc'[p] = l
  BY DEF Types
<1>3. Kept' => Kept
  BY <1>1, <1>2 DEF Kept, Procs
<1>4. \A q \in Procs : pc'[q] \in Body => pc[q] = pc'[q] /\ q # p
  BY <1>1, <1>2
<1>5. OneFinisher'
  BY <1>4 DEF OneFinisher, LifeInv, Body
<1>6. NoneLive' <=> NoneLive
  BY DEF NoneLive
<1>7. (\E q \in Procs : pc[q] \in {"drain", "declare"})
      => \E q \in Procs : pc'[q] \in {"drain", "declare"}
  BY <1>1 DEF Body
<1>8. "run" \in Procs /\ Callers \subseteq Procs /\ "run" \notin Callers
  BY CampaignAssumption DEF Procs
<1>9. jobs = 0 => jobs' = 0
  BY DEF Types
<1>10. starts' = 0 => /\ state' = "created" /\ pc'["run"] = "none"
                      /\ \A q \in Callers : pc'[q] \in Dropping \cup {"idle"}
  BY <1>1, <1>2, <1>8 DEF LifeInv
<1> QED BY <1>3, <1>4, <1>5, <1>6, <1>7, <1>9, <1>10 DEF LifeInv, Body

\* No step lowers the number of calls of Start.
LEMMA StartsGrow == Types /\ [Next]_vars => starts' \in {starts, starts + 1}
BY DEF Next, Types, vars, counters, Call, Start, Stop, Pause, Resume, Forget, Close,
       CallerStep, StartStep, startPrepare, startFails, startRefused, startRun,
       startLaunch, Broadcast, recordPause, closeQueue, closeWait, closeStore,
       FinishStep, finish, finishJoin, finishQueue, finishDrain, finishDeclare,
       finishRecord, finishReturn, runLoop, terminate, onTriaged, handle, onFinding,
       restart, workerEnds

\* A step that moves nobody, changes neither state nor queue, launches no worker
\* and adds a job only while a worker lives and the queue is open.
LEMMA NobodyMovesKeeps ==
    ASSUME Types, Types', LifeInv, UNCHANGED <<state, pc, supStopped, queue, starts>>,
           NoneLive => NoneLive', jobs' <= jobs \/ (~NoneLive /\ jobs' = jobs + 1)
    PROVE  LifeInv'
<1>1. OneFinisher' /\ (Kept' <=> Kept)
  BY DEF OneFinisher, LifeInv, Kept
<1>2. NoneLive /\ jobs = 0 => jobs' = 0
  BY DEF Types
<1> QED BY <1>1, <1>2 DEF LifeInv, Body

\* The step into finish's body and the steps along it.
LEMMA FinishKeeps ==
    ASSUME Types, Types', LifeInv, NEW p \in Procs,
           \/ finish(p) \/ finishJoin(p) \/ finishQueue(p) \/ finishDrain(p)
           \/ finishDeclare(p)
    PROVE  LifeInv'
<1>0. "run" \in Procs /\ Callers \subseteq Procs /\ "run" \notin Callers
  BY CampaignAssumption DEF Procs
<1>1. /\ starts' = starts /\ phase' = phase /\ jobs' = jobs
      /\ pc[p] \in {"finish"} \cup Body
  BY DEF finish, finishJoin, finishQueue, finishDrain, finishDeclare, counters,
         triVars, supVars, Body
<1>2. starts # 0
  BY <1>0, <1>1 DEF LifeInv, Body, Dropping, Procs
<1>3. \A q \in Procs \ {p} : pc'[q] = pc[q]
  BY DEF Types, finish, finishJoin, finishQueue, finishDrain, finishDeclare, Goto
<1>4. NoneLive' <=> NoneLive
  BY <1>1 DEF NoneLive
<1>5. pc'[p] \notin Dropping /\ (Kept' <=> Kept)
  <2>1. pc'[p] \notin Dropping
    BY DEF finish, finishJoin, finishQueue, finishDrain, finishDeclare, Goto, Types, Dropping
  <2>2. pc[p] \notin Dropping
    BY <1>1 DEF Body, Dropping
  <2> QED BY <1>0, <1>3, <2>1, <2>2 DEF Kept
<1>6. CASE finish(p) /\ state \in {"finished", "stopping"}
  <2>1. pc' = [pc EXCEPT ![p] = "return"] /\ UNCHANGED <<state, supStopped, queue>>
    BY <1>6 DEF finish, Goto, triVars
  <2>2. pc[p] = "finish"
    BY <1>6 DEF finish
  <2>3. jobs' <= jobs
    BY <1>1 DEF Types
  <2> DEFINE l == "return"
  <2>4. l \notin Body /\ pc[p] \notin Body /\ pc[p] \notin Dropping
    BY <2>2 DEF Body, Dropping
  <2> HIDE DEF l
  <2>5. pc' = [pc EXCEPT ![p] = l]
    BY <2>1 DEF l
  <2> QED BY <1>1, <1>2, <2>1, <2>3, <2>4, <2>5, ElsewhereKeeps
<1>7. CASE finish(p) /\ state \notin {"finished", "stopping"}
  <2>1. /\ state' = "stopping" /\ supStopped' = TRUE /\ queue' = queue /\ ~supStopped
        /\ \A q \in Procs : pc[q] \notin Body
    BY <1>7 DEF finish, triVars, LifeInv
  <2>2. pc'[p] = "join"
    BY <1>7, <2>1 DEF finish, Goto, Types
  <2>3. OneFinisher'
    BY <1>3, <2>1 DEF OneFinisher, Body
  <2>4. \A q \in Procs \ {p} : pc'[q] \notin Body
    BY <1>3, <2>1
  <2>5. Kept => queue = "open"
    BY <1>7, <2>1 DEF LifeInv, Body, Types
  <2> QED BY <1>1, <1>2, <1>5, <2>1, <2>2, <2>3, <2>4, <2>5 DEF LifeInv, Body
<1>8. CASE finishJoin(p)
  <2>1. /\ pc[p] = "join" /\ pc'[p] = "queue" /\ NoneLive
        /\ UNCHANGED <<state, supStopped, queue>>
    BY <1>8 DEF finishJoin, Goto, Types, NoneLive, supVars, triVars
  <2>2. OneFinisher'
    BY <1>3, <2>1 DEF OneFinisher, LifeInv
  <2>3. (\E q \in Procs : pc[q] \in {"drain", "declare"})
        => \E q \in Procs : pc'[q] \in {"drain", "declare"}
    BY <1>3, <2>1
  <2> QED BY <1>1, <1>2, <1>3, <1>4, <1>5, <2>1, <2>2, <2>3 DEF LifeInv, Body
<1>9. CASE finishQueue(p)
  <2>1. /\ pc[p] = "queue" /\ queue' = "nil" /\ UNCHANGED <<state, supStopped>>
        /\ pc'[p] = IF queue = "open" THEN "drain" ELSE "declare"
    BY <1>9 DEF finishQueue, Goto, Types, supVars
  <2>2. OneFinisher'
    BY <1>3, <2>1 DEF OneFinisher, LifeInv
  <2>3. state = "stopping" /\ NoneLive
    BY <2>1 DEF LifeInv, Body
  <2>4. \A q \in Procs \ {p} : pc[q] \notin Body
    BY <2>1 DEF LifeInv, OneFinisher, Body
  <2>5. Kept => queue = "open"
    BY <2>1, <2>3, <2>4 DEF LifeInv, Types, Body
  <2> QED BY <1>1, <1>2, <1>3, <1>4, <1>5, <2>1, <2>2, <2>3, <2>4, <2>5 DEF LifeInv, Body
<1>10. CASE finishDrain(p)
  <2>1. /\ pc[p] = "drain" /\ pc'[p] = "declare" /\ jobs = 0
        /\ UNCHANGED <<state, supStopped, queue>>
    BY <1>10 DEF finishDrain, Goto, Types, supVars, triVars
  <2>2. OneFinisher'
    BY <1>3, <2>1 DEF OneFinisher, LifeInv
  <2> QED BY <1>1, <1>2, <1>3, <1>4, <1>5, <2>1, <2>2 DEF LifeInv, Body
<1>11. CASE finishDeclare(p)
  <2>1. /\ pc[p] = "declare" /\ pc'[p] = "record" /\ state' = "finished"
        /\ UNCHANGED <<supStopped, queue>>
    BY <1>11 DEF finishDeclare, Goto, Types, supVars, triVars
  <2>2. \A q \in Procs \ {p} : pc[q] \notin Body
    BY <2>1 DEF LifeInv, OneFinisher, Body
  <2>3. OneFinisher'
    BY <1>3, <2>1, <2>2 DEF OneFinisher, Body
  <2>4. state = "stopping" /\ NoneLive /\ queue = "nil" /\ (Kept => jobs = 0)
    BY <2>1 DEF LifeInv, Body
  <2> QED BY <1>1, <1>2, <1>3, <1>4, <1>5, <2>1, <2>2, <2>3, <2>4 DEF LifeInv, Body
<1> QED BY <1>6, <1>7, <1>8, <1>9, <1>10, <1>11

\* Every step of a campaign that has been started at most once keeps the
\* invariant.
LEMMA NextOnce == Types /\ Types' /\ Once /\ [Next]_vars => Once'
<1> SUFFICES ASSUME Types, Types', Once, [Next]_vars, starts' <= 1 PROVE LifeInv'
  BY DEF Once
<1>0. LifeInv /\ starts' \in {starts, starts + 1}
  BY StartsGrow DEF Once, Types
<1>p. "run" \in Procs /\ Callers \subseteq Procs /\ "run" \notin Callers
  BY CampaignAssumption DEF Procs
<1>j. jobs <= jobs
  BY DEF Types
\* The steps of one goroutine outside finish's body.
<1>1. ASSUME NEW p \in Procs, NEW l, pc' = [pc EXCEPT ![p] = l], pc[p] \notin Body,
             l \notin Body, pc[p] \in Dropping => l \in Dropping,
             starts = 0 => l \in Dropping /\ p \in Callers,
             starts' = starts, UNCHANGED <<state, supStopped, phase, queue, jobs>>
      PROVE  LifeInv'
  BY <1>0, <1>1, <1>j, ElsewhereKeeps
<1>2. ASSUME NEW p \in Callers, Start(p) PROVE LifeInv'
  <2>1. /\ starts = 0 /\ state' = "running" /\ UNCHANGED <<supStopped, queue, phase>>
        /\ pc[p] = "idle" /\ pc'[p] = "start" /\ \A q \in Procs \ {p} : pc'[q] = pc[q]
    BY <1>2, <1>p DEF Start, Types, Goto, supVars, triVars
  <2>2. state = "created" /\ ~supStopped /\ \A q \in Procs : pc[q] \notin Body
    BY <1>0, <2>1 DEF LifeInv
  <2>3. \A q \in Procs : pc'[q] \notin Body
    BY <2>1, <2>2 DEF Body
  <2>4. Kept' => Kept
    BY <2>1 DEF Kept, Procs, Dropping
  <2>5. Kept => queue = "open"
    BY <1>0, <2>2 DEF LifeInv, Body, Types
  <2>6. OneFinisher'
    BY <2>3 DEF OneFinisher, Body
  <2>7. starts' # 0
    BY <1>2, <2>1 DEF Start
  <2> QED BY <2>1, <2>2, <2>3, <2>4, <2>5, <2>6, <2>7 DEF LifeInv, Body
<1>3. ASSUME NEW p \in Callers, Pause(p) \/ Resume(p) PROVE LifeInv'
  <2>1. /\ starts' = starts /\ state \in Active /\ state' \in Active
        /\ UNCHANGED <<supStopped, queue, phase>>
        /\ pc[p] = "idle" /\ pc'[p] \in {"pause", "resume"}
        /\ \A q \in Procs \ {p} : pc'[q] = pc[q]
    BY <1>3, <1>p DEF Pause, Resume, Types, Goto, supVars, triVars, counters, Active
  <2>2. ~supStopped /\ starts # 0 /\ \A q \in Procs : pc[q] \notin Body
    BY <1>0, <2>1 DEF LifeInv, Active
  <2>3. \A q \in Procs : pc'[q] \notin Body
    BY <2>1, <2>2 DEF Body
  <2>4. Kept' => Kept
    BY <2>1 DEF Kept, Procs, Dropping
  <2>5. Kept => queue = "open"
    BY <1>0, <2>1, <2>2 DEF LifeInv, Body, Types, Active
  <2>6. OneFinisher'
    BY <2>3 DEF OneFinisher, Body
  <2> QED BY <2>1, <2>2, <2>3, <2>4, <2>5, <2>6 DEF LifeInv, Body, Active
<1>4. ASSUME NEW p \in Callers, Stop(p) \/ Forget(p) \/ Close(p) PROVE LifeInv'
  <2>1. /\ pc[p] = "idle" /\ starts' = starts
        /\ UNCHANGED <<state, supStopped, phase, queue, jobs>>
        /\ \/ pc' = [pc EXCEPT ![p] = "finish"] /\ state \in Active
           \/ \E l \in Dropping : pc' = [pc EXCEPT ![p] = l]
    BY <1>4 DEF Stop, Forget, Close, Goto, supVars, triVars, counters, Dropping
  <2>2. state \in Active => starts # 0
    BY <1>0 DEF LifeInv, Active
  <2>3. "finish" \notin Body /\ "idle" \notin Body \cup Dropping
        /\ \A l \in Dropping : l \notin Body
    BY DEF Body, Dropping
  <2>4. CASE pc' = [pc EXCEPT ![p] = "finish"] /\ state \in Active
    BY <1>1, <1>p, <2>1, <2>2, <2>3, <2>4
  <2>5. ASSUME NEW l \in Dropping, pc' = [pc EXCEPT ![p] = l] PROVE LifeInv'
    BY <1>1, <1>p, <2>1, <2>3, <2>5
  <2> QED BY <2>1, <2>4, <2>5
<1>5. ASSUME NEW p \in Callers, NEW w \in Workers, startLaunch(p, w) PROVE LifeInv'
  <2>1. /\ ~supStopped
        /\ UNCHANGED <<starts, state, pc, supStopped, queue, jobs>>
    BY <1>5 DEF startLaunch, triVars, counters
  <2>2. state \notin {"stopping", "finished"} /\ \A q \in Procs : pc[q] \notin Body
    BY <1>0, <2>1 DEF LifeInv
  <2>3. OneFinisher' /\ (Kept' <=> Kept)
    BY <1>0, <2>1 DEF LifeInv, OneFinisher, Kept
  <2> QED BY <1>0, <2>1, <2>2, <2>3 DEF LifeInv, Body
<1>6. ASSUME NEW p \in Callers, startRun(p) PROVE LifeInv'
  <2>1. /\ pc[p] = "launch" /\ pc["run"] = "none" /\ starts' = starts
        /\ UNCHANGED <<state, supStopped, phase, queue, jobs>>
        /\ pc'[p] = "idle" /\ pc'["run"] = "loop"
        /\ \A q \in Procs \ {p, "run"} : pc'[q] = pc[q]
    BY <1>6, <1>p DEF startRun, Types, supVars, triVars, counters
  <2>2. starts # 0
    BY <1>0, <2>1 DEF LifeInv, Dropping
  <2>3. /\ \A q \in Procs : pc'[q] \in Body => pc'[q] = pc[q]
        /\ \A q \in Procs : pc[q] \in Body => pc'[q] = pc[q]
    BY <2>1 DEF Body
  <2>4. OneFinisher'
    BY <1>0, <2>3 DEF LifeInv, OneFinisher, Body
  <2>5. Kept' => Kept
    BY <2>1, <1>p DEF Kept, Dropping
  <2>6. NoneLive' <=> NoneLive
    BY <2>1 DEF NoneLive
  <2> QED BY <1>0, <2>1, <2>2, <2>3, <2>4, <2>5, <2>6 DEF LifeInv, Body
<1>7. ASSUME NEW p \in Callers,
             \/ startPrepare(p) \/ startFails(p) \/ startRefused(p)
             \/ Broadcast(p) \/ recordPause(p)
      PROVE  LifeInv'
  <2>1. /\ pc[p] \in {"start", "launch", "pause", "resume", "paused", "resumed"}
        /\ starts' = starts /\ UNCHANGED <<state, supStopped, phase, queue, jobs>>
        /\ \E l \in {"launch", "idle", "paused", "resumed"} : pc' = [pc EXCEPT ![p] = l]
    BY <1>7 DEF startPrepare, startFails, startRefused, Broadcast, recordPause, Goto,
                supVars, triVars, counters
  <2>2. starts # 0 /\ pc[p] \notin Body \cup Dropping
    BY <1>0, <2>1 DEF LifeInv, Dropping, Body
  <2>3. {"launch", "idle", "paused", "resumed"} \cap Body = {}
    BY DEF Body
  <2> QED BY <1>1, <1>p, <2>1, <2>2, <2>3
<1>8. ASSUME NEW p \in Callers, closeQueue(p) PROVE LifeInv'
  <2>1. /\ pc[p] \in {"close", "f_close"} /\ queue' = "nil"
        /\ UNCHANGED <<starts, state, supStopped, phase, jobs>>
        /\ pc'[p] \in Dropping /\ \A q \in Procs \ {p} : pc'[q] = pc[q]
    BY <1>8, <1>p DEF closeQueue, Goto, Types, supVars, counters, Dropping
  <2>2. ~Kept'
    BY <2>1 DEF Kept
  <2>3. \A q \in Procs : pc'[q] \in Body => q # p /\ pc'[q] = pc[q]
    BY <2>1 DEF Body, Dropping
  <2>4. OneFinisher'
    BY <1>0, <2>3 DEF LifeInv, OneFinisher, Body
  <2>5. NoneLive' <=> NoneLive
    BY <2>1 DEF NoneLive
  <2> QED BY <1>0, <1>p, <2>1, <2>2, <2>3, <2>4, <2>5 DEF LifeInv, Body
<1>9. ASSUME NEW p \in Callers, closeWait(p) \/ closeStore(p) PROVE LifeInv'
  <2>1. /\ pc[p] \in {"wait", "f_wait", "store"}
        /\ starts' = starts /\ UNCHANGED <<state, supStopped, phase, queue, jobs>>
        /\ \E l \in {"store", "gone"} : pc' = [pc EXCEPT ![p] = l]
    BY <1>9 DEF closeWait, closeStore, Goto, supVars, triVars, counters
  <2>2. /\ {"wait", "f_wait", "store", "gone"} \subseteq Dropping
        /\ {"wait", "f_wait", "store", "gone"} \cap Body = {}
    BY DEF Body, Dropping
  <2> QED BY <1>1, <1>p, <2>1, <2>2
<1>10. ASSUME NEW p \in Procs,
              \/ finish(p) \/ finishJoin(p) \/ finishQueue(p) \/ finishDrain(p)
              \/ finishDeclare(p)
       PROVE  LifeInv'
  BY <1>0, <1>10, FinishKeeps
<1>11. ASSUME NEW p \in Procs, finishRecord(p) \/ finishReturn(p) PROVE LifeInv'
  <2>1. /\ pc[p] \in {"record", "return"}
        /\ starts' = starts /\ UNCHANGED <<state, supStopped, phase, queue, jobs>>
        /\ \E l \in {"return", "over", "idle", "close"} : pc' = [pc EXCEPT ![p] = l]
    BY <1>11 DEF finishRecord, finishReturn, Goto, supVars, triVars, counters
  <2>2. /\ pc[p] \notin Body \cup Dropping
        /\ {"return", "over", "idle", "close"} \cap Body = {}
    BY <2>1 DEF Body, Dropping
  <2>3. starts # 0
    BY <1>0, <2>1 DEF LifeInv, Dropping, Procs
  <2> QED BY <1>1, <2>1, <2>2, <2>3
<1>12. CASE runLoop \/ terminate
  <2>1. /\ pc["run"] = "loop" /\ pc' = [pc EXCEPT !["run"] = "finish"]
        /\ starts' = starts /\ UNCHANGED <<state, supStopped, phase, queue, jobs>>
    BY <1>12 DEF runLoop, terminate, Goto, supVars, triVars, counters
  <2>2. /\ pc["run"] \notin Body \cup Dropping /\ "finish" \notin Body
        /\ starts # 0
    BY <1>0, <2>1 DEF LifeInv, Body, Dropping
  <2> QED BY <1>1, <1>p, <2>1, <2>2
<1>13. ASSUME onTriaged
              \/ \E w \in Workers : handle(w) \/ onFinding(w) \/ restart(w) \/ workerEnds(w)
       PROVE  LifeInv'
  <2>1. UNCHANGED <<state, pc, supStopped, queue, starts>>
    BY <1>13 DEF onTriaged, handle, onFinding, restart, workerEnds, supVars, counters, triVars
  <2>2. NoneLive => NoneLive'
    BY <1>13 DEF onTriaged, handle, onFinding, restart, workerEnds, supVars, NoneLive, Types
  <2>3. jobs' <= jobs \/ (~NoneLive /\ jobs' = jobs + 1)
    BY <1>13 DEF onTriaged, handle, onFinding, restart, workerEnds, triVars, NoneLive, Types
  <2> QED BY <1>0, <2>1, <2>2, <2>3, NobodyMovesKeeps
<1>14. CASE UNCHANGED vars
  <2>1. UNCHANGED <<state, pc, supStopped, queue, starts, phase, jobs>>
    BY <1>14 DEF vars, supVars, counters, triVars
  <2>2. NoneLive => NoneLive'
    BY <2>1 DEF NoneLive
  <2> QED BY <1>0, <1>j, <2>1, <2>2, NobodyMovesKeeps
<1> QED BY <1>2, <1>3, <1>4, <1>5, <1>6, <1>7, <1>8, <1>9, <1>10, <1>11, <1>12, <1>13,
           <1>14, <1>p
        DEF Next, Call, CallerStep, StartStep, FinishStep

\* A new campaign has been started by nobody.
LEMMA InitOnce == Init => Once
BY CampaignAssumption DEF Init, Once, LifeInv, OneFinisher, NoneLive, Procs, Body,
                          Dropping, Kept

\* A campaign that has been started at most once is finished by one goroutine at a
\* time, and is called finished only when no worker is left and, unless it was
\* dropped, its findings are triaged.
THEOREM FinishesOnce == Spec => [](starts <= 1 => FinishIsClean)
<1>1. Spec => [](Types /\ Flags /\ Once)
  BY InitTypes, NextTypes, NextFlags, InitOnce, NextOnce, PTL DEF Spec
<1>2. Types /\ Flags /\ Once => (starts <= 1 => FinishIsClean)
  BY TypesAreTypeOK DEF Once, LifeInv, FinishIsClean, DoneUnlessDropped,
     FinishedMeansDone, Kept, Dropping, NoneLive
<1> QED BY <1>1, <1>2, PTL

StartsBounded == starts <= MaxStarts

\* The same without the condition, when nobody calls Start a second time.
THEOREM FinishIsCleanOnce == Spec => [](MaxStarts <= 1 => FinishIsClean)
<1>1. Init => StartsBounded
  BY CampaignAssumption DEF Init, StartsBounded
<1>2. Types /\ StartsBounded /\ [Next]_vars => StartsBounded'
  <2>1. ASSUME NEW p \in Callers, Start(p) PROVE starts < MaxStarts
    BY <2>1 DEF Start
  <2>2. [Next]_vars => starts' = starts \/ \E p \in Callers : Start(p)
    BY DEF Next, vars, counters, Call, Stop, Pause, Resume, Forget, Close,
       CallerStep, StartStep, startPrepare, startFails, startRefused, startRun,
       startLaunch, Broadcast, recordPause, closeQueue, closeWait, closeStore,
       FinishStep, finish, finishJoin, finishQueue, finishDrain, finishDeclare,
       finishRecord, finishReturn, runLoop, terminate, onTriaged, handle, onFinding,
       restart, workerEnds
  <2> SUFFICES ASSUME Types, StartsBounded, [Next]_vars PROVE StartsBounded'
    OBVIOUS
  <2>3. starts' \in {starts, starts + 1}
    BY StartsGrow
  <2>4. starts' = starts \/ starts < MaxStarts
    BY <2>1, <2>2
  <2> QED BY <2>3, <2>4, CampaignAssumption DEF Types, StartsBounded
<1>3. /\ StartsBounded /\ Types /\ (starts <= 1 => FinishIsClean)
      => (MaxStarts <= 1 => FinishIsClean)
  BY CampaignAssumption DEF Types, StartsBounded
<1> QED BY <1>1, <1>2, <1>3, InitTypes, NextTypes, FinishesOnce, PTL DEF Spec
=============================================================================
