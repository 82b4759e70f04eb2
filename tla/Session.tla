------------------------------ MODULE Session -------------------------------
(***************************************************************************)
(* The T6 executor, pkg/executor/session.go: an input is a session of      *)
(* messages over a connection to a server the executor manages.  What a    *)
(* closed connection means is decided by the server's exit status, which a *)
(* reaper goroutine of each generation publishes some time after the death.*)
(*                                                                         *)
(* A message may carry the bug: it poisons the server, which dies of it at *)
(* some later moment.                                                      *)
(***************************************************************************)
EXTENDS Naturals, FiniteSets

CONSTANTS
    SesPolicies,  \* reset policies the campaign file can ask for
    SesFramings,  \* "reply" (idle or line framing) or "none"
    SesRuns,      \* sessions the worker runs
    SesMessages,  \* messages in a session
    SesGens       \* bound on the generations of the server

VARIABLES
    sePolicy, seFraming,
    seGen,        \* generations started
    seSrv,        \* e.srv: the generation in use, 0 for nil
    seProc,       \* the process of each generation: none, up or dead
    sePoison,     \* the session whose message will kill it, 0 for none
    seEnd,        \* how each process ended, and the session that killed it
    seExited,     \* srv.exited, set by the generation's reaper
    seResult,     \* srv.result, read once exited is set
    seConn,       \* e.conn: the generation it leads to, 0 for nil
    seNow,        \* the session being run
    seLeft,       \* messages still to send
    sePhase,      \* where the worker is
    seVerdict     \* what Run returned

seVars == <<sePolicy, seFraming, seGen, seSrv, seProc, sePoison, seEnd, seExited, seResult,
            seConn, seNow, seLeft, sePhase, seVerdict>>

Gens == 1 .. SesGens

NoEnd == [how |-> "none", by |-> 0]

NoVerdict == [kind |-> "none", gen |-> 0, by |-> 0]

Init ==
    /\ sePolicy \in SesPolicies
    /\ seFraming \in SesFramings
    /\ seGen = 0
    /\ seSrv = 0
    /\ seProc = [g \in Gens |-> "none"]
    /\ sePoison = [g \in Gens |-> 0]
    /\ seEnd = [g \in Gens |-> NoEnd]
    /\ seExited = [g \in Gens |-> FALSE]
    /\ seResult = [g \in Gens |-> NoEnd]
    /\ seConn = 0
    /\ seNow = 0
    /\ seLeft = 0
    /\ sePhase = "restart"
    /\ seVerdict = NoVerdict

-----------------------------------------------------------------------------
(* The server. *)

Up(g) == g \in Gens /\ seProc[g] = "up"

\* A poisoned server dies of a signal it raised; any server may stop or be killed from outside.
Die(g) ==
    /\ Up(g)
    /\ seProc' = [seProc EXCEPT ![g] = "dead"]
    /\ \/ /\ sePoison[g] # 0
          /\ seEnd' = [seEnd EXCEPT ![g] = [how |-> "fault", by |-> sePoison[g]]]
       \/ \E how \in {"exit", "killed"} : seEnd' = [seEnd EXCEPT ![g] = [how |-> how, by |-> 0]]
    /\ UNCHANGED <<sePolicy, seFraming, seGen, seSrv, sePoison, seExited, seResult, seConn,
                   seNow, seLeft, sePhase, seVerdict>>

\* Mistake: One flag and one result for all generations: a late reaper reports against the new server.
reapIntoCurrent(g) == IF seSrv = 0 THEN g ELSE seSrv

\* The record a reaper writes into: its own generation's, never its successor's.
reapInto(g) == g

\* startServer, the goroutine: the result first, the flag after it.
Reap(g) ==
    /\ seProc[g] = "dead"
    /\ ~seExited[g]
    /\ seResult' = [seResult EXCEPT ![reapInto(g)] = seEnd[g]]
    /\ seExited' = [seExited EXCEPT ![reapInto(g)] = TRUE, ![g] = TRUE]
    /\ UNCHANGED <<sePolicy, seFraming, seGen, seSrv, seProc, sePoison, seEnd, seConn, seNow,
                   seLeft, sePhase, seVerdict>>

-----------------------------------------------------------------------------
(* The executor. *)

exited == seSrv # 0 /\ seExited[seSrv]

\* handle.Kill: nothing happens to a process that is already dead.
kill(g) ==
    /\ seProc' = [h \in Gens |-> IF h = g /\ Up(h) THEN "dead" ELSE seProc[h]]
    /\ seEnd' = [h \in Gens |-> IF h = g /\ Up(h) THEN [how |-> "killed", by |-> 0] ELSE seEnd[h]]

\* restartServer, its first half, and Start: the old generation is killed and forgotten.
restartServer ==
    /\ sePhase = "restart"
    /\ kill(seSrv)
    /\ seSrv' = 0
    /\ seConn' = 0
    /\ sePhase' = "starting"
    /\ UNCHANGED <<sePolicy, seFraming, seGen, sePoison, seExited, seResult, seNow, seLeft,
                   seVerdict>>

\* startServer: a new generation, on the campaign's context, with its own reaper.
startServer ==
    /\ sePhase = "starting"
    /\ seGen < SesGens
    /\ seGen' = seGen + 1
    /\ seSrv' = seGen + 1
    /\ seProc' = [seProc EXCEPT ![seGen + 1] = "up"]
    /\ sePhase' = "waitReady"
    /\ UNCHANGED <<sePolicy, seFraming, sePoison, seEnd, seExited, seResult, seConn, seNow,
                   seLeft, seVerdict>>

\* Mistake: The startup that failed leaves its process running.
waitReadyLeaks ==
    /\ sePhase = "waitReady"
    /\ \/ /\ Up(seSrv)
          /\ sePhase' = IF seNow = 0 THEN "idle" ELSE "connect"
          /\ UNCHANGED seSrv
       \/ seSrv' = 0 /\ sePhase' = "failed"
    /\ UNCHANGED <<sePolicy, seFraming, seGen, seProc, seEnd, sePoison, seExited, seResult,
                   seConn, seNow, seLeft, seVerdict>>

\* waitReady: the server accepts a connection, or the time for it is over and the worker ends.
waitReady ==
    /\ sePhase = "waitReady"
    /\ \/ /\ Up(seSrv)
          /\ sePhase' = IF seNow = 0 THEN "idle" ELSE "connect"
          /\ UNCHANGED <<seSrv, seProc, seEnd>>
       \/ /\ kill(seSrv)
          /\ seSrv' = 0
          /\ sePhase' = "failed"
    /\ UNCHANGED <<sePolicy, seFraming, seGen, sePoison, seExited, seResult, seConn, seNow,
                   seLeft, seVerdict>>

\* Run and session: what the policy and the server's state ask for.  An input that holds no
\* message is answered at once.
Run ==
    /\ sePhase = "idle"
    /\ seNow < SesRuns
    /\ seNow' = seNow + 1
    /\ \E n \in 0 .. SesMessages :
          /\ seLeft' = n
          /\ IF n = 0
             THEN /\ seVerdict' = [kind |-> "ok", gen |-> seSrv, by |-> 0]
                  /\ UNCHANGED <<sePhase, seConn>>
             ELSE /\ seVerdict' = NoVerdict
                  /\ sePhase' = IF exited \/ sePolicy = "restart" THEN "restart"
                                ELSE IF sePolicy = "none" /\ seConn # 0 THEN "send"
                                ELSE "connect"
                  /\ seConn' = IF sePolicy = "reconnect" THEN 0 ELSE seConn
    /\ UNCHANGED <<sePolicy, seFraming, seGen, seSrv, seProc, sePoison, seEnd, seExited,
                   seResult>>

\* newConnection: a refused connection means the server is down and is restarted.
newConnection ==
    /\ sePhase = "connect"
    /\ IF Up(seSrv)
       THEN seConn' = seSrv /\ sePhase' = "send"
       ELSE sePhase' = "restart" /\ UNCHANGED seConn
    /\ UNCHANGED <<sePolicy, seFraming, seGen, seSrv, seProc, sePoison, seEnd, seExited,
                   seResult, seNow, seLeft, seVerdict>>

\* deliver, the write: it fails when the server is gone, or leaves a message, maybe a bad one.
write ==
    /\ sePhase = "send"
    /\ seLeft > 0
    /\ IF Up(seConn)
       THEN /\ seLeft' = seLeft - 1
            /\ sePhase' = IF seFraming = "none" THEN "send" ELSE "read"
            /\ sePoison' \in {sePoison, [sePoison EXCEPT ![seConn] = seNow]}
       ELSE /\ sePhase' = "hangup"
            /\ UNCHANGED <<seLeft, sePoison>>
    /\ UNCHANGED <<sePolicy, seFraming, seGen, seSrv, seProc, seEnd, seExited, seResult,
                   seConn, seNow, seVerdict>>

\* deliver, the read: an end of file is a hangup; a reply or a silence goes on to the next
\* message, unless the silent server is known to have ended.
read ==
    /\ sePhase = "read"
    /\ sePhase' \in IF Up(seConn) THEN {"send"} ELSE {"hangup", IF exited THEN "hangup" ELSE "send"}
    /\ UNCHANGED <<sePolicy, seFraming, seGen, seSrv, seProc, sePoison, seEnd, seExited,
                   seResult, seConn, seNow, seLeft, seVerdict>>

\* liveness: what the exit status of the current generation, if it is known, says.
liveness ==
    IF exited /\ seResult[seSrv].how = "fault"
    THEN [kind |-> "crash", gen |-> seSrv, by |-> seResult[seSrv].by]
    ELSE [kind |-> "ok", gen |-> seSrv, by |-> 0]

\* afterHangup: the connection goes, and the reaper has HangupGrace to report the death.
afterHangup ==
    /\ sePhase = "hangup"
    /\ seConn' = 0
    /\ seVerdict' = liveness
    /\ sePhase' = "idle"
    /\ UNCHANGED <<sePolicy, seFraming, seGen, seSrv, seProc, sePoison, seEnd, seExited,
                   seResult, seNow, seLeft>>

\* deliver, the end: endSession keeps the connection under policy none.
endSession ==
    /\ sePhase = "send"
    /\ seLeft = 0
    /\ seConn' = IF sePolicy = "none" THEN seConn ELSE 0
    /\ seVerdict' = liveness
    /\ sePhase' = "idle"
    /\ UNCHANGED <<sePolicy, seFraming, seGen, seSrv, seProc, sePoison, seEnd, seExited,
                   seResult, seNow, seLeft>>

\* deliver, the budget of the whole session: a hang, and the connection is dropped.
sessionTimeout ==
    /\ sePhase = "send"
    /\ seLeft > 0
    /\ seConn' = 0
    /\ seVerdict' = [kind |-> "timeout", gen |-> seSrv, by |-> 0]
    /\ sePhase' = "idle"
    /\ UNCHANGED <<sePolicy, seFraming, seGen, seSrv, seProc, sePoison, seEnd, seExited,
                   seResult, seNow, seLeft>>

\* Close, at the end of the worker.
Close ==
    /\ sePhase \in {"idle", "failed"}
    /\ kill(seSrv)
    /\ seSrv' = 0
    /\ seConn' = 0
    /\ sePhase' = "closed"
    /\ UNCHANGED <<sePolicy, seFraming, seGen, sePoison, seExited, seResult, seNow, seLeft,
                   seVerdict>>

Next ==
    \/ restartServer \/ startServer \/ waitReady \/ Run \/ newConnection \/ write \/ read
    \/ afterHangup \/ endSession \/ sessionTimeout \/ Close
    \/ \E g \in Gens : Die(g) \/ Reap(g)

-----------------------------------------------------------------------------
TypeOK ==
    /\ seSrv \in 0 .. SesGens
    /\ seConn \in 0 .. SesGens
    /\ seProc \in [Gens -> {"none", "up", "dead"}]
    /\ seExited \in [Gens -> BOOLEAN]
    /\ seVerdict.kind \in {"none", "ok", "crash", "timeout"}
    /\ seLeft \in 0 .. SesMessages

\* liveness: a session that reports a crash talked to a server that died of a fault of its
\* own, and under the restart policy it was this session's input that killed it.
BlameIsRight ==
    seVerdict.kind = "crash" =>
        /\ seEnd[seVerdict.gen] = [how |-> "fault", by |-> seVerdict.by]
        /\ sePolicy = "restart" => seVerdict.by = seNow

\* restartServer and Close: at most the generation in use is running.
OneGeneration == {g \in Gens : seProc[g] = "up"} \subseteq {seSrv}

=============================================================================
