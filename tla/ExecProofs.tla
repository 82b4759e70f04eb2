----------------------------- MODULE ExecProofs -----------------------------
(***************************************************************************)
(* Proofs about the executors of MCExec, the session executor, the fork    *)
(* server, the process pool, the requests of an API session and the tiers, *)
(* for any bounds and policies, and about the campaign file and the worker *)
(* built from it, for any campaigns and layered keys.                      *)
(***************************************************************************)
EXTENDS MCExec, SequenceTheorems, TLAPS

-----------------------------------------------------------------------------
(* A crash and the session that is blamed for it (Session).                  *)

Gens == Ses!Gens
EndType == [how : {"none", "fault", "exit", "killed"}, by : Nat]
VerdictType == [kind : {"none", "ok", "crash", "timeout"}, gen : 0 .. SesGens, by : Nat]

SesTypes ==
    /\ seGen \in 0 .. SesGens /\ seSrv \in 0 .. SesGens /\ seConn \in 0 .. SesGens
    /\ seProc \in [Gens -> {"none", "up", "dead"}] /\ sePoison \in [Gens -> Nat]
    /\ seEnd \in [Gens -> EndType] /\ seResult \in [Gens -> EndType]
    /\ seExited \in [Gens -> BOOLEAN]
    /\ seNow \in Nat /\ seLeft \in 0 .. SesMessages /\ seVerdict \in VerdictType

\* A generation that was not started yet is untouched.
FutureIsClean ==
    \A g \in Gens : g > seGen => seProc[g] = "none" /\ sePoison[g] = 0

\* The worker knows one server, and its connection leads there.
OneServer ==
    /\ \A g \in Gens : seProc[g] = "up" => g = seSrv
    /\ seConn \in {0, seSrv}
    /\ sePhase = "starting" => seSrv = 0
    /\ sePhase \in {"starting", "waitReady"} => seConn = 0

\* What a reaper published is how its own generation ended, and a fault is the
\* fault of the message that poisoned it.
ReapedIsTrue ==
    /\ \A g \in Gens : seExited[g] => seProc[g] = "dead" /\ seResult[g] = seEnd[g]
    /\ \A g \in Gens : seEnd[g].how = "fault" =>
           seProc[g] = "dead" /\ seEnd[g].by = sePoison[g] /\ seEnd[g].by # 0

\* Under the restart policy only this session has spoken to the server.
OwnServer ==
    sePolicy = "restart" /\ sePhase \in {"waitReady", "connect", "send", "read", "hangup"} =>
        \A g \in Gens : g = seSrv => sePoison[g] \in {0, seNow}

\* A crash names a generation that ended by a fault.
VerdictHolds ==
    seVerdict.kind = "crash" =>
        /\ seVerdict.gen \in Gens
        /\ seEnd[seVerdict.gen].how = "fault" /\ seEnd[seVerdict.gen].by = seVerdict.by
        /\ sePolicy = "restart" => seVerdict.by = seNow

SesInv ==
    SesTypes /\ FutureIsClean /\ OneServer /\ ReapedIsTrue /\ OwnServer /\ VerdictHolds

\* What killing a generation does.
LEMMA Killed ==
    ASSUME SesTypes, OneServer, Ses!kill(seSrv)
    PROVE  /\ seProc' \in [Gens -> {"none", "up", "dead"}] /\ seEnd' \in [Gens -> EndType]
           /\ \A g \in Gens : seProc[g] # "up" => seProc'[g] = seProc[g] /\ seEnd'[g] = seEnd[g]
           /\ \A g \in Gens : seProc[g] = "up" => seProc'[g] = "dead" /\ seEnd'[g].how = "killed"
<1>1. [how |-> "killed", by |-> 0] \in EndType
  BY DEF EndType
<1>2. seProc' \in [Gens -> {"none", "up", "dead"}] /\ seEnd' \in [Gens -> EndType]
  BY <1>1 DEF SesTypes, Ses!kill, Gens
<1> QED BY <1>2 DEF SesTypes, OneServer, Ses!kill, Ses!Up, Gens

\* What the exit status says of the server in use.
LEMMA LivenessIsRight ==
    ASSUME SesInv, NEW v, v = Ses!liveness,
           sePhase \in {"waitReady", "connect", "send", "read", "hangup"}
    PROVE  /\ v \in VerdictType
           /\ v.kind = "crash" =>
                  /\ v.gen \in Gens
                  /\ seEnd[v.gen].how = "fault" /\ seEnd[v.gen].by = v.by
                  /\ sePolicy = "restart" => v.by = seNow
<1> USE ExecAssumption
<1>1. CASE Ses!exited /\ seResult[seSrv].how = "fault"
  <2>1. v = [kind |-> "crash", gen |-> seSrv, by |-> seResult[seSrv].by]
    BY <1>1 DEF Ses!liveness
  <2>2. seSrv \in Gens /\ seExited[seSrv]
    BY <1>1 DEF Ses!exited, SesInv, SesTypes, Gens, Ses!Gens
  <2>3. seResult[seSrv] = seEnd[seSrv] /\ seEnd[seSrv] \in EndType
    BY <2>2 DEF SesInv, SesTypes, ReapedIsTrue
  <2>4. seEnd[seSrv].by = sePoison[seSrv] /\ seEnd[seSrv].by # 0
    BY <1>1, <2>2, <2>3 DEF SesInv, ReapedIsTrue
  <2>5. sePolicy = "restart" => sePoison[seSrv] \in {0, seNow}
    BY <2>2 DEF SesInv, OwnServer
  <2>6. v \in VerdictType
    BY <2>1, <2>3 DEF SesInv, SesTypes, EndType, VerdictType
  <2> QED BY <1>1, <2>1, <2>2, <2>3, <2>4, <2>5, <2>6
<1>2. CASE ~(Ses!exited /\ seResult[seSrv].how = "fault")
  <2>1. v = [kind |-> "ok", gen |-> seSrv, by |-> 0]
    BY <1>2 DEF Ses!liveness
  <2> QED BY <2>1 DEF SesInv, SesTypes, VerdictType
<1> QED BY <1>1, <1>2

\* A worker that has just begun.
LEMMA InitSesInv == Init => SesInv
<1> SUFFICES ASSUME Ses!Init PROVE SesInv
  BY DEF Init
<1>1. Ses!NoEnd \in EndType /\ Ses!NoEnd.how = "none"
  BY DEF EndType, Ses!NoEnd
<1>2. Ses!NoVerdict \in VerdictType /\ Ses!NoVerdict.kind = "none"
  BY ExecAssumption DEF VerdictType, Ses!NoVerdict
<1>3. SesTypes
  BY <1>1, <1>2, ExecAssumption DEF Ses!Init, SesTypes, Gens
<1>4. FutureIsClean /\ OneServer
  BY DEF Ses!Init, FutureIsClean, OneServer, Gens
<1>5. ReapedIsTrue
  BY <1>1 DEF Ses!Init, ReapedIsTrue, Gens
<1>6. OwnServer /\ VerdictHolds
  BY <1>2 DEF Ses!Init, OwnServer, VerdictHolds
<1> QED BY <1>3, <1>4, <1>5, <1>6 DEF SesInv

\* A server ends, of its poison or of something outside the sessions.
LEMMA DieSesInv == ASSUME SesInv, NEW g \in Gens, Ses!Die(g) PROVE SesInv'
<1>1. /\ seProc[g] = "up" /\ seProc' = [seProc EXCEPT ![g] = "dead"]
      /\ UNCHANGED <<sePolicy, seGen, seSrv, sePoison, seExited, seResult, seConn, seNow,
                     seLeft, sePhase, seVerdict>>
  BY DEF Ses!Die, Ses!Up
<1>2. PICK e \in EndType : /\ seEnd' = [seEnd EXCEPT ![g] = e]
                           /\ e.how = "fault" => e.by = sePoison[g] /\ e.by # 0
  <2>1. CASE sePoison[g] # 0 /\ seEnd' = [seEnd EXCEPT ![g] = [how |-> "fault", by |-> sePoison[g]]]
    <3>1. [how |-> "fault", by |-> sePoison[g]] \in EndType
      BY DEF SesInv, SesTypes, EndType
    <3> QED BY <2>1, <3>1
  <2>2. ASSUME NEW how \in {"exit", "killed"}, seEnd' = [seEnd EXCEPT ![g] = [how |-> how, by |-> 0]]
        PROVE  \E e \in EndType : /\ seEnd' = [seEnd EXCEPT ![g] = e]
                                  /\ e.how = "fault" => e.by = sePoison[g] /\ e.by # 0
    <3>1. [how |-> how, by |-> 0] \in EndType
      BY DEF EndType
    <3> QED BY <2>2, <3>1
  <2> QED BY <2>1, <2>2 DEF Ses!Die
<1>3. SesTypes'
  BY <1>1, <1>2 DEF SesInv, SesTypes
<1>4. \A h \in Gens \ {g} : seProc'[h] = seProc[h] /\ seEnd'[h] = seEnd[h]
  BY <1>1, <1>2 DEF SesInv, SesTypes
<1>5. seProc'[g] = "dead" /\ seEnd'[g] = e /\ ~seExited[g] /\ seEnd[g].how # "fault"
  BY <1>1, <1>2 DEF SesInv, SesTypes, ReapedIsTrue
<1>6. FutureIsClean'
  BY <1>1, <1>4, <1>5 DEF SesInv, FutureIsClean
<1>7. OneServer'
  BY <1>1, <1>4, <1>5 DEF SesInv, OneServer
<1>8. ReapedIsTrue'
  BY <1>1, <1>2, <1>4, <1>5 DEF SesInv, ReapedIsTrue
<1>9. OwnServer'
  BY <1>1 DEF SesInv, OwnServer
<1>10. VerdictHolds'
  BY <1>1, <1>4, <1>5 DEF SesInv, VerdictHolds
<1> QED BY <1>3, <1>6, <1>7, <1>8, <1>9, <1>10 DEF SesInv

\* A reaper publishes how its generation ended.
LEMMA ReapSesInv == ASSUME SesInv, NEW g \in Gens, Ses!Reap(g) PROVE SesInv'
<1>1. /\ seProc[g] = "dead" /\ seResult' = [seResult EXCEPT ![g] = seEnd[g]]
      /\ seExited' = [seExited EXCEPT ![g] = TRUE]
      /\ UNCHANGED <<sePolicy, seGen, seSrv, seProc, sePoison, seEnd, seConn, seNow,
                     seLeft, sePhase, seVerdict>>
  BY DEF Ses!Reap, Ses!reapInto, SesInv, SesTypes
<1>2. SesTypes'
  BY <1>1 DEF SesInv, SesTypes
<1>3. FutureIsClean' /\ OneServer' /\ OwnServer' /\ VerdictHolds'
  BY <1>1 DEF SesInv, FutureIsClean, OneServer, OwnServer, VerdictHolds
<1>4. ReapedIsTrue'
  BY <1>1 DEF SesInv, SesTypes, ReapedIsTrue
<1> QED BY <1>2, <1>3, <1>4 DEF SesInv

\* The steps that kill the server in use.
LEMMA KillSesInv ==
    ASSUME SesInv, Ses!kill(seSrv), seSrv' = 0, seConn' = 0,
           UNCHANGED <<sePolicy, seGen, sePoison, seExited, seResult, seNow, seLeft, seVerdict>>
    PROVE  SesInv'
<1>1. /\ seProc' \in [Gens -> {"none", "up", "dead"}] /\ seEnd' \in [Gens -> EndType]
      /\ \A g \in Gens : seProc[g] # "up" => seProc'[g] = seProc[g] /\ seEnd'[g] = seEnd[g]
      /\ \A g \in Gens : seProc[g] = "up" => seProc'[g] = "dead" /\ seEnd'[g].how = "killed"
  BY Killed DEF SesInv
<1>2. 0 \notin Gens /\ 0 \in 0 .. SesGens
  BY ExecAssumption DEF Gens, Ses!Gens
<1>3. SesTypes'
  BY <1>1, <1>2 DEF SesInv, SesTypes
<1>4. FutureIsClean'
  BY <1>1 DEF SesInv, FutureIsClean
<1>5. OneServer'
  BY <1>1 DEF OneServer
<1>6. ReapedIsTrue'
  BY <1>1 DEF SesInv, ReapedIsTrue
<1>7. OwnServer'
  BY <1>2 DEF OwnServer
<1>8. VerdictHolds'
  <2>1. seVerdict.kind = "crash" => seProc[seVerdict.gen] # "up"
    BY DEF SesInv, VerdictHolds, ReapedIsTrue
  <2> QED BY <1>1, <2>1 DEF SesInv, VerdictHolds
<1> QED BY <1>3, <1>4, <1>5, <1>6, <1>7, <1>8 DEF SesInv

\* A new generation of the server.
LEMMA StartSesInv == ASSUME SesInv, Ses!startServer PROVE SesInv'
<1> USE ExecAssumption
<1>1. /\ sePhase = "starting" /\ seGen < SesGens /\ seGen' = seGen + 1 /\ seSrv' = seGen + 1
      /\ seProc' = [seProc EXCEPT ![seGen + 1] = "up"] /\ sePhase' = "waitReady"
      /\ UNCHANGED <<sePolicy, sePoison, seEnd, seExited, seResult, seConn, seNow, seLeft,
                     seVerdict>>
  BY DEF Ses!startServer
<1>2. PICK n \in Gens : n = seGen + 1 /\ n > seGen
  BY <1>1 DEF SesInv, SesTypes, Gens, Ses!Gens
<1>3. SesTypes'
  BY <1>1, <1>2 DEF SesInv, SesTypes, Gens, Ses!Gens
<1>4. /\ seProc[n] = "none" /\ sePoison[n] = 0 /\ seProc'[n] = "up"
      /\ \A g \in Gens \ {n} : seProc'[g] = seProc[g]
  BY <1>1, <1>2 DEF SesInv, SesTypes, FutureIsClean
<1>5. FutureIsClean'
  <2>1. seGen \in Nat /\ n = seGen + 1 /\ \A g \in Gens : g \in Nat
    BY <1>2 DEF SesInv, SesTypes, Gens, Ses!Gens
  <2>2. \A g \in Gens : g > seGen + 1 => g > seGen /\ g # n
    BY ONLY <2>1
  <2> QED BY <1>1, <1>4, <2>2 DEF SesInv, FutureIsClean
<1>6. OneServer'
  <2>1. seSrv = 0 /\ seConn = 0
    BY <1>1 DEF SesInv, OneServer
  <2>2. \A g \in Gens : g # 0
    BY DEF Gens, Ses!Gens
  <2> QED BY <1>1, <1>2, <1>4, <2>1, <2>2 DEF SesInv, OneServer
<1>7. ReapedIsTrue'
  BY <1>1, <1>4 DEF SesInv, ReapedIsTrue
<1>8. OwnServer'
  BY <1>1, <1>2, <1>4 DEF OwnServer
<1>9. VerdictHolds'
  BY <1>1 DEF SesInv, VerdictHolds
<1> QED BY <1>3, <1>5, <1>6, <1>7, <1>8, <1>9 DEF SesInv

\* The steps that leave the server alone and return nothing.
LEMMA TalkSesInv ==
    ASSUME SesInv, Ses!newConnection \/ Ses!read \/ Ses!write
    PROVE  SesInv'
<1>1. /\ sePhase \in {"connect", "send", "read"}
      /\ sePhase' \in {"restart", "send", "read", "hangup"}
      /\ sePhase' # "restart" => sePhase \in {"connect", "send", "read"}
      /\ UNCHANGED <<sePolicy, seGen, seSrv, seProc, seEnd, seExited, seResult, seNow,
                     seVerdict>>
  BY DEF Ses!newConnection, Ses!read, Ses!write
<1>2. seConn' \in {seConn, seSrv} /\ seLeft' \in 0 .. SesMessages
  BY ExecAssumption DEF Ses!newConnection, Ses!read, Ses!write, SesInv, SesTypes
<1>3. \/ sePoison' = sePoison
      \/ /\ seProc[seConn] = "up" /\ seConn \in Gens
         /\ sePoison' = [sePoison EXCEPT ![seConn] = seNow]
  BY DEF Ses!newConnection, Ses!read, Ses!write, Ses!Up, Gens
<1>4. /\ sePoison' \in [Gens -> Nat]
      /\ \A g \in Gens : sePoison'[g] = sePoison[g] \/ (sePoison'[g] = seNow /\ seProc[g] = "up")
  BY <1>3 DEF SesInv, SesTypes
<1>5. SesTypes'
  BY <1>1, <1>2, <1>4 DEF SesInv, SesTypes
<1>6. FutureIsClean'
  BY <1>1, <1>4 DEF SesInv, FutureIsClean
<1>7. OneServer'
  BY <1>1, <1>2 DEF SesInv, OneServer
<1>8. ReapedIsTrue'
  BY <1>1, <1>4 DEF SesInv, ReapedIsTrue
<1>9. OwnServer'
  BY <1>1, <1>4 DEF SesInv, OwnServer
<1>10. VerdictHolds'
  BY <1>1 DEF SesInv, VerdictHolds
<1> QED BY <1>5, <1>6, <1>7, <1>8, <1>9, <1>10 DEF SesInv

\* A session begins, after the verdict of the one before it was returned.
LEMMA RunSesInv == ASSUME SesInv, Ses!Run PROVE SesInv'
<1> USE ExecAssumption
<1>1. /\ sePhase = "idle" /\ seNow' = seNow + 1 /\ seLeft' \in 0 .. SesMessages
      /\ seVerdict' \in {[kind |-> "ok", gen |-> seSrv, by |-> 0], Ses!NoVerdict}
      /\ seConn' \in {seConn, 0}
      /\ sePhase' \in {"idle", "restart", "send", "connect"}
      /\ sePolicy = "restart" => sePhase' \in {"idle", "restart"}
      /\ UNCHANGED <<sePolicy, seGen, seSrv, seProc, sePoison, seEnd, seExited, seResult>>
  BY DEF Ses!Run
<1>2. seVerdict' \in VerdictType /\ seVerdict'.kind # "crash"
  BY <1>1 DEF SesInv, SesTypes, VerdictType, Ses!NoVerdict
<1>3. SesTypes'
  BY <1>1, <1>2 DEF SesInv, SesTypes
<1>4. FutureIsClean' /\ OneServer' /\ ReapedIsTrue'
  BY <1>1 DEF SesInv, FutureIsClean, OneServer, ReapedIsTrue
<1>5. OwnServer' /\ VerdictHolds'
  BY <1>1, <1>2 DEF OwnServer, VerdictHolds
<1> QED BY <1>3, <1>4, <1>5 DEF SesInv

\* A session returns its verdict.
LEMMA EndSesInv ==
    ASSUME SesInv, Ses!afterHangup \/ Ses!endSession \/ Ses!sessionTimeout PROVE SesInv'
<1> USE ExecAssumption
<1>1. /\ sePhase \in {"send", "hangup"} /\ sePhase' = "idle" /\ seConn' \in {seConn, 0}
      /\ UNCHANGED <<sePolicy, seGen, seSrv, seProc, sePoison, seEnd, seExited, seResult, seNow,
                     seLeft>>
  BY DEF Ses!afterHangup, Ses!endSession, Ses!sessionTimeout
<1>2. /\ seVerdict' \in VerdictType
      /\ seVerdict'.kind = "crash" =>
             /\ seVerdict'.gen \in Gens
             /\ seEnd[seVerdict'.gen].how = "fault" /\ seEnd[seVerdict'.gen].by = seVerdict'.by
             /\ sePolicy = "restart" => seVerdict'.by = seNow
  <2>1. CASE Ses!sessionTimeout
    <3>1. seVerdict' = [kind |-> "timeout", gen |-> seSrv, by |-> 0]
      BY <2>1 DEF Ses!sessionTimeout
    <3> QED BY <3>1 DEF SesInv, SesTypes, VerdictType
  <2>2. CASE Ses!afterHangup \/ Ses!endSession
    <3>1. seVerdict' = Ses!liveness
      BY <2>2 DEF Ses!afterHangup, Ses!endSession
    <3> QED BY <1>1, <3>1, LivenessIsRight
  <2> QED BY <2>1, <2>2
<1>3. SesTypes'
  BY <1>1, <1>2 DEF SesInv, SesTypes
<1>4. FutureIsClean' /\ OneServer' /\ ReapedIsTrue' /\ OwnServer'
  BY <1>1 DEF SesInv, FutureIsClean, OneServer, ReapedIsTrue, OwnServer
<1>5. VerdictHolds'
  BY <1>1, <1>2 DEF VerdictHolds
<1> QED BY <1>3, <1>4, <1>5 DEF SesInv

\* Every step keeps it.
LEMMA StepSesInv == SesInv /\ [Next]_vars => SesInv'
<1> SUFFICES ASSUME SesInv, [Next]_vars PROVE SesInv'
  OBVIOUS
<1>1. CASE Ses!Next
  <2>1. CASE Ses!restartServer \/ Ses!Close
    BY <2>1, KillSesInv DEF Ses!restartServer, Ses!Close
  <2>2. CASE Ses!waitReady
    <3>1. sePhase = "waitReady" /\ seConn' = seConn /\ seConn = 0
      BY <2>2 DEF Ses!waitReady, SesInv, OneServer
    <3>2. CASE Ses!kill(seSrv) /\ seSrv' = 0
      BY <2>2, <3>1, <3>2, KillSesInv DEF Ses!waitReady
    <3>3. CASE sePhase' \in {"idle", "connect"} /\ UNCHANGED <<seSrv, seProc, seEnd>>
      <4>1. UNCHANGED <<sePolicy, seGen, seSrv, seProc, sePoison, seEnd, seExited, seResult,
                        seConn, seNow, seLeft, seVerdict>>
        BY <2>2, <3>3 DEF Ses!waitReady
      <4> QED BY <3>1, <3>3, <4>1 DEF SesInv, SesTypes, FutureIsClean, OneServer,
              ReapedIsTrue, OwnServer, VerdictHolds
    <3> QED BY <2>2, <3>2, <3>3 DEF Ses!waitReady
  <2> QED BY <1>1, <2>1, <2>2, StartSesInv, TalkSesInv, RunSesInv, EndSesInv, DieSesInv,
          ReapSesInv DEF Ses!Next, Gens
<1>2. CASE UNCHANGED seVars
  BY <1>2 DEF seVars, SesInv, SesTypes, FutureIsClean, OneServer, ReapedIsTrue, OwnServer,
     VerdictHolds
<1> QED BY <1>1, <1>2 DEF Next, vars

\* Whatever the order of deaths, reapers and sessions, a crash is charged to a server that
\* died of a fault of its own, under the restart policy to the session that caused it, and
\* at most one generation of the server runs.
THEOREM SessionCorrect == Spec => []BlameIsRight
<1>1. SesInv => BlameIsRight
  <2> SUFFICES ASSUME SesInv PROVE BlameIsRight
    OBVIOUS
  <2>1. Ses!TypeOK
    BY DEF SesInv, SesTypes, VerdictType, Gens, Ses!TypeOK
  <2>2. Ses!BlameIsRight
    <3> SUFFICES ASSUME seVerdict.kind = "crash"
                 PROVE  /\ seEnd[seVerdict.gen] = [how |-> "fault", by |-> seVerdict.by]
                        /\ sePolicy = "restart" => seVerdict.by = seNow
      BY DEF Ses!BlameIsRight
    <3>1. PICK e \in EndType : e = seEnd[seVerdict.gen]
      BY DEF SesInv, SesTypes, VerdictHolds
    <3>2. e.how = "fault" /\ e.by = seVerdict.by
      BY <3>1 DEF SesInv, VerdictHolds
    <3>3. e = [how |-> "fault", by |-> seVerdict.by]
      BY <3>2 DEF EndType
    <3> QED BY <3>1, <3>3 DEF SesInv, VerdictHolds
  <2>3. Ses!OneGeneration
    BY DEF SesInv, OneServer, Ses!OneGeneration, Gens
  <2> QED BY <2>1, <2>2, <2>3 DEF BlameIsRight
<1> QED BY <1>1, InitSesInv, StepSesInv, PTL DEF Spec

-----------------------------------------------------------------------------
(* The fork server: whose verdict, whose output (ForkServer).                *)

FsTypes ==
    /\ fsHandle \in 0 .. FsServers /\ fsStarted \in 0 .. FsServers
    /\ fsLive \subseteq 1 .. FsServers /\ fsNow \in 0 .. FsExecs
    /\ fsStderr \subseteq 1 .. FsExecs /\ fsDirty \in BOOLEAN
    /\ fsVerdict.kind \in Fork!Kinds \cup {"none"}
    /\ fsPhase \in {"idle", "start", "handshake", "prepare", "send", "wait", "failed", "closed"}

\* The executor holds a server exactly where it uses one, and no other is running.
HandleIsHeld ==
    /\ Fork!ServerIsOwned
    /\ fsPhase \in {"start", "handshake", "failed", "closed"} => fsHandle = 0
    /\ fsPhase \in {"prepare", "send", "wait"} => fsHandle # 0
    /\ fsPhase = "handshake" => fsStarted # 0
    /\ fsPhase \in {"start", "handshake", "prepare", "send", "wait"} => fsNow # 0

\* A server that has no execution to run has nothing in its pipes, and no child.
PipesAreEmpty ==
    /\ (fsHandle # 0 \/ fsPhase = "handshake") /\ fsPhase # "wait" =>
           fsControl = << >> /\ fsStatus = << >>
    /\ fsPhase # "wait" => fsChild = Fork!NoChild

\* The one execution a server runs is a command, then a child, then a reply.
ExecutionIsOne ==
    fsPhase = "wait" =>
        /\ fsInput.holds = fsNow
        /\ \/ /\ fsControl = <<fsNow>> /\ fsInput.offset = 0
              /\ fsChild = Fork!NoChild /\ fsStatus = << >>
           \/ /\ fsControl = << >> /\ fsChild = [of |-> fsNow, read |-> fsNow]
              /\ fsStatus = << >>
           \/ /\ fsControl = << >> /\ fsChild = Fork!NoChild
              /\ \/ fsStatus = << >>
                 \/ \E s \in Fork!Statuses :
                        fsStatus = <<[of |-> fsNow, read |-> fsNow, status |-> s]>>

\* The output of earlier executions is gone before the next one runs.
OutputIsOwn ==
    /\ fsPhase \in {"idle", "start", "handshake", "prepare"} /\ ~fsDirty => fsStderr = {}
    /\ fsPhase \in {"send", "wait"} => fsStderr \subseteq {fsNow}
    /\ fsPhase = "send" => fsInput = [holds |-> fsNow, offset |-> 0]

FsInv ==
    FsTypes /\ HandleIsHeld /\ PipesAreEmpty /\ ExecutionIsOne /\ OutputIsOwn
    /\ Fork!VerdictIsOwn

\* A worker that has just begun.
LEMMA InitFsInv == Init => FsInv
<1> SUFFICES ASSUME Fork!Init PROVE FsInv
  BY DEF Init
<1>1. FsTypes
  <2>1. fsVerdict.kind = "none" /\ fsDirty \in BOOLEAN
    BY DEF Fork!Init, Fork!NoVerdict
  <2>2. FsServers \in Nat /\ FsExecs \in Nat
    BY ExecAssumption
  <2>3. 0 \in 0 .. FsServers /\ 0 \in 0 .. FsExecs
    BY <2>2
  <2> QED BY <2>1, <2>3 DEF Fork!Init, FsTypes
<1> QED BY <1>1 DEF Fork!Init, FsInv, HandleIsHeld, Fork!ServerIsOwned, PipesAreEmpty,
        ExecutionIsOne, OutputIsOwn, Fork!VerdictIsOwn, Fork!NoVerdict

\* The processes: a fork, a line of output, a reply, the death of the server.
LEMMA ServerFsInv ==
    ASSUME FsInv, Fork!Fork \/ Fork!Say \/ Fork!Reply \/ Fork!ServerDies
    PROVE  FsInv'
<1>1. UNCHANGED <<fsHandle, fsStarted, fsDirty, fsNow, fsPhase, fsVerdict>>
  BY DEF Fork!Fork, Fork!Say, Fork!Reply, Fork!ServerDies
<1>2. Fork!VerdictIsOwn'
  BY <1>1 DEF FsInv, Fork!VerdictIsOwn
<1>3. CASE Fork!Fork
  <2>1. /\ fsHandle \in fsLive /\ fsControl # << >> /\ fsChild = Fork!NoChild
        /\ fsChild' = [of |-> fsNow, read |-> IF fsInput.offset = 0 THEN fsInput.holds ELSE 0]
        /\ fsInput' = [fsInput EXCEPT !.offset = 1] /\ fsControl' = Tail(fsControl)
        /\ UNCHANGED <<fsLive, fsStatus, fsStderr>>
    BY <1>3 DEF Fork!Fork
  <2>2. fsHandle # 0
    BY <2>1 DEF FsInv, FsTypes
  <2>3. fsPhase = "wait" /\ fsControl = <<fsNow>> /\ fsInput.offset = 0 /\ fsStatus = << >>
    BY <2>1, <2>2 DEF FsInv, PipesAreEmpty, ExecutionIsOne
  <2>4. fsInput.holds = fsNow
    BY <2>3 DEF FsInv, ExecutionIsOne
  <2>5. fsControl' = << >> /\ fsChild' = [of |-> fsNow, read |-> fsNow]
    BY <2>1, <2>3, <2>4
  <2>6. fsInput'.holds = fsNow
    <3>1. PICK i : i = fsInput
      OBVIOUS
    <3> QED BY <2>1, <2>4
  <2>7. ExecutionIsOne'
    BY <1>1, <2>1, <2>3, <2>5, <2>6 DEF ExecutionIsOne
  <2>8. FsTypes' /\ HandleIsHeld' /\ PipesAreEmpty' /\ OutputIsOwn'
    BY <1>1, <2>1, <2>3 DEF FsInv, FsTypes, HandleIsHeld, Fork!ServerIsOwned, PipesAreEmpty,
       OutputIsOwn
  <2> QED BY <1>2, <2>7, <2>8 DEF FsInv
<1>4. CASE Fork!Say
  <2>1. /\ fsChild # Fork!NoChild /\ fsStderr' = fsStderr \cup {fsChild.of}
        /\ UNCHANGED <<fsLive, fsControl, fsStatus, fsChild, fsInput>>
    BY <1>4 DEF Fork!Say
  <2>2. fsPhase = "wait" /\ fsChild.of = fsNow
    BY <2>1 DEF FsInv, PipesAreEmpty, ExecutionIsOne
  <2>3. fsNow \in 1 .. FsExecs
    BY <2>2, ExecAssumption DEF FsInv, FsTypes, HandleIsHeld
  <2> QED BY <1>1, <1>2, <2>1, <2>2, <2>3 DEF FsInv, FsTypes, HandleIsHeld, Fork!ServerIsOwned,
          PipesAreEmpty, ExecutionIsOne, OutputIsOwn
<1>5. CASE Fork!Reply
  <2>1. PICK s \in Fork!Statuses :
            /\ fsChild # Fork!NoChild /\ fsChild' = Fork!NoChild
            /\ fsStatus' = Append(fsStatus, [of |-> fsChild.of, read |-> fsChild.read,
                                             status |-> s])
            /\ UNCHANGED <<fsLive, fsControl, fsInput, fsStderr>>
    BY <1>5 DEF Fork!Reply
  <2>2. /\ fsPhase = "wait" /\ fsControl = << >> /\ fsStatus = << >>
        /\ fsChild = [of |-> fsNow, read |-> fsNow]
    BY <2>1 DEF FsInv, PipesAreEmpty, ExecutionIsOne
  <2>3. fsStatus' = <<[of |-> fsNow, read |-> fsNow, status |-> s]>>
    BY <2>1, <2>2
  <2> QED BY <1>1, <1>2, <2>1, <2>2, <2>3 DEF FsInv, FsTypes, HandleIsHeld,
          Fork!ServerIsOwned, PipesAreEmpty, ExecutionIsOne, OutputIsOwn
<1>6. CASE Fork!ServerDies
  <2>1. /\ fsLive' = fsLive \ {fsHandle} /\ fsChild' = Fork!NoChild
        /\ UNCHANGED <<fsControl, fsStatus, fsInput, fsStderr>>
    BY <1>6 DEF Fork!ServerDies, Fork!killed
  <2> QED BY <1>1, <1>2, <2>1 DEF FsInv, FsTypes, HandleIsHeld, Fork!ServerIsOwned,
          PipesAreEmpty, ExecutionIsOne, OutputIsOwn
<1> QED BY <1>3, <1>4, <1>5, <1>6

\* Starting a server, preparing an execution, and the ways to end in between.
LEMMA StartFsInv ==
    ASSUME FsInv, Fork!Run \/ Fork!Spawn \/ Fork!Handshake \/ Fork!Prepare \/ Fork!cycleSend
    PROVE  FsInv'
<1> USE ExecAssumption
<1>0. FsServers \in Nat /\ FsExecs \in Nat
  OBVIOUS
<1>1. CASE Fork!Run
  <2>1. /\ fsPhase = "idle" /\ fsNow' = fsNow + 1 /\ fsNow < FsExecs
        /\ fsVerdict'.kind = "none"
        /\ fsPhase' = IF fsHandle = 0 THEN "start" ELSE "prepare"
        /\ UNCHANGED <<fsHandle, fsLive, fsStarted, fsControl, fsStatus, fsChild, fsInput,
                       fsStderr, fsDirty>>
    BY <1>1 DEF Fork!Run, Fork!NoVerdict
  <2>2. fsNow' \in 0 .. FsExecs
    BY <1>0, <2>1 DEF FsInv, FsTypes
  <2>3. FsTypes'
    BY <2>1, <2>2 DEF FsInv, FsTypes
  <2>4. fsNow' # 0
    BY <2>1 DEF FsInv, FsTypes
  <2>5. HandleIsHeld' /\ PipesAreEmpty' /\ ExecutionIsOne'
    BY <2>1, <2>4 DEF FsInv, HandleIsHeld, Fork!ServerIsOwned, PipesAreEmpty, ExecutionIsOne
  <2>6. OutputIsOwn' /\ Fork!VerdictIsOwn'
    BY <2>1 DEF FsInv, OutputIsOwn, Fork!VerdictIsOwn
  <2> QED BY <2>3, <2>5, <2>6 DEF FsInv
<1>2. CASE Fork!Spawn
  <2>1. /\ fsPhase = "start" /\ fsStarted < FsServers /\ fsStarted' = fsStarted + 1
        /\ fsLive' = fsLive \cup {fsStarted + 1} /\ fsControl' = << >> /\ fsStatus' = << >>
        /\ fsPhase' = "handshake"
        /\ UNCHANGED <<fsHandle, fsChild, fsInput, fsStderr, fsDirty, fsNow, fsVerdict>>
    BY <1>2 DEF Fork!Spawn
  <2>2. fsStarted + 1 \in 1 .. FsServers /\ fsStarted + 1 \in 0 .. FsServers
    BY <1>0, <2>1 DEF FsInv, FsTypes
  <2>3. FsTypes'
    BY <2>1, <2>2 DEF FsInv, FsTypes
  <2>4. HandleIsHeld'
    <3>1. fsHandle = 0 /\ fsLive \subseteq {0} /\ 0 \notin fsLive
      BY <2>1 DEF FsInv, FsTypes, HandleIsHeld, Fork!ServerIsOwned
    <3>2. fsLive' \subseteq {fsHandle', fsStarted'}
      BY <2>1, <3>1
    <3>3. fsStarted' # 0 /\ fsNow # 0
      BY <2>1, <2>2 DEF FsInv, HandleIsHeld
    <3> QED BY <2>1, <3>1, <3>2, <3>3 DEF HandleIsHeld, Fork!ServerIsOwned
  <2>5. PipesAreEmpty' /\ ExecutionIsOne'
    BY <2>1 DEF FsInv, PipesAreEmpty, ExecutionIsOne
  <2>6. OutputIsOwn' /\ Fork!VerdictIsOwn'
    BY <2>1 DEF FsInv, OutputIsOwn, Fork!VerdictIsOwn
  <2> QED BY <2>3, <2>4, <2>5, <2>6 DEF FsInv
<1>3. CASE Fork!Handshake
  <2>1. /\ fsPhase = "handshake"
        /\ \/ fsHandle' = fsStarted /\ fsPhase' = "prepare" /\ fsLive' = fsLive
           \/ fsLive' = fsLive \ {fsStarted} /\ fsPhase' = "failed" /\ fsHandle' = fsHandle
        /\ UNCHANGED <<fsStarted, fsControl, fsStatus, fsChild, fsInput, fsStderr, fsDirty,
                       fsNow, fsVerdict>>
    BY <1>3 DEF Fork!Handshake, Fork!killed
  <2>2. fsHandle = 0 /\ fsLive \subseteq {fsStarted}
    BY <2>1 DEF FsInv, FsTypes, HandleIsHeld, Fork!ServerIsOwned
  <2>3. FsTypes'
    BY <2>1 DEF FsInv, FsTypes
  <2>4. fsStarted # 0
    BY <2>1 DEF FsInv, HandleIsHeld
  <2>5. HandleIsHeld'
    <3>1. \/ fsHandle' = fsStarted /\ fsPhase' = "prepare" /\ fsLive' = fsLive
          \/ fsHandle' = 0 /\ fsPhase' = "failed" /\ fsLive' = fsLive \ {fsStarted}
      BY <2>1, <2>2
    <3>2. Fork!ServerIsOwned'
      BY ONLY <2>2, <3>1 DEF Fork!ServerIsOwned
    <3>3. fsNow # 0 /\ fsNow' = fsNow /\ fsStarted' = fsStarted
      BY <2>1 DEF FsInv, HandleIsHeld
    <3> QED BY ONLY <2>4, <3>1, <3>2, <3>3 DEF HandleIsHeld
  <2>6. PipesAreEmpty' /\ ExecutionIsOne'
    BY <2>1, <2>2 DEF FsInv, PipesAreEmpty, ExecutionIsOne
  <2>7. OutputIsOwn' /\ Fork!VerdictIsOwn'
    BY <2>1 DEF FsInv, OutputIsOwn, Fork!VerdictIsOwn
  <2> QED BY <2>3, <2>5, <2>6, <2>7 DEF FsInv
<1>4. CASE Fork!Prepare
  <2>1. /\ fsPhase = "prepare" /\ fsPhase' = "send"
        /\ fsInput' = [holds |-> fsNow, offset |-> 0]
        /\ fsStderr' = (IF fsDirty THEN {} ELSE fsStderr)
        /\ UNCHANGED <<fsHandle, fsLive, fsStarted, fsControl, fsStatus, fsChild, fsNow,
                       fsVerdict>>
    BY <1>4 DEF Fork!Prepare, Fork!writeInput, Fork!resetStderr
  <2>2. fsStderr' = {}
    BY <2>1 DEF FsInv, OutputIsOwn
  <2>3. fsDirty' \in BOOLEAN
    BY <1>4 DEF Fork!Prepare, Fork!resetStderr
  <2>4. FsTypes'
    BY <2>1, <2>2, <2>3 DEF FsInv, FsTypes
  <2>5. HandleIsHeld' /\ PipesAreEmpty' /\ ExecutionIsOne'
    BY <2>1 DEF FsInv, HandleIsHeld, Fork!ServerIsOwned, PipesAreEmpty, ExecutionIsOne
  <2>6. OutputIsOwn' /\ Fork!VerdictIsOwn'
    BY <2>1, <2>2 DEF FsInv, OutputIsOwn, Fork!VerdictIsOwn
  <2> QED BY <2>4, <2>5, <2>6 DEF FsInv
<1>5. CASE Fork!cycleSend
  <2>1. fsPhase = "send" /\ UNCHANGED <<fsStarted, fsStatus, fsInput, fsStderr, fsDirty, fsNow,
                                       fsVerdict>>
    BY <1>5 DEF Fork!cycleSend
  <2>2. /\ fsHandle # 0 /\ fsNow # 0 /\ fsControl = << >> /\ fsStatus = << >>
        /\ fsChild = Fork!NoChild /\ fsInput = [holds |-> fsNow, offset |-> 0]
    BY <2>1 DEF FsInv, HandleIsHeld, PipesAreEmpty, OutputIsOwn
  <2>3. CASE fsHandle \in fsLive /\ fsControl' = Append(fsControl, fsNow) /\ fsPhase' = "wait"
             /\ UNCHANGED <<fsLive, fsChild, fsHandle>>
    <3>1. fsControl' = <<fsNow>> /\ fsInput.holds = fsNow /\ fsInput.offset = 0
      BY <2>2, <2>3
    <3> QED BY <2>1, <2>2, <2>3, <3>1 DEF FsInv, FsTypes, HandleIsHeld, Fork!ServerIsOwned,
            PipesAreEmpty, ExecutionIsOne, OutputIsOwn, Fork!VerdictIsOwn
  <2>4. CASE Fork!serverDied /\ fsPhase' = "failed" /\ fsControl' = fsControl
    <3>1. fsLive' = fsLive \ {fsHandle} /\ fsChild' = Fork!NoChild /\ fsHandle' = 0
      <4>1. Fork!serverDied
        BY <2>4
      <4> QED BY ONLY <4>1 DEF Fork!serverDied, Fork!killed
    <3>2. FsTypes'
      BY <1>0, <2>1, <2>4, <3>1 DEF FsInv, FsTypes
    <3>3. fsLive' = {}
      <4>1. fsLive \subseteq {fsHandle, 0}
        BY <2>1 DEF FsInv, HandleIsHeld, Fork!ServerIsOwned
      <4>2. 0 \notin fsLive
        BY <1>0 DEF FsInv, FsTypes
      <4> QED BY ONLY <3>1, <4>1, <4>2
    <3>4. HandleIsHeld'
      BY <2>4, <3>1, <3>3 DEF HandleIsHeld, Fork!ServerIsOwned
    <3>5. PipesAreEmpty' /\ ExecutionIsOne'
      BY <2>4, <3>1 DEF PipesAreEmpty, ExecutionIsOne
    <3>6. OutputIsOwn' /\ Fork!VerdictIsOwn'
      BY <2>1, <2>4 DEF FsInv, OutputIsOwn, Fork!VerdictIsOwn
    <3> QED BY <3>2, <3>4, <3>5, <3>6 DEF FsInv
  <2> QED BY <1>5, <2>3, <2>4 DEF Fork!cycleSend
<1> QED BY <1>1, <1>2, <1>3, <1>4, <1>5

\* An execution ends, and the server with it or not.
LEMMA EndFsInv ==
    ASSUME FsInv,
           Fork!cycleReply \/ Fork!cycleBackstop \/ Fork!cycleLost \/ Fork!Reset \/ Fork!Close
    PROVE  FsInv'
<1>0. FsServers \in Nat
  BY ExecAssumption
<1>1. UNCHANGED <<fsStarted, fsControl, fsInput, fsStderr, fsNow>>
  BY DEF Fork!cycleReply, Fork!cycleBackstop, Fork!cycleLost, Fork!Reset, Fork!Close
<1>2. CASE Fork!cycleReply
  <2>1. /\ fsPhase = "wait" /\ fsStatus # << >> /\ fsStatus' = Tail(fsStatus)
        /\ fsPhase' = "idle" /\ UNCHANGED <<fsHandle, fsLive, fsChild>>
    BY <1>2 DEF Fork!cycleReply
  <2>2. PICK s \in Fork!Statuses :
            /\ fsStatus = <<[of |-> fsNow, read |-> fsNow, status |-> s]>>
            /\ fsControl = << >> /\ fsChild = Fork!NoChild
    BY <2>1 DEF FsInv, ExecutionIsOne
  <2>3. Head(fsStatus).read = fsNow /\ Head(fsStatus).status = s /\ fsStatus' = << >>
    BY <2>1, <2>2
  <2>4. fsVerdict' = [kind |-> Fork!exitKindOfWaitStatus(s), of |-> fsNow, output |-> fsStderr]
    BY <1>2, <2>3 DEF Fork!cycleReply, Fork!readStderr
  <2>5. Fork!exitKindOfWaitStatus(s) \in Fork!Kinds
    BY DEF Fork!exitKindOfWaitStatus, Fork!Kinds, Fork!Statuses
  <2>6. fsVerdict'.kind \in Fork!Kinds /\ fsVerdict'.of = fsNow /\ fsVerdict'.output = fsStderr
    BY <2>4, <2>5
  <2>7. fsStderr \subseteq {fsNow}
    BY <2>1 DEF FsInv, OutputIsOwn
  <2>8. fsDirty' \in BOOLEAN /\ (~fsDirty' => fsStderr = {})
    BY <1>2 DEF Fork!cycleReply, Fork!readStderr
  <2>9. FsTypes'
    BY <1>1, <2>1, <2>6, <2>8 DEF FsInv, FsTypes
  <2>10. HandleIsHeld' /\ PipesAreEmpty' /\ ExecutionIsOne'
    BY <1>1, <2>1, <2>2, <2>3 DEF FsInv, HandleIsHeld, Fork!ServerIsOwned, PipesAreEmpty,
       ExecutionIsOne
  <2>11. OutputIsOwn' /\ Fork!VerdictIsOwn'
    BY <1>1, <2>1, <2>6, <2>7, <2>8 DEF OutputIsOwn, Fork!VerdictIsOwn
  <2> QED BY <2>9, <2>10, <2>11 DEF FsInv
<1>3. CASE ~Fork!cycleReply
  <2>1. /\ Fork!serverDied /\ fsStatus' = fsStatus
        /\ fsPhase \in {"wait", "idle", "failed"} /\ fsPhase' \in {"idle", "failed", "closed"}
        /\ fsPhase' = "idle" => fsPhase \in {"idle", "wait"}
    BY <1>3 DEF Fork!cycleReply, Fork!cycleBackstop, Fork!cycleLost, Fork!Reset, Fork!Close
  <2>2. fsHandle' = 0 /\ fsLive' = fsLive \ {fsHandle} /\ fsChild' = Fork!NoChild
    BY <2>1 DEF Fork!serverDied, Fork!killed
  <2>3. HandleIsHeld' /\ PipesAreEmpty' /\ ExecutionIsOne'
    BY <1>1, <2>1, <2>2 DEF FsInv, HandleIsHeld, Fork!ServerIsOwned, PipesAreEmpty,
       ExecutionIsOne
  <2>4. CASE Fork!cycleBackstop
    <3>1. fsVerdict' = [kind |-> "timeout", of |-> fsNow, output |-> fsStderr]
      BY <2>4 DEF Fork!cycleBackstop, Fork!readStderr
    <3>2. fsVerdict'.kind = "timeout" /\ fsVerdict'.of = fsNow /\ fsVerdict'.output = fsStderr
      BY <3>1
    <3>3. fsDirty' \in BOOLEAN /\ (~fsDirty' => fsStderr = {})
      BY <2>4 DEF Fork!cycleBackstop, Fork!readStderr
    <3>4. fsStderr \subseteq {fsNow}
      BY <2>4 DEF Fork!cycleBackstop, FsInv, OutputIsOwn
    <3>5. FsTypes'
      BY <1>0, <1>1, <2>1, <2>2, <3>2, <3>3 DEF FsInv, FsTypes, Fork!Kinds
    <3>6. OutputIsOwn' /\ Fork!VerdictIsOwn'
      BY <1>1, <2>1, <3>2, <3>3, <3>4 DEF OutputIsOwn, Fork!VerdictIsOwn
    <3> QED BY <2>3, <3>5, <3>6 DEF FsInv
  <2>5. CASE ~Fork!cycleBackstop
    <3>1. /\ UNCHANGED <<fsDirty, fsVerdict>>
          /\ fsPhase' = "idle" => fsPhase = "idle"
      BY <1>3, <2>5 DEF Fork!cycleReply, Fork!cycleBackstop, Fork!cycleLost, Fork!Reset,
         Fork!Close
    <3>2. FsTypes'
      BY <1>0, <1>1, <2>1, <2>2, <3>1 DEF FsInv, FsTypes
    <3>3. OutputIsOwn' /\ Fork!VerdictIsOwn'
      BY <1>1, <2>1, <3>1 DEF FsInv, OutputIsOwn, Fork!VerdictIsOwn
    <3> QED BY <2>3, <3>2, <3>3 DEF FsInv
  <2> QED BY <2>4, <2>5
<1> QED BY <1>2, <1>3

\* Every step keeps it.
LEMMA StepFsInv == FsInv /\ [Next]_vars => FsInv'
<1> SUFFICES ASSUME FsInv, [Next]_vars PROVE FsInv'
  OBVIOUS
<1>1. CASE Fork!Next
  BY <1>1, ServerFsInv, StartFsInv, EndFsInv DEF Fork!Next
<1>2. CASE UNCHANGED fsVars
  BY <1>2 DEF fsVars, FsInv, FsTypes, HandleIsHeld, Fork!ServerIsOwned, PipesAreEmpty,
     ExecutionIsOne, OutputIsOwn, Fork!VerdictIsOwn
<1> QED BY <1>1, <1>2 DEF Next, vars

\* The verdict and the output of an execution are those of the child that ran its input,
\* and no path of the executor loses a server that is running.
THEOREM ForkServerCorrect ==
    Spec => [](Fork!TypeOK /\ Fork!VerdictIsOwn /\ Fork!ServerIsOwned)
<1>1. FsInv => Fork!TypeOK /\ Fork!VerdictIsOwn /\ Fork!ServerIsOwned
  BY DEF FsInv, FsTypes, HandleIsHeld, Fork!TypeOK
<1> QED BY <1>1, InitFsInv, StepFsInv, PTL DEF Spec

-----------------------------------------------------------------------------
(* The process pool: what is kept warm (ProcPool).                           *)

Pids == Pool!Pids

PpTypes ==
    /\ ppWarm \in Seq(Pids) /\ ppClosed \in BOOLEAN /\ ppLife \in BOOLEAN
    /\ ppInHand \subseteq Pids
    /\ ppProc \in [Pids -> {"none", "alive", "exited", "killed"}]
    /\ ppKin \in [Pids -> SUBSET Pool!Pipes] /\ ppUnder \in [Pids -> Nat]
    /\ ppUsed \in [Pids -> Nat]
    /\ ppPhase \in {"start", "idle", "waiting", "draining"}
    /\ ppExec \in 0 .. PoolExecs /\ ppRefills \in 0 .. ppExec

\* Every process is tied to the pool's lifetime, which ends when the pool is closed.
LifeIsThePools ==
    /\ \A p \in Pids : ppUnder[p] = 0
    /\ ppLife <=> ~ppClosed
    /\ ppClosed => ppWarm = << >> /\ ppPhase # "start"

\* A process is in one place: warm once, in the hand of a refill, or given an input.
Fresh(p) == ppProc[p] # "none" /\ ppUsed[p] = 0
OnePlace ==
    /\ \A p \in Pids : ppProc[p] = "none" => ppUsed[p] = 0
    /\ \A p \in ppInHand : Fresh(p) /\ (~ppClosed => ppProc[p] = "alive")
    /\ \A i \in 1 .. Len(ppWarm) :
           Fresh(ppWarm[i]) /\ ppProc[ppWarm[i]] = "alive" /\ ppWarm[i] \notin ppInHand
    /\ \A i, j \in 1 .. Len(ppWarm) : ppWarm[i] = ppWarm[j] => i = j
    /\ ppPhase \in {"waiting", "draining"} => ppPeer \in Pids /\ ppUsed[ppPeer] > 0

PpInv == PpTypes /\ LifeIsThePools /\ OnePlace

\* A worker whose pool is still empty.
LEMMA InitPpInv == Init => PpInv
<1> SUFFICES ASSUME Pool!Init PROVE PpInv
  BY DEF Init
<1>1. PoolExecs \in Nat
  BY ExecAssumption
<1>2. /\ ppClosed = FALSE /\ ppClosed \in BOOLEAN /\ ppLife = TRUE /\ ppLife \in BOOLEAN
  BY DEF Pool!Init
<1>3. ppWarm = << >> /\ ppWarm \in Seq(Pids) /\ Len(ppWarm) = 0
  BY DEF Pool!Init
<1>4. PpTypes
  BY <1>1, <1>2, <1>3 DEF Pool!Init, PpTypes, Pids
<1>5. LifeIsThePools
  BY <1>2 DEF Pool!Init, LifeIsThePools, Pids
<1>6. OnePlace
  BY <1>3 DEF Pool!Init, OnePlace, Pids
<1> QED BY <1>4, <1>5, <1>6 DEF PpInv

\* A step that moves no process keeps what is known, if the untouched stay as they are.
LEMMA NothingMoves ==
    ASSUME PpInv,
           UNCHANGED <<ppWarm, ppClosed, ppLife, ppInHand, ppUnder, ppUsed, ppExec, ppRefills>>,
           ppProc' \in [Pids -> {"none", "alive", "exited", "killed"}],
           ppKin' \in [Pids -> SUBSET Pool!Pipes],
           \A p \in Pids : ppProc'[p] = "none" <=> ppProc[p] = "none",
           ~ppClosed => \A p \in Pids : ppUsed[p] = 0 => ppProc'[p] = ppProc[p],
           ppPhase' \in {"start", "idle", "waiting", "draining"},
           ppPhase' = "start" => ppPhase = "start",
           ppPhase' \in {"waiting", "draining"} =>
               ppPhase \in {"waiting", "draining"} /\ ppPeer' = ppPeer
    PROVE  PpInv'
<1>1. PpTypes'
  BY DEF PpInv, PpTypes
<1>2. LifeIsThePools'
  BY DEF PpInv, LifeIsThePools
<1>3. ASSUME NEW i \in 1 .. Len(ppWarm)
      PROVE  Fresh(ppWarm[i]) /\ ppWarm[i] \in Pids /\ ppWarm[i] \notin ppInHand
             /\ ppProc'[ppWarm[i]] = "alive" /\ ppProc[ppWarm[i]] = "alive"
  <2>1. ppWarm[i] \in Pids /\ ~ppClosed
    BY DEF PpInv, PpTypes, LifeIsThePools
  <2>2. Fresh(ppWarm[i]) /\ ppProc[ppWarm[i]] = "alive" /\ ppWarm[i] \notin ppInHand
    BY DEF PpInv, OnePlace
  <2> QED BY <2>1, <2>2 DEF Fresh
<1>4. OnePlace'
  BY <1>3 DEF PpInv, PpTypes, OnePlace, Fresh
<1> QED BY <1>1, <1>2, <1>4 DEF PpInv

\* Killing marks those that were alive.
LEMMA PoolKill ==
    ASSUME PpTypes, NEW ps, Pool!Kill(ps)
    PROVE  /\ ppProc' \in [Pids -> {"none", "alive", "exited", "killed"}]
           /\ \A p \in Pids : p \in ps \/ ppProc'[p] = ppProc[p]
           /\ \A p \in Pids : ppProc'[p] = "none" <=> ppProc[p] = "none"
BY DEF PpTypes, Pool!Kill, Pids

\* Processes that end, of themselves or with a context, and executions that return.
LEMMA EndPpInv ==
    ASSUME PpInv,
           \/ \E p \in Pids : Pool!Exit(p) \/ Pool!KinExit(p) \/ Pool!ContextEnds(p)
           \/ Pool!deliverWaited \/ Pool!deliverTimeout \/ Pool!deliverReturns
           \/ Pool!deliverCancelled
    PROVE  PpInv'
<1> USE DEF PpInv
<1>1. UNCHANGED <<ppWarm, ppClosed, ppLife, ppInHand, ppUnder, ppUsed, ppExec, ppRefills>>
  BY DEF Pool!Exit, Pool!KinExit, Pool!ContextEnds, Pool!deliverWaited, Pool!deliverTimeout,
     Pool!deliverReturns, Pool!deliverCancelled
<1>2. /\ ppPhase' \in {"start", "idle", "waiting", "draining"}
      /\ ppPhase' = "start" => ppPhase = "start"
      /\ ppPhase' \in {"waiting", "draining"} =>
             ppPhase \in {"waiting", "draining"} /\ ppPeer' = ppPeer
  BY DEF Pool!Exit, Pool!KinExit, Pool!ContextEnds, Pool!deliverWaited, Pool!deliverTimeout,
     Pool!deliverReturns, Pool!deliverCancelled, PpTypes
<1>3. ASSUME NEW p \in Pids, Pool!Exit(p) PROVE PpInv'
  <2>1. /\ ppProc[p] = "alive" /\ ppUsed[p] > 0 /\ ppProc' = [ppProc EXCEPT ![p] = "exited"]
    BY <1>3 DEF Pool!Exit
  <2>2. PICK held \in SUBSET Pool!Pipes : ppKin' = [ppKin EXCEPT ![p] = held]
    BY <1>3 DEF Pool!Exit
  <2>3. ppKin' \in [Pids -> SUBSET Pool!Pipes]
    BY <2>2 DEF PpTypes
  <2>4. /\ ppProc' \in [Pids -> {"none", "alive", "exited", "killed"}]
        /\ \A q \in Pids : ppProc'[q] = "none" <=> ppProc[q] = "none"
        /\ \A q \in Pids : ppUsed[q] = 0 => ppProc'[q] = ppProc[q]
    BY <2>1 DEF PpTypes
  <2> QED BY <1>1, <1>2, <2>3, <2>4, NothingMoves
<1>4. ASSUME NEW p \in Pids, Pool!KinExit(p) PROVE PpInv'
  <2>1. ppKin' = [ppKin EXCEPT ![p] = {}] /\ ppProc' = ppProc
    BY <1>4 DEF Pool!KinExit
  <2>2. ppKin' \in [Pids -> SUBSET Pool!Pipes]
    BY <2>1 DEF PpTypes
  <2>3. ppProc' \in [Pids -> {"none", "alive", "exited", "killed"}]
    BY <2>1 DEF PpTypes
  <2> QED BY <1>1, <1>2, <2>1, <2>2, <2>3, NothingMoves
<1>5. ASSUME NEW p \in Pids, Pool!ContextEnds(p) PROVE PpInv'
  <2>1. Pool!Kill({p}) /\ ppKin' = ppKin /\ ppClosed
    BY <1>5 DEF Pool!ContextEnds, LifeIsThePools
  <2>2. ppKin' \in [Pids -> SUBSET Pool!Pipes]
    BY <2>1 DEF PpTypes
  <2> QED BY <1>1, <1>2, <2>1, <2>2, NothingMoves, PoolKill
<1>6. CASE Pool!deliverWaited \/ Pool!deliverReturns
  <2>1. ppKin' = ppKin /\ ppProc' = ppProc
    BY <1>6 DEF Pool!deliverWaited, Pool!deliverReturns
  <2>2. /\ ppProc' \in [Pids -> {"none", "alive", "exited", "killed"}]
        /\ ppKin' \in [Pids -> SUBSET Pool!Pipes]
    BY <2>1 DEF PpTypes
  <2> QED BY <1>1, <1>2, <2>1, <2>2, NothingMoves
<1>7. CASE Pool!deliverTimeout \/ Pool!deliverCancelled
  <2>1. Pool!Kill({ppPeer}) /\ ppKin' = ppKin /\ ppPhase = "waiting"
    BY <1>7 DEF Pool!deliverTimeout, Pool!deliverCancelled
  <2>2. ppKin' \in [Pids -> SUBSET Pool!Pipes]
    BY <2>1 DEF PpTypes
  <2>3. ppUsed[ppPeer] > 0
    BY <2>1 DEF OnePlace
  <2>4. \A p \in Pids : ppUsed[p] = 0 => p # ppPeer
    BY <2>3
  <2> QED BY <1>1, <1>2, <2>1, <2>2, <2>4, NothingMoves, PoolKill
<1> QED BY <1>3, <1>4, <1>5, <1>6, <1>7

\* A process that is spawned was in no place.
LEMMA Spawned ==
    ASSUME PpInv, NEW p \in Pids, Pool!spawn(p)
    PROVE  /\ ppProc' \in [Pids -> {"none", "alive", "exited", "killed"}]
           /\ ppUnder' \in [Pids -> Nat] /\ \A q \in Pids : ppUnder'[q] = 0
           /\ ppProc[p] = "none" /\ ppProc'[p] = "alive" /\ ppUsed[p] = 0
           /\ \A q \in Pids \ {p} : ppProc'[q] = ppProc[q]
           /\ p \notin ppInHand /\ \A i \in 1 .. Len(ppWarm) : ppWarm[i] # p
<1>1. ppProc[p] = "none" /\ ppProc' = [ppProc EXCEPT ![p] = "alive"]
      /\ ppUnder' = [ppUnder EXCEPT ![p] = 0]
  BY DEF Pool!spawn, Pool!Unborn, Pool!lifetime
<1> QED BY <1>1 DEF PpInv, PpTypes, LifeIsThePools, OnePlace, Fresh

\* Putting a process away.
LEMMA PutAway ==
    ASSUME ppWarm \in Seq(Pids), NEW p \in Pids, ppWarm' = Append(ppWarm, p)
    PROVE  /\ ppWarm' \in Seq(Pids) /\ Len(ppWarm') = Len(ppWarm) + 1
           /\ ppWarm'[Len(ppWarm) + 1] = p
           /\ \A i \in 1 .. Len(ppWarm) : ppWarm'[i] = ppWarm[i]
           /\ \A i \in 1 .. Len(ppWarm') : i \in 1 .. Len(ppWarm) \/ i = Len(ppWarm) + 1
OBVIOUS

\* A process that was warm nowhere, is in no hand and has seen no input may become warm.
LEMMA WarmerPlaces ==
    ASSUME PpTypes, OnePlace, NEW p \in Pids,
           \A i \in 1 .. Len(ppWarm) : ppWarm[i] # p,
           /\ ppWarm' \in Seq(Pids) /\ Len(ppWarm') = Len(ppWarm) + 1
           /\ ppWarm'[Len(ppWarm) + 1] = p
           /\ \A i \in 1 .. Len(ppWarm) : ppWarm'[i] = ppWarm[i]
           /\ \A i \in 1 .. Len(ppWarm') : i \in 1 .. Len(ppWarm) \/ i = Len(ppWarm) + 1,
           ppInHand' \subseteq ppInHand, p \notin ppInHand',
           ppProc'[p] = "alive" /\ ppUsed[p] = 0,
           \A q \in Pids \ {p} : ppProc'[q] = ppProc[q],
           UNCHANGED <<ppUsed, ppClosed, ppPhase, ppPeer>>
    PROVE  OnePlace'
<1>1. ASSUME NEW i \in 1 .. Len(ppWarm')
      PROVE  (Fresh(ppWarm[i]) /\ ppProc[ppWarm[i]] = "alive" /\ ppWarm[i] \notin ppInHand)'
  <2>1. CASE i \in 1 .. Len(ppWarm)
    <3>1. /\ ppWarm'[i] = ppWarm[i] /\ ppWarm[i] \in Pids \ {p} /\ ppWarm[i] \notin ppInHand
          /\ ppUsed[ppWarm[i]] = 0 /\ ppProc[ppWarm[i]] = "alive"
      <4>0. ppWarm \in Seq(Pids)
        BY DEF PpTypes
      <4>1. ppWarm'[i] = ppWarm[i] /\ ppWarm[i] \in Pids /\ ppWarm[i] # p
        BY <2>1, <4>0
      <4>2. Fresh(ppWarm[i]) /\ ppProc[ppWarm[i]] = "alive" /\ ppWarm[i] \notin ppInHand
        BY <2>1 DEF OnePlace
      <4> QED BY <4>1, <4>2 DEF Fresh
    <3>2. ppProc'[ppWarm[i]] = "alive" /\ ppWarm[i] \notin ppInHand'
      BY <3>1
    <3> QED BY <3>1, <3>2 DEF Fresh
  <2>2. CASE i = Len(ppWarm) + 1
    BY <2>2 DEF Fresh
  <2> QED BY <2>1, <2>2
<1>2. ASSUME NEW i \in 1 .. Len(ppWarm'), NEW j \in 1 .. Len(ppWarm'), ppWarm'[i] = ppWarm'[j]
      PROVE  i = j
  BY <1>2 DEF OnePlace
<1>3. \A q \in Pids : ppProc'[q] = "none" => ppUsed'[q] = 0
  BY DEF OnePlace
<1>4. ASSUME NEW q \in ppInHand' PROVE (Fresh(q) /\ (~ppClosed => ppProc[q] = "alive"))'
  <2>1. q \in Pids \ {p} /\ q \in ppInHand
    BY DEF PpTypes
  <2> QED BY <2>1 DEF OnePlace, Fresh
<1>5. ppPhase' \in {"waiting", "draining"} => ppPeer' \in Pids /\ ppUsed'[ppPeer'] > 0
  BY DEF OnePlace
<1> QED BY <1>1, <1>2, <1>3, <1>4, <1>5 DEF OnePlace

\* Start spawns one more process, or has enough of them.
LEMMA StartPpInv == ASSUME PpInv, Pool!Start PROVE PpInv'
<1> USE DEF PpInv
<1>1. /\ ppPhase = "start" /\ UNCHANGED <<ppClosed, ppLife, ppRefills, ppInHand, ppKin, ppUsed,
                                          ppPeer, ppExec>>
  BY DEF Pool!Start
<1>2. CASE ppPhase' = "idle" /\ UNCHANGED <<ppWarm, ppProc, ppUnder>>
  BY <1>1, <1>2, NothingMoves DEF PpTypes
<1>3. ASSUME NEW p \in Pids, Pool!spawn(p), ppWarm' = Append(ppWarm, p), ppPhase' = ppPhase,
             Len(ppWarm) < PoolSize
      PROVE  PpInv'
  <2>1. /\ ppProc' \in [Pids -> {"none", "alive", "exited", "killed"}]
        /\ ppUnder' \in [Pids -> Nat] /\ \A q \in Pids : ppUnder'[q] = 0
        /\ ppProc[p] = "none" /\ ppProc'[p] = "alive" /\ ppUsed[p] = 0
        /\ \A q \in Pids \ {p} : ppProc'[q] = ppProc[q]
        /\ p \notin ppInHand /\ \A i \in 1 .. Len(ppWarm) : ppWarm[i] # p
    BY <1>3, Spawned
  <2>2. /\ ppWarm' \in Seq(Pids) /\ Len(ppWarm') = Len(ppWarm) + 1
        /\ ppWarm'[Len(ppWarm) + 1] = p
        /\ \A i \in 1 .. Len(ppWarm) : ppWarm'[i] = ppWarm[i]
        /\ \A i \in 1 .. Len(ppWarm') : i \in 1 .. Len(ppWarm) \/ i = Len(ppWarm) + 1
    BY <1>3, PutAway DEF PpTypes
  <2>3. PpTypes'
    BY <1>1, <1>3, <2>1, <2>2 DEF PpTypes
  <2>4. ~ppClosed
    BY <1>1 DEF LifeIsThePools
  <2>5. LifeIsThePools'
    BY <1>1, <2>1, <2>4 DEF LifeIsThePools
  <2>6. OnePlace'
    <3>1. ppInHand' \subseteq ppInHand /\ p \notin ppInHand'
          /\ UNCHANGED <<ppUsed, ppClosed, ppPhase, ppPeer>>
      BY <1>1, <1>3, <2>1
    <3> QED BY <2>1, <2>2, <3>1, WarmerPlaces
  <2> QED BY <2>3, <2>5, <2>6
<1> QED BY <1>1, <1>2, <1>3 DEF Pool!Start, Pids

\* What remains of a queue without its last element.
LEMMA FrontOf ==
    ASSUME NEW S, NEW s \in Seq(S), Len(s) >= 1,
           NEW f, f = Pool!Front(s)
    PROVE  /\ f \in Seq(S) /\ Len(f) = Len(s) - 1
           /\ \A i \in 1 .. Len(f) : i \in 1 .. Len(s) /\ i # Len(s) /\ f[i] = s[i] /\ s[i] \in S
<1>1. PICK n \in Nat : n = Len(s)
  OBVIOUS
<1>2. \A i \in 1 .. n : s[i] \in S
  BY <1>1
<1>3. Len(f) = n - 1 /\ \A i \in 1 .. (n - 1) : f[i] = s[i]
  BY <1>1 DEF Pool!Front
<1>4. f = [i \in 1 .. (n - 1) |-> s[i]]
  BY <1>1 DEF Pool!Front
<1>5. \A i \in 1 .. (n - 1) : s[i] \in S
  BY <1>2
<1>6. f \in [1 .. (n - 1) -> S]
  BY ONLY <1>4, <1>5
<1>7. n - 1 \in Nat
  BY <1>1
<1>8. f \in Seq(S)
  BY ONLY <1>6, <1>7
<1> QED BY <1>1, <1>2, <1>3, <1>8

\* An execution takes the youngest warm process, or one spawned for it.
LEMMA RunPpInv == ASSUME PpInv, Pool!Run PROVE PpInv'
<1> USE DEF PpInv
<1>0. PoolExecs \in Nat
  BY ExecAssumption
<1>1. PICK p \in Pids : Pool!take(p) /\ ppPeer' = p /\ ppUsed' = [ppUsed EXCEPT ![p] = @ + 1]
  BY DEF Pool!Run, Pids
<1>2. /\ ~ppClosed /\ ppExec < PoolExecs /\ ppRefills' = ppRefills + 1 /\ ppExec' = ppExec + 1
      /\ ppPhase' = "waiting" /\ UNCHANGED <<ppClosed, ppLife, ppInHand, ppKin>>
  BY DEF Pool!Run
<1>3. ppExec' \in 0 .. PoolExecs /\ ppRefills' \in 0 .. ppExec'
  BY <1>0, <1>2 DEF PpTypes
<1>4. /\ ppUsed' \in [Pids -> Nat] /\ ppUsed'[p] > 0
      /\ \A q \in Pids \ {p} : ppUsed'[q] = ppUsed[q]
  BY <1>1 DEF PpTypes
<1>5. CASE ppWarm # << >> /\ p = Pool!Last(ppWarm) /\ ppWarm' = Pool!Front(ppWarm)
           /\ UNCHANGED <<ppProc, ppUnder>>
  <2>1. ppWarm \in Seq(Pids) /\ Len(ppWarm) \in Nat /\ Len(ppWarm) >= 1
    BY <1>5 DEF PpTypes
  <2>2. p = ppWarm[Len(ppWarm)] /\ ppWarm' = SubSeq(ppWarm, 1, Len(ppWarm) - 1)
    BY <1>5 DEF Pool!Last, Pool!Front
  <2>3. /\ ppWarm' \in Seq(Pids) /\ Len(ppWarm') = Len(ppWarm) - 1
        /\ \A i \in 1 .. Len(ppWarm') : i \in 1 .. Len(ppWarm) /\ i # Len(ppWarm)
        /\ \A i \in 1 .. Len(ppWarm') : ppWarm'[i] = ppWarm[i] /\ ppWarm[i] \in Pids
    <3>1. ppWarm' = Pool!Front(ppWarm)
      BY <1>5
    <3>2. PICK w : w = ppWarm'
      OBVIOUS
    <3>3. PICK v \in Seq(Pids) : v = ppWarm
      BY <2>1
    <3>4. Len(v) >= 1 /\ w = Pool!Front(v)
      BY ONLY <2>1, <3>1, <3>2, <3>3
    <3>5. /\ w \in Seq(Pids) /\ Len(w) = Len(v) - 1
          /\ \A i \in 1 .. Len(w) : i \in 1 .. Len(v) /\ i # Len(v) /\ w[i] = v[i] /\ v[i] \in Pids
      BY ONLY <3>3, <3>4, FrontOf
    <3> QED BY ONLY <3>2, <3>3, <3>5
  <2>4. \A i \in 1 .. Len(ppWarm') : ppWarm[i] # p
    BY <2>1, <2>2, <2>3 DEF OnePlace
  <2>5. Fresh(p) /\ p \notin ppInHand
    BY <2>1, <2>2 DEF OnePlace
  <2>6. PpTypes'
    BY <1>2, <1>3, <1>4, <1>5, <2>3 DEF PpTypes
  <2>7. LifeIsThePools'
    BY <1>2, <1>5 DEF LifeIsThePools
  <2>8. ASSUME NEW i \in 1 .. Len(ppWarm')
        PROVE  (Fresh(ppWarm[i]) /\ ppProc[ppWarm[i]] = "alive" /\ ppWarm[i] \notin ppInHand)'
    <3>1. Fresh(ppWarm[i]) /\ ppProc[ppWarm[i]] = "alive" /\ ppWarm[i] \notin ppInHand
      BY <2>3 DEF OnePlace
    <3>2. ppWarm'[i] = ppWarm[i] /\ ppWarm[i] \in Pids \ {p}
      BY <2>3, <2>4
    <3>3. ppUsed'[ppWarm[i]] = ppUsed[ppWarm[i]]
      BY <1>4, <3>2
    <3> QED BY <1>2, <1>5, <3>1, <3>2, <3>3 DEF Fresh
  <2>9. \A q \in ppInHand : q \in Pids \ {p} /\ ppUsed'[q] = ppUsed[q]
    BY <1>4, <2>5 DEF PpTypes
  <2>10. \A q \in ppInHand' : (Fresh(q) /\ (~ppClosed => ppProc[q] = "alive"))'
    BY <1>2, <1>5, <2>9 DEF OnePlace, Fresh
  <2>11. \A q \in Pids : ppProc'[q] = "none" => ppUsed'[q] = 0
    BY <1>4, <1>5, <2>5 DEF OnePlace, Fresh
  <2>12. \A i, j \in 1 .. Len(ppWarm') : ppWarm'[i] = ppWarm'[j] => i = j
    BY <2>3 DEF OnePlace
  <2>13. OnePlace'
    BY <1>1, <1>2, <1>4, <2>8, <2>10, <2>11, <2>12 DEF OnePlace
  <2> QED BY <2>6, <2>7, <2>13
<1>6. CASE ppWarm = << >> /\ Pool!spawn(p) /\ ppWarm' = ppWarm
  <2>1. /\ ppProc' \in [Pids -> {"none", "alive", "exited", "killed"}]
        /\ ppUnder' \in [Pids -> Nat] /\ \A q \in Pids : ppUnder'[q] = 0
        /\ ppProc[p] = "none" /\ ppProc'[p] = "alive"
        /\ \A q \in Pids \ {p} : ppProc'[q] = ppProc[q]
        /\ p \notin ppInHand
    BY <1>6, Spawned
  <2>2. PpTypes'
    BY <1>2, <1>3, <1>4, <1>6, <2>1 DEF PpTypes
  <2>3. LifeIsThePools'
    BY <1>2, <1>6, <2>1 DEF LifeIsThePools
  <2>4. \A q \in ppInHand : q \in Pids \ {p} /\ ppUsed'[q] = ppUsed[q] /\ ppProc'[q] = ppProc[q]
    BY <1>4, <2>1 DEF PpTypes
  <2>5. \A q \in ppInHand' : (Fresh(q) /\ (~ppClosed => ppProc[q] = "alive"))'
    BY <1>2, <2>4 DEF OnePlace, Fresh
  <2>6. \A q \in Pids : ppProc'[q] = "none" => ppUsed'[q] = 0
    BY <1>4, <2>1 DEF OnePlace
  <2>7. Len(ppWarm') = 0
    BY <1>6
  <2>8. OnePlace'
    BY <1>1, <1>2, <1>4, <2>5, <2>6, <2>7 DEF OnePlace
  <2> QED BY <2>2, <2>3, <2>8
<1> QED BY <1>1, <1>5, <1>6 DEF Pool!take

\* A refill spawns the replacement, or the spawn fails.
LEMMA RefillSpawnPpInv == ASSUME PpInv, Pool!refillSpawn PROVE PpInv'
<1> USE DEF PpInv
<1>1. /\ ppRefills > 0 /\ ppRefills' = ppRefills - 1
      /\ UNCHANGED <<ppWarm, ppClosed, ppLife, ppKin, ppUsed, ppPhase, ppPeer, ppExec>>
  BY DEF Pool!refillSpawn
<1>2. ppRefills' \in 0 .. ppExec'
  BY <1>1 DEF PpTypes
<1>3. CASE UNCHANGED <<ppProc, ppUnder, ppInHand>>
  BY <1>1, <1>2, <1>3 DEF PpTypes, LifeIsThePools, OnePlace, Fresh
<1>4. ASSUME NEW p \in Pids, Pool!spawn(p), ppInHand' = ppInHand \cup {p} PROVE PpInv'
  <2>1. /\ ppProc' \in [Pids -> {"none", "alive", "exited", "killed"}]
        /\ ppUnder' \in [Pids -> Nat] /\ \A q \in Pids : ppUnder'[q] = 0
        /\ ppProc[p] = "none" /\ ppProc'[p] = "alive" /\ ppUsed[p] = 0
        /\ \A q \in Pids \ {p} : ppProc'[q] = ppProc[q]
        /\ p \notin ppInHand /\ \A i \in 1 .. Len(ppWarm) : ppWarm[i] # p
    BY <1>4, Spawned
  <2>2. PpTypes'
    BY <1>1, <1>2, <1>4, <2>1 DEF PpTypes
  <2>3. LifeIsThePools'
    BY <1>1, <2>1 DEF LifeIsThePools
  <2>4. ASSUME NEW i \in 1 .. Len(ppWarm)
        PROVE  (Fresh(ppWarm[i]) /\ ppProc[ppWarm[i]] = "alive" /\ ppWarm[i] \notin ppInHand)'
    <3>1. ppWarm[i] \in Pids \ {p}
      BY <2>1 DEF PpTypes
    <3>2. Fresh(ppWarm[i]) /\ ppProc[ppWarm[i]] = "alive" /\ ppWarm[i] \notin ppInHand
      BY DEF OnePlace
    <3>3. ppProc'[ppWarm[i]] = ppProc[ppWarm[i]] /\ ppWarm[i] \notin ppInHand'
      BY <1>4, <2>1, <3>1, <3>2
    <3> QED BY <1>1, <3>2, <3>3 DEF Fresh
  <2>5. \A q \in ppInHand' : (Fresh(q) /\ (~ppClosed => ppProc[q] = "alive"))'
    BY <1>1, <1>4, <2>1 DEF PpTypes, OnePlace, Fresh
  <2>6. \A q \in Pids : ppProc'[q] = "none" => ppUsed'[q] = 0
    BY <1>1, <2>1 DEF OnePlace
  <2> QED BY <1>1, <2>2, <2>3, <2>4, <2>5, <2>6 DEF OnePlace
<1> QED BY <1>3, <1>4 DEF Pool!refillSpawn, Pids

\* A refill puts its process away, or kills it when the pool was closed meanwhile.
LEMMA RefillPpInv == ASSUME PpInv, NEW p \in Pids, Pool!refill(p) PROVE PpInv'
<1> USE DEF PpInv
<1>1. /\ p \in ppInHand /\ ppInHand' = ppInHand \ {p}
      /\ UNCHANGED <<ppClosed, ppLife, ppRefills, ppKin, ppUnder, ppUsed, ppPhase, ppPeer, ppExec>>
  BY DEF Pool!refill
<1>2. CASE ppClosed
  <2>1. Pool!Kill({p}) /\ ppWarm' = ppWarm /\ ppWarm = << >> /\ Len(ppWarm') = 0
    BY <1>2 DEF Pool!refill, LifeIsThePools
  <2>2. /\ ppProc' \in [Pids -> {"none", "alive", "exited", "killed"}]
        /\ \A q \in Pids : ppProc'[q] = "none" <=> ppProc[q] = "none"
    BY <2>1, PoolKill
  <2>3. PpTypes'
    BY <1>1, <2>1, <2>2 DEF PpTypes
  <2>4. LifeIsThePools'
    BY <1>1, <2>1 DEF LifeIsThePools
  <2>5. \A q \in ppInHand' : (Fresh(q) /\ (~ppClosed => ppProc[q] = "alive"))'
    BY <1>1, <1>2, <2>2 DEF PpTypes, OnePlace, Fresh
  <2> QED BY <1>1, <2>1, <2>2, <2>3, <2>4, <2>5 DEF OnePlace
<1>3. CASE ~ppClosed
  <2>1. ppWarm' = Append(ppWarm, p) /\ ppProc' = ppProc
    BY <1>3 DEF Pool!refill
  <2>2. /\ ppWarm' \in Seq(Pids) /\ Len(ppWarm') = Len(ppWarm) + 1
        /\ ppWarm'[Len(ppWarm) + 1] = p
        /\ \A i \in 1 .. Len(ppWarm) : ppWarm'[i] = ppWarm[i]
        /\ \A i \in 1 .. Len(ppWarm') : i \in 1 .. Len(ppWarm) \/ i = Len(ppWarm) + 1
    BY <2>1, PutAway DEF PpTypes
  <2>3. PpTypes'
    BY <1>1, <2>1, <2>2 DEF PpTypes
  <2>4. LifeIsThePools'
    BY <1>1, <1>3 DEF LifeIsThePools
  <2>5. OnePlace'
    <3>1. \A i \in 1 .. Len(ppWarm) : ppWarm[i] # p
      BY <1>1 DEF OnePlace
    <3>2. ppProc'[p] = "alive" /\ ppUsed[p] = 0
      BY <1>1, <1>3, <2>1 DEF OnePlace, Fresh
    <3>3. ppInHand' \subseteq ppInHand /\ p \notin ppInHand'
          /\ (\A q \in Pids \ {p} : ppProc'[q] = ppProc[q])
          /\ UNCHANGED <<ppUsed, ppClosed, ppPhase, ppPeer>>
      BY <1>1, <2>1
    <3> QED BY <2>2, <3>1, <3>2, <3>3, WarmerPlaces
  <2> QED BY <2>3, <2>4, <2>5
<1> QED BY <1>2, <1>3

\* The pool is closed.
LEMMA ClosePpInv == ASSUME PpInv, Pool!Close PROVE PpInv'
<1> USE DEF PpInv
<1>1. /\ Pool!Kill(Pool!Range(ppWarm)) /\ ppWarm' = << >> /\ ppPhase' = "idle"
      /\ UNCHANGED <<ppRefills, ppInHand, ppKin, ppUnder, ppUsed, ppPeer, ppExec>>
  BY DEF Pool!Close
<1>2. ppClosed' = TRUE /\ ppLife' = FALSE
  BY DEF Pool!Close
<1>3. /\ ppProc' \in [Pids -> {"none", "alive", "exited", "killed"}]
      /\ \A q \in Pids : ppProc'[q] = "none" <=> ppProc[q] = "none"
  <2>1. PICK ps : ps = Pool!Range(ppWarm)
    OBVIOUS
  <2>2. Pool!Kill(ps)
    BY <1>1, <2>1, Zenon
  <2> QED BY <2>2, PoolKill
<1>4. ppWarm' \in Seq(Pids) /\ Len(ppWarm') = 0
  BY <1>1
<1>5. ppClosed' \in BOOLEAN /\ ppLife' \in BOOLEAN /\ ppClosed' /\ ~ppLife'
  BY <1>2
<1>6. PpTypes'
  BY <1>1, <1>3, <1>4, <1>5 DEF PpTypes
<1>7. LifeIsThePools'
  BY <1>1, <1>5 DEF LifeIsThePools
<1>8. \A q \in ppInHand' : (Fresh(q) /\ (~ppClosed => ppProc[q] = "alive"))'
  BY <1>1, <1>3, <1>5 DEF PpTypes, OnePlace, Fresh
<1>9. OnePlace'
  BY <1>1, <1>3, <1>4, <1>8 DEF OnePlace
<1> QED BY <1>6, <1>7, <1>9

\* Every step keeps it.
LEMMA StepPpInv == PpInv /\ [Next]_vars => PpInv'
<1> SUFFICES ASSUME PpInv, [Next]_vars PROVE PpInv'
  OBVIOUS
<1>1. CASE Pool!Next
  BY <1>1, StartPpInv, RunPpInv, RefillSpawnPpInv, RefillPpInv, ClosePpInv, EndPpInv
     DEF Pool!Next, Pids
<1>2. CASE UNCHANGED ppVars
  BY <1>2 DEF ppVars, PpInv, PpTypes, LifeIsThePools, OnePlace, Fresh
<1> QED BY <1>1, <1>2 DEF Next, vars

\* What the pool keeps for a later input is alive and has seen none, whatever becomes of the
\* execution that asked for it.
THEOREM PoolCorrect == Spec => [](Pool!TypeOK /\ Pool!WarmIsUsable)
<1>1. PpInv => Pool!TypeOK /\ Pool!WarmIsUsable
  <2> SUFFICES ASSUME PpInv PROVE Pool!TypeOK /\ Pool!WarmIsUsable
    OBVIOUS
  <2>1. ppRefills \in 0 .. PoolExecs
    BY ExecAssumption DEF PpInv, PpTypes
  <2>2. Pool!TypeOK
    BY <2>1 DEF PpInv, PpTypes, Pids, Pool!TypeOK
  <2>3. ASSUME NEW p \in Pool!Range(ppWarm) PROVE ppProc[p] = "alive" /\ ppUsed[p] = 0
    <3>1. PICK i \in DOMAIN ppWarm : p = ppWarm[i]
      BY DEF Pool!Range
    <3>2. i \in 1 .. Len(ppWarm)
      BY DEF PpInv, PpTypes
    <3> QED BY <3>1, <3>2 DEF PpInv, OnePlace, Fresh
  <2> QED BY <2>2, <2>3 DEF Pool!WarmIsUsable
<1> QED BY <1>1, InitPpInv, StepPpInv, PTL DEF Spec

\* The verdict of an execution is its own, a running fork server is never lost, and the
\* processes kept warm can be used.
THEOREM ExecutorsCorrect == Spec => []ForkIsSound
<1>1. Fork!TypeOK /\ Fork!VerdictIsOwn /\ Fork!ServerIsOwned
      /\ Pool!TypeOK /\ Pool!WarmIsUsable => ForkIsSound
  BY DEF ForkIsSound
<1> QED BY <1>1, ForkServerCorrect, PoolCorrect, PTL
-----------------------------------------------------------------------------
(* Which request an answer is for (ApiSession).                              *)

ApTypes ==
    /\ apKeep \in BOOLEAN /\ apReused \in BOOLEAN
    /\ apPhase \in {"loop", "connect", "reconnect", "write", "read", "done"}
    /\ apNext \in 1 .. ApRequests + 1
    /\ apConn \in {"none", "open", "closed"}
    /\ apAsked \subseteq Api!Requests /\ apIn \in Seq(Api!Requests \cup {0})
    /\ apTwice \subseteq Api!Requests
    /\ apTries \in [Api!Requests -> Nat] /\ apUsed \in [Api!Requests -> SUBSET Nat]
    /\ apCarried \subseteq 1 .. apNext - 1
    /\ apVerdict \in {"none", "ok", "timeout", "crash", "error"}

\* A request before this one, or this one, was answered twice.
Shifted(r) == \E t \in apTwice : t <= r

\* What there is on the connection belongs to requests that were sent, and to an earlier one
\* only when one was answered twice.
OnTheWire ==
    /\ \A r \in apAsked : r <= apNext /\ (r < apNext => apKeep /\ Shifted(r))
    /\ \A i \in 1 .. Len(apIn) :
          apIn[i] <= apNext /\ (apIn[i] # 0 /\ apIn[i] < apNext => apKeep /\ Shifted(apIn[i]))
    /\ apPhase # "read" =>
          /\ \A r \in apAsked : r < apNext
          /\ \A i \in 1 .. Len(apIn) : apIn[i] < apNext

\* What the request that is waiting may still get is one answer, or more that count as left
\* over.
OneAnswer ==
    apNext \notin apTwice =>
        /\ apNext \in apAsked => \A i \in 1 .. Len(apIn) : apIn[i] # apNext
        /\ \A i, j \in 1 .. Len(apIn) : apIn[i] = apNext /\ apIn[j] = apNext => i = j

\* What was taken for the answers.
Taken ==
    /\ apAnswers \in Seq(Api!Requests) /\ Len(apAnswers) = apNext - 1
    /\ \A i \in 1 .. Len(apAnswers) :
          apAnswers[i] = i \/ (apKeep /\ apAnswers[i] < i /\ Shifted(apAnswers[i]))

\* A connection that is used again has carried an earlier request.
UsedAgain ==
    /\ apPhase \in {"connect", "reconnect", "write", "read"} => apNext <= ApRequests
    /\ apPhase = "loop" /\ apNext = 1 => apConn = "none"
    /\ apPhase \in {"reconnect", "write", "read"} /\ apReused => apKeep /\ apNext > 1
    /\ apPhase = "reconnect" => apReused

\* How often a request was sent.
Most(r) == IF apKeep /\ r > 1 THEN 2 ELSE 1
SentAtMost ==
    /\ \A r \in Api!Requests : apTries[r] <= Most(r)
    /\ \A r \in Api!Requests : r > apNext => apTries[r] = 0
    /\ apPhase \in {"loop", "connect"} /\ apNext <= ApRequests => apTries[apNext] = 0
    /\ apPhase = "reconnect" => apTries[apNext] <= 1
    /\ apPhase = "write" => apTries[apNext] < Most(apNext) /\ (apReused => apTries[apNext] = 0)
    /\ apPhase = "read" /\ apReused => apTries[apNext] <= 1

\* How the session ended, and what its requests carried.
EndedBy ==
    /\ apVerdict # "none" => apPhase = "done"
    /\ apVerdict = "crash" => apFresh
    /\ apVerdict = "ok" => apNext = ApRequests + 1
    /\ \A r \in Api!Requests : apUsed[r] \subseteq 1 .. r - 1

ApInv == part = "api" => ApTypes /\ OnTheWire /\ OneAnswer /\ Taken /\ UsedAgain /\ SentAtMost /\ EndedBy

-----------------------------------------------------------------------------
(* Which input an execution is judged by (Tiers).                            *)

TiTypes ==
    /\ tiKind \in Ti!Kinds /\ tiDelivery \in Ti!Deliveries
    /\ tiPhase \in {"idle", "prepare", "arm", "execute", "wait", "closed"}
    /\ tiDir \in {"none", "given", "own", "removed"}
    /\ tiRun \in 0 .. TiRuns
    /\ tiDone \in [1 .. TiRuns -> {"none", "ok", "crash"}]
    /\ tiCalls \cup tiMap \cup tiBeside \subseteq 1 .. tiRun
    /\ tiPhase \notin {"idle", "closed"} => tiVerdict = Ti!NoVerdict
    /\ tiPhase \in {"prepare", "arm", "execute", "wait"} => tiRun > 0
    /\ tiPhase = "wait" => tiKind = "inproc"
    /\ tiPhase = "prepare" => tiKind # "inproc"

\* The target and the observer have this input.
InputIsOwn ==
    /\ tiTarget \in {0, tiRun}
    /\ tiPhase = "wait" => tiTarget = tiRun
    /\ tiPhase \in {"execute", "wait"} => tiInput = tiRun
    /\ tiPhase \in {"arm", "execute"} /\ tiKind # "inproc" /\ tiDelivery = "file" => tiFile = tiRun
    /\ tiPhase = "closed" => tiDir # "own"

\* A call that runs has sent nothing; it is that of this execution, or was at work when it began.
CallsAreKnown ==
    /\ \A n \in tiCalls : tiDone[n] = "none" /\ n \in {tiRun} \cup tiBeside
    /\ \A n \in 1 .. TiRuns : n > tiRun \/ (n = tiRun /\ tiPhase \in {"prepare", "arm", "execute"})
           => tiDone[n] = "none"
    /\ tiPhase \in {"prepare", "arm", "execute"} => tiRun \notin tiCalls

\* Nothing else writes coverage, or a panic, between arming and the verdict.
Undisturbed ==
    /\ tiPhase \in {"execute", "wait"} => tiMap \subseteq {tiRun} \cup tiBeside
    /\ tiPhase = "wait" => /\ tiPanic \in {0, tiRun} \cup tiBeside
                           /\ tiDone[tiRun] = "crash" => tiPanic \in {tiRun} \cup tiBeside

\* What was returned.
Judged ==
    tiVerdict.kind \in {"ok", "crash"} =>
        /\ tiTarget = tiRun /\ tiInput = tiRun /\ tiRun > 0
        /\ tiKind = "inproc" => tiDone[tiRun] = tiVerdict.kind
        /\ tiVerdict.map \subseteq {tiRun} \cup tiBeside
        /\ tiVerdict.panic \in {0, tiRun} \cup tiBeside
        /\ tiVerdict.kind = "crash" /\ tiKind = "inproc" => tiVerdict.panic \in {tiRun} \cup tiBeside

TiInv == part = "tiers" => TiTypes /\ InputIsOwn /\ CallsAreKnown /\ Undisturbed /\ Judged

\* What an exchange leaves on the connection was there before, behind the answer.
LEMMA Left ==
    ASSUME NEW in \in Seq(Nat), in # << >>, NEW rest \in Api!leftOf(in)
    PROVE  /\ rest \in Seq(Nat)
           /\ \A i \in 1 .. Len(rest) : rest[i] = 0 \/ \E j \in 2 .. Len(in) : rest[i] = in[j]
<1>1. Len(in) \in Nat /\ Len(in) > 0
  BY EmptySeq
<1>2. PICK k \in 2 .. Len(in) + 1 :
          rest = SubSeq(in, k, Len(in)) \/ rest = <<0>> \o SubSeq(in, k, Len(in))
  BY DEF Api!leftOf, Api!Cut
<1> DEFINE tail == SubSeq(in, k, Len(in))
<1>3. /\ tail \in Seq(Nat) /\ Len(tail) = Len(in) - k + 1
      /\ \A i \in 1 .. Len(tail) : tail[i] = in[k + i - 1]
  <2>1. k \in Int /\ Len(in) \in Int /\ \A i \in k .. Len(in) : in[i] \in Nat
    BY <1>1, <1>2
  <2>2. /\ SubSeq(in, k, Len(in)) \in Seq(Nat)
        /\ Len(SubSeq(in, k, Len(in))) = IF k <= Len(in) THEN Len(in) - k + 1 ELSE 0
        /\ \A i \in 1 .. Len(in) - k + 1 : SubSeq(in, k, Len(in))[i] = in[k + i - 1]
    BY <2>1, SubSeqProperties
  <2> QED BY <1>1, <1>2, <2>2
<1>4. \A i \in 1 .. Len(tail) : \E j \in 2 .. Len(in) : tail[i] = in[j]
  BY <1>1, <1>2, <1>3
<1> HIDE DEF tail
<1>5. CASE rest = tail
  BY <1>3, <1>4, <1>5
<1>6. CASE rest = <<0>> \o tail
  <2>1. /\ rest \in Seq(Nat) /\ Len(rest) = Len(tail) + 1 /\ rest[1] = 0
        /\ \A i \in 2 .. Len(rest) : rest[i] = tail[i - 1]
    <3>1. <<0>> \in Seq(Nat) /\ Len(<<0>>) = 1 /\ <<0>>[1] = 0
      OBVIOUS
    <3>2. Len(tail) \in Nat
      BY <1>1, <1>2, <1>3
    <3>3. /\ <<0>> \o tail \in Seq(Nat) /\ Len(<<0>> \o tail) = 1 + Len(tail)
          /\ \A i \in 1 .. 1 + Len(tail) : (<<0>> \o tail)[i] = IF i <= 1 THEN <<0>>[i] ELSE tail[i - 1]
      <4>1. ASSUME NEW u \in Seq(Nat), NEW v \in Seq(Nat), Len(u) = 1
            PROVE  /\ u \o v \in Seq(Nat) /\ Len(u \o v) = 1 + Len(v)
                   /\ \A i \in 1 .. 1 + Len(v) : (u \o v)[i] = IF i <= 1 THEN u[i] ELSE v[i - 1]
        <5>1. /\ u \o v \in Seq(Nat) /\ Len(u \o v) = Len(u) + Len(v)
              /\ \A i \in 1 .. Len(u) + Len(v) : (u \o v)[i] =
                    IF i <= Len(u) THEN u[i] ELSE v[i - Len(u)]
          BY ONLY u \in Seq(Nat), v \in Seq(Nat), ConcatProperties, Zenon
        <5> QED BY <4>1, <5>1, Zenon
      <4> QED BY <1>3, <3>1, <4>1
    <3> QED BY <1>6, <3>1, <3>2, <3>3
  <2>2. \A i \in 2 .. Len(rest) : i - 1 \in 1 .. Len(tail)
    BY <1>3, <2>1
  <2>3. ASSUME NEW i \in 1 .. Len(rest), i # 1 PROVE \E j \in 2 .. Len(in) : rest[i] = in[j]
    <3>1. i \in 2 .. Len(rest)
      BY <2>3
    <3>2. PICK j \in 2 .. Len(in) : tail[i - 1] = in[j]
      BY <1>4, <2>2, <3>1
    <3> QED BY <2>1, <3>1, <3>2
  <2> QED BY <2>1, <2>3
<1> QED BY <1>2, <1>5, <1>6 DEF tail

LEMMA InitApInv == Init => ApInv
<1> SUFFICES ASSUME Init, part = "api" PROVE ApInv
  BY DEF ApInv
<1>1. Api!Init /\ ApRequests \in Nat
  BY ExecAssumption DEF Init
<1>2. ApTypes
  <2>1. /\ apTries = [r \in Api!Requests |-> 0] /\ apUsed = [r \in Api!Requests |-> {}]
        /\ apIn = << >> /\ apNext = 1 /\ apCarried = {}
    BY <1>1 DEF Api!Init
  <2>2. apTries \in [Api!Requests -> Nat] /\ apUsed \in [Api!Requests -> SUBSET Nat]
    BY <2>1
  <2>3. apIn \in Seq(Api!Requests \cup {0})
    BY <2>1
  <2>4. apNext \in 1 .. ApRequests + 1 /\ apCarried \subseteq 1 .. apNext - 1
    BY <1>1, <2>1
  <2> QED BY <1>1, <2>2, <2>3, <2>4 DEF Api!Init, ApTypes
<1>3. UsedAgain
  BY <1>1 DEF Api!Init, UsedAgain
<1>6. OnTheWire /\ OneAnswer /\ Taken
  <2>1. apIn = << >> /\ apAsked = {} /\ apAnswers = << >> /\ apNext = 1
    BY <1>1 DEF Api!Init
  <2>2. Len(apIn) = 0 /\ Len(apAnswers) = 0 /\ apAnswers \in Seq(Api!Requests)
    BY <2>1
  <2> QED BY <2>1, <2>2 DEF OnTheWire, OneAnswer, Taken
<1>4. SentAtMost
  BY <1>1 DEF Api!Init, SentAtMost, Api!Requests, Most
<1>5. EndedBy
  BY <1>1 DEF Api!Init, EndedBy, Api!Requests
<1> QED BY <1>2, <1>3, <1>4, <1>5, <1>6 DEF ApInv

\* Nothing is left on a connection that is closed, or not made yet.
LEMMA EmptyWire ==
    ASSUME ApInv, part = "api", apAsked' = {}, apIn' = << >>,
           UNCHANGED <<apKeep, apNext, apTwice, apAnswers>>
    PROVE  OnTheWire' /\ OneAnswer' /\ Taken' /\ apIn' \in Seq(Api!Requests \cup {0})
           /\ apAsked' \subseteq Api!Requests /\ apTwice' \subseteq Api!Requests
<1>1. Len(apIn') = 0 /\ apIn' \in Seq(Api!Requests \cup {0})
  OBVIOUS
<1>2. Taken /\ apTwice \subseteq Api!Requests
  BY DEF ApInv, ApTypes
<1>3. Taken'
  BY <1>2 DEF Taken, Shifted
<1> QED BY <1>1, <1>2, <1>3 DEF OnTheWire, OneAnswer

\* The numbers on the connection.
LEMMA OnTheWireAreNumbers ==
    ASSUME ApInv, part = "api"
    PROVE  /\ apNext \in Nat /\ apNext > 0 /\ Api!Requests \subseteq Nat
           /\ apIn \in Seq(Nat) /\ Len(apIn) \in Nat
           /\ \A i \in 1 .. Len(apIn) : apIn[i] \in Api!Requests \cup {0} /\ apIn[i] \in Nat
<1>1. ApRequests \in Nat /\ apNext \in 1 .. ApRequests + 1
  BY ExecAssumption DEF ApInv, ApTypes
<1>2. Api!Requests \subseteq Nat /\ 0 \in Nat
  BY DEF Api!Requests
<1>3. apIn \in Seq(Api!Requests \cup {0})
  BY DEF ApInv, ApTypes
<1>4. \A i \in 1 .. Len(apIn) : apIn[i] \in Api!Requests \cup {0}
  BY <1>3
<1>5. apIn \in Seq(Nat)
  <2>1. apIn = [i \in 1 .. Len(apIn) |-> apIn[i]] /\ Len(apIn) \in Nat
    BY <1>3
  <2> QED BY <1>2, <1>4, <2>1
<1> QED BY <1>1, <1>2, <1>3, <1>4, <1>5

\* The service and the clock.
LEMMA ServiceApInv ==
    ASSUME ApInv, part = "api", part' = part, Api!reply \/ Api!hangup \/ Api!die \/ Api!expire
    PROVE  ApInv'
<1> USE DEF ApInv, Api!connVars, Api!bookVars
<1>1. CASE Api!reply
  <2>1. PICK r \in apAsked :
            /\ apIn' = Append(apIn, r)
            /\ \/ apAsked' = apAsked \ {r} /\ apTwice' = apTwice
               \/ apTwice' = apTwice \cup {r} /\ apAsked' = apAsked
    BY <1>1 DEF Api!reply
  <2>2. UNCHANGED <<apKeep, apPhase, apNext, apConn, apReused, apTries, apAnswers, apCarried,
                    apUsed, apFresh, apVerdict>>
    BY <1>1 DEF Api!reply
  <2>3. /\ r \in Api!Requests /\ r \in Nat /\ apNext \in Nat /\ Len(apIn) \in Nat
        /\ apIn \in Seq(Api!Requests \cup {0})
    BY <2>1, OnTheWireAreNumbers DEF ApTypes
  <2>4. /\ apIn' \in Seq(Api!Requests \cup {0}) /\ Len(apIn') = Len(apIn) + 1
        /\ apIn'[Len(apIn) + 1] = r
        /\ \A i \in 1 .. Len(apIn) : apIn'[i] = apIn[i]
    BY <2>1, <2>3
  <2>5. \A i \in 1 .. Len(apIn') : (i = Len(apIn) + 1 /\ apIn'[i] = r)
                                   \/ (i \in 1 .. Len(apIn) /\ apIn'[i] = apIn[i])
    BY <2>3, <2>4
  <2>6. apAsked' \subseteq apAsked /\ apTwice \subseteq apTwice' /\ apTwice' \subseteq Api!Requests
        /\ \A q : Shifted(q) => Shifted(q)'
    BY <2>1, <2>3 DEF ApTypes, Shifted
  <2>7. ApTypes'
    BY <2>2, <2>4, <2>6 DEF ApTypes
  <2>8. OnTheWire'
    <3>1. r <= apNext /\ (r < apNext => apKeep /\ Shifted(r)) /\ (apPhase # "read" => r < apNext)
      BY DEF OnTheWire
    <3>2. \A q \in apAsked' : q <= apNext /\ (q < apNext => apKeep /\ Shifted(q)')
                             /\ (apPhase # "read" => q < apNext)
      BY <2>6 DEF OnTheWire
    <3>3. ASSUME NEW i \in 1 .. Len(apIn')
          PROVE  /\ apIn'[i] <= apNext /\ (apPhase # "read" => apIn'[i] < apNext)
                 /\ (apIn'[i] # 0 /\ apIn'[i] < apNext => apKeep /\ \E t \in apTwice' : t <= apIn'[i])
      <4>1. CASE apIn'[i] = r
        <5>1. Shifted(r) => \E t \in apTwice' : t <= apIn'[i]
          BY <2>6, <4>1 DEF Shifted
        <5> QED BY <3>1, <4>1, <5>1
      <4>2. CASE i \in 1 .. Len(apIn) /\ apIn'[i] = apIn[i]
        <5>1. Shifted(apIn[i]) => \E t \in apTwice' : t <= apIn'[i]
          BY <2>6, <4>2 DEF Shifted
        <5>2. /\ apIn[i] <= apNext /\ (apPhase # "read" => apIn[i] < apNext)
              /\ (apIn[i] # 0 /\ apIn[i] < apNext => apKeep /\ Shifted(apIn[i]))
          BY <4>2 DEF OnTheWire
        <5> QED BY <4>2, <5>1, <5>2
      <4> QED BY <2>5, <4>1, <4>2
    <3> QED BY <2>2, <3>2, <3>3 DEF OnTheWire, Shifted
  <2>9. OneAnswer'
    <3> SUFFICES ASSUME apNext \notin apTwice'
                 PROVE  /\ apNext \in apAsked' => \A i \in 1 .. Len(apIn') : apIn'[i] # apNext
                        /\ \A i, j \in 1 .. Len(apIn') :
                              apIn'[i] = apNext /\ apIn'[j] = apNext => i = j
      BY <2>2 DEF OneAnswer
    <3>1. /\ apNext \in apAsked => \A i \in 1 .. Len(apIn) : apIn[i] # apNext
          /\ \A i, j \in 1 .. Len(apIn) : apIn[i] = apNext /\ apIn[j] = apNext => i = j
      BY <2>6 DEF OneAnswer
    <3>2. CASE r = apNext
      <4>1. apNext \notin apAsked' /\ \A i \in 1 .. Len(apIn) : apIn[i] # apNext
        BY <2>1, <3>1, <3>2
      <4> QED BY <2>5, <4>1
    <3>3. CASE r # apNext
      BY <2>5, <2>6, <3>1, <3>3
    <3> QED BY <3>2, <3>3
  <2>10. Taken'
    BY <2>2, <2>6 DEF Taken, Shifted
  <2> QED BY <2>2, <2>7, <2>8, <2>9, <2>10 DEF UsedAgain, SentAtMost, EndedBy, Most
<1>2. CASE Api!hangup \/ Api!die \/ Api!expire
  <2>1. UNCHANGED <<apKeep, apPhase, apNext, apAsked, apIn, apTwice, apReused, apTries, apAnswers,
                    apCarried, apUsed, apFresh, apVerdict>>
    BY <1>2 DEF Api!hangup, Api!die, Api!expire
  <2>2. apConn' = apConn \/ (apConn = "open" /\ apConn' = "closed")
    BY <1>2 DEF Api!hangup, Api!die, Api!expire
  <2>3. ApTypes'
    BY <2>1, <2>2 DEF ApTypes
  <2>5. OnTheWire' /\ OneAnswer' /\ Taken'
    BY <2>1 DEF OnTheWire, OneAnswer, Taken, Shifted
  <2>4. UsedAgain'
    BY <2>1, <2>2 DEF UsedAgain
  <2> QED BY <2>1, <2>3, <2>4, <2>5 DEF SentAtMost, EndedBy, Most
<1> QED BY <1>1, <1>2

\* The next request, with the values it carries.
LEMMA PrepareApInv == ASSUME ApInv, part = "api", part' = part, Api!prepare PROVE ApInv'
<1> USE DEF ApInv, Api!connVars, Api!bookVars
<1>0. ApRequests \in Nat /\ apNext \in Api!Requests
  BY ExecAssumption DEF Api!prepare, ApTypes, Api!Requests
<1>1. /\ apPhase = "loop"
      /\ apUsed' = [apUsed EXCEPT ![apNext] = {f \in apCarried : <<f, apNext>> \in ApLinks}]
      /\ apPhase' \in {"connect", "write"}
      /\ UNCHANGED <<apKeep, apNext, apConn, apAsked, apIn, apTwice, apTries, apAnswers, apCarried,
                     apFresh, apVerdict>>
  BY DEF Api!prepare
<1>2. apReused' \in BOOLEAN /\ (apReused' => apKeep /\ apConn # "none")
  BY DEF Api!prepare, ApTypes
<1>3. apUsed' \in [Api!Requests -> SUBSET Nat]
      /\ \A r \in Api!Requests : apUsed'[r] \subseteq 1 .. r - 1
  BY <1>0, <1>1 DEF ApTypes, EndedBy
<1>4. ApTypes'
  BY <1>1, <1>2, <1>3 DEF ApTypes
<1>5. OnTheWire' /\ OneAnswer' /\ Taken'
  BY <1>1 DEF OnTheWire, OneAnswer, Taken, Shifted
<1>6. UsedAgain'
  BY <1>0, <1>1, <1>2 DEF UsedAgain, ApTypes, Api!Requests
<1>7. SentAtMost'
  BY <1>0, <1>1 DEF SentAtMost, Most, Api!Requests
<1>8. EndedBy'
  BY <1>1, <1>3 DEF EndedBy
<1> QED BY <1>4, <1>5, <1>6, <1>7, <1>8

\* A connection of its own.
LEMMA ConnectApInv == ASSUME ApInv, part = "api", part' = part, Api!connect PROVE ApInv'
<1> USE DEF ApInv, Api!connVars, Api!bookVars
<1>1. /\ apPhase \in {"connect", "reconnect"}
      /\ apAsked' = {} /\ apIn' = << >> /\ apConn' \in {"none", "open"}
      /\ UNCHANGED <<apKeep, apNext, apTwice, apTries, apAnswers, apCarried, apUsed, apFresh>>
  BY DEF Api!connect
<1>2. \/ apPhase' = "write" /\ apReused' = FALSE /\ apVerdict' = apVerdict
      \/ apPhase' = "done" /\ apReused' = apReused /\ apVerdict' = "error"
  BY DEF Api!connect, Api!finish
<1>3. apReused' \in BOOLEAN /\ (apPhase' = "write" => ~apReused')
  BY <1>2 DEF ApTypes
<1>4. apNext \in Api!Requests
  BY <1>1, ExecAssumption DEF ApTypes, UsedAgain, Api!Requests
<1>6. OnTheWire' /\ OneAnswer' /\ Taken' /\ apIn' \in Seq(Api!Requests \cup {0})
      /\ apAsked' \subseteq Api!Requests /\ apTwice' \subseteq Api!Requests
  BY <1>1, EmptyWire
<1>5. ApTypes'
  BY <1>1, <1>2, <1>3, <1>6 DEF ApTypes
<1>7. UsedAgain'
  BY <1>1, <1>2, <1>3 DEF UsedAgain
<1>8. SentAtMost'
  <2>1. apTries[apNext] \in Nat /\ (apPhase = "connect" => apTries[apNext] = 0)
    BY <1>4 DEF SentAtMost, ApTypes, Api!Requests
  <2>2. apPhase = "reconnect" => apTries[apNext] <= 1 /\ Most(apNext) = 2
    BY <1>4 DEF SentAtMost, UsedAgain, Most
  <2>3. apTries[apNext] < Most(apNext)
    BY <1>1, <2>1, <2>2 DEF Most
  <2> QED BY <1>1, <1>2, <1>3, <2>3 DEF SentAtMost, Most
<1>9. EndedBy'
  BY <1>1, <1>2 DEF EndedBy
<1> QED BY <1>5, <1>6, <1>7, <1>8, <1>9

\* While a request is under way its number is that of a request.
LEMMA Underway ==
    ASSUME ApInv, part = "api", apPhase \in {"connect", "reconnect", "write", "read"}
    PROVE  /\ apNext \in Api!Requests /\ apNext \in Nat /\ apNext > 0 /\ ApRequests \in Nat
           /\ apNext + 1 \in 1 .. ApRequests + 1
<1>1. ApRequests \in Nat
  BY ExecAssumption
<1>2. apNext \in 1 .. ApRequests + 1 /\ apNext <= ApRequests
  BY DEF ApInv, ApTypes, UsedAgain
<1> QED BY ONLY <1>1, <1>2 DEF Api!Requests

\* A request is on its way.
LEMMA ExchangeApInv == ASSUME ApInv, part = "api", part' = part, Api!exchange PROVE ApInv'
<1> USE DEF ApInv, Api!connVars, Api!bookVars
<1>1. /\ apPhase = "write" /\ apPhase' = "read"
      /\ apTries' = [apTries EXCEPT ![apNext] = @ + 1]
      /\ apAsked' \in {apAsked, apAsked \cup {apNext}}
      /\ UNCHANGED <<apKeep, apNext, apConn, apReused, apIn, apTwice, apAnswers, apCarried, apUsed,
                     apFresh, apVerdict>>
  BY DEF Api!exchange
<1>2. apNext \in Api!Requests /\ apNext \in Nat
  BY <1>1, Underway
<1>3. apTries' \in [Api!Requests -> Nat] /\ apTries'[apNext] = apTries[apNext] + 1
      /\ \A r \in Api!Requests : r # apNext => apTries'[r] = apTries[r]
  BY <1>1, <1>2 DEF ApTypes
<1>4. ApTypes'
  BY <1>1, <1>2, <1>3 DEF ApTypes
<1>5. OnTheWire' /\ OneAnswer' /\ Taken'
  <2>1. /\ \A r \in apAsked : r < apNext
        /\ \A i \in 1 .. Len(apIn) : apIn[i] < apNext /\ apIn[i] # apNext
    BY <1>1, <1>2, OnTheWireAreNumbers DEF OnTheWire
  <2>2. \A r \in apAsked' : r <= apNext /\ (r < apNext => apKeep /\ Shifted(r))
    BY <1>1, <1>2 DEF OnTheWire
  <2>3. OnTheWire'
    BY <1>1, <2>2 DEF OnTheWire, Shifted
  <2>4. OneAnswer'
    BY <1>1, <2>1 DEF OneAnswer
  <2>5. Taken'
    BY <1>1 DEF Taken, Shifted
  <2> QED BY <2>3, <2>4, <2>5
<1>6. UsedAgain'
  BY <1>1 DEF UsedAgain
<1>7. SentAtMost'
  <2>1. \A r \in Api!Requests : apTries[r] \in Nat /\ r \in Nat /\ Most(r) \in {1, 2}
    BY DEF ApTypes, Most, Api!Requests
  <2>2. apTries'[apNext] <= Most(apNext) /\ (apReused => apTries'[apNext] <= 1)
    BY <1>1, <1>2, <1>3, <2>1 DEF SentAtMost
  <2>3. \A r \in Api!Requests : apTries'[r] <= Most(r) /\ (r > apNext => apTries'[r] = 0)
    BY <1>2, <1>3, <2>1, <2>2 DEF SentAtMost
  <2> QED BY <1>1, <2>2, <2>3 DEF SentAtMost, Most
<1>8. EndedBy'
  BY <1>1 DEF EndedBy
<1> QED BY <1>4, <1>5, <1>6, <1>7, <1>8

\* An answer is taken for that of the request that is waiting.
LEMMA AnsweredApInv == ASSUME ApInv, part = "api", part' = part, Api!answered PROVE ApInv'
<1> USE DEF ApInv, Api!connVars, Api!bookVars
<1>1. /\ apPhase = "read" /\ apPhase' = "loop" /\ apIn # << >> /\ Head(apIn) # 0
      /\ apAnswers' = Append(apAnswers, Head(apIn)) /\ apNext' = apNext + 1
      /\ apCarried' \subseteq apCarried \cup {apNext}
      /\ UNCHANGED <<apKeep, apReused, apTwice, apTries, apUsed, apFresh, apVerdict>>
  BY DEF Api!answered, Api!Cut
<1>2. apNext \in Api!Requests /\ apNext \in Nat /\ apNext > 0 /\ ApRequests \in Nat
      /\ apNext + 1 \in 1 .. ApRequests + 1
  BY <1>1, Underway
<1>3. /\ Len(apIn) \in Nat /\ Len(apIn) > 0 /\ 1 \in 1 .. Len(apIn) /\ Head(apIn) = apIn[1]
      /\ apIn[1] \in Api!Requests /\ apIn[1] \in Nat
      /\ apIn[1] <= apNext /\ (apIn[1] < apNext => apKeep /\ Shifted(apIn[1]))
  <2>1. apIn \in Seq(Nat) /\ Len(apIn) \in Nat
    BY OnTheWireAreNumbers
  <2>2. Len(apIn) > 0 /\ 1 \in 1 .. Len(apIn) /\ Head(apIn) = apIn[1]
    BY <1>1, <2>1, EmptySeq
  <2> QED BY <1>1, <2>1, <2>2, OnTheWireAreNumbers DEF OnTheWire
<1>4. /\ apConn' \in {"none", apConn}
      /\ \/ apKeep /\ apIn' \in Api!leftOf(apIn) /\ apAsked' = apAsked
         \/ apIn' = << >> /\ apAsked' = {}
  BY DEF Api!answered
\* What is left of the request that was waiting is there because it was answered twice, or
\* one before it was.
<1>5. ASSUME apNext \in apAsked \/ \E j \in 2 .. Len(apIn) : apIn[j] = apNext
      PROVE  Shifted(apNext)
  <2>1. CASE apIn[1] < apNext
    <3>1. PICK t \in apTwice : t <= apIn[1]
      BY <1>3, <2>1 DEF Shifted
    <3>2. t \in Nat
      BY <3>1, OnTheWireAreNumbers DEF ApTypes
    <3> QED BY <1>2, <1>3, <2>1, <3>1, <3>2 DEF Shifted
  <2>2. CASE apIn[1] = apNext
    <3>1. apNext \in apTwice
      BY <1>3, <1>5, <2>2 DEF OneAnswer
    <3> QED BY <1>2, <3>1 DEF Shifted
  <2> QED BY <1>2, <1>3, <2>1, <2>2
<1>12. OnTheWire' /\ OneAnswer' /\ apIn' \in Seq(Api!Requests \cup {0}) /\ apAsked' \subseteq Api!Requests
  <2>1. CASE apIn' = << >> /\ apAsked' = {}
    <3>1. Len(apIn') = 0 /\ apIn' \in Seq(Api!Requests \cup {0})
      BY <2>1
    <3> QED BY <2>1, <3>1 DEF OnTheWire, OneAnswer
  <2>2. CASE apKeep /\ apIn' \in Api!leftOf(apIn) /\ apAsked' = apAsked
    <3>1. /\ apIn' \in Seq(Nat)
          /\ \A i \in 1 .. Len(apIn') : apIn'[i] = 0 \/ \E j \in 2 .. Len(apIn) : apIn'[i] = apIn[j]
      BY <1>1, <2>2, Left, OnTheWireAreNumbers
    <3>2. \A r \in apAsked : r \in Nat /\ r <= apNext /\ (r < apNext => Shifted(r))
      BY OnTheWireAreNumbers DEF OnTheWire, ApTypes
    <3>3. \A r \in apAsked : r < apNext + 1 /\ r <= apNext + 1 /\ Shifted(r) /\ r # apNext + 1
      BY <1>2, <1>5, <3>2
    <3>4. ASSUME NEW i \in 1 .. Len(apIn')
          PROVE  /\ apIn'[i] \in Api!Requests \cup {0} /\ apIn'[i] <= apNext + 1
                 /\ apIn'[i] < apNext + 1 /\ apIn'[i] # apNext + 1
                 /\ apIn'[i] # 0 => Shifted(apIn'[i])
      <4>1. CASE apIn'[i] = 0
        BY <1>2, <4>1
      <4>2. CASE apIn'[i] # 0
        <5>1. PICK j \in 2 .. Len(apIn) : apIn'[i] = apIn[j]
          BY <3>1, <4>2
        <5>2. j \in 1 .. Len(apIn)
          BY <1>3
        <5>3. /\ apIn[j] \in Api!Requests \cup {0} /\ apIn[j] \in Nat /\ apIn[j] <= apNext
              /\ (apIn[j] # 0 /\ apIn[j] < apNext => Shifted(apIn[j]))
          BY <5>2, OnTheWireAreNumbers DEF OnTheWire
        <5>4. apIn[j] = apNext => Shifted(apNext)
          BY <1>5
        <5>5. Shifted(apIn[j])
          BY <1>2, <4>2, <5>1, <5>3, <5>4
        <5> QED BY <1>2, <5>1, <5>3, <5>5
      <4> QED BY <4>1, <4>2
    <3>5. OnTheWire' /\ OneAnswer'
      BY <1>1, <2>2, <3>3, <3>4 DEF OnTheWire, OneAnswer, Shifted
    <3>6. apIn' \in Seq(Api!Requests \cup {0})
      <4>1. apIn' = [i \in 1 .. Len(apIn') |-> apIn'[i]] /\ Len(apIn') \in Nat
        BY <3>1
      <4> QED BY <3>4, <4>1
    <3> QED BY <2>2, <3>5, <3>6 DEF ApTypes
  <2> QED BY <1>4, <2>1, <2>2
<1>13. Taken'
  <2>1. /\ apAnswers \in Seq(Api!Requests) /\ Len(apAnswers) = apNext - 1
        /\ \A i \in 1 .. Len(apAnswers) :
              apAnswers[i] = i \/ (apKeep /\ apAnswers[i] < i /\ Shifted(apAnswers[i]))
    BY DEF Taken
  <2>2. /\ apAnswers' \in Seq(Api!Requests) /\ Len(apAnswers') = apNext
        /\ apAnswers'[apNext] = apIn[1]
        /\ \A i \in 1 .. apNext - 1 : apAnswers'[i] = apAnswers[i]
    BY <1>1, <1>2, <1>3, <2>1
  <2>3. ASSUME NEW i \in 1 .. apNext
        PROVE  apAnswers'[i] = i \/ (apKeep /\ apAnswers'[i] < i /\ Shifted(apAnswers'[i]))
    <3>1. CASE i = apNext
      <4>1. apAnswers'[i] = apIn[1]
        BY <2>2, <3>1
      <4> QED BY <1>2, <1>3, <3>1, <4>1
    <3>2. CASE i \in 1 .. apNext - 1
      <4>1. apAnswers'[i] = apAnswers[i]
        BY <2>2, <3>2
      <4>2. apAnswers[i] = i \/ (apKeep /\ apAnswers[i] < i /\ Shifted(apAnswers[i]))
        BY <2>1, <3>2
      <4> QED BY <4>1, <4>2
    <3> QED BY <1>2, <3>1, <3>2
  <2> QED BY <1>1, <1>2, <2>2, <2>3 DEF Taken, Shifted
<1>6. apCarried' \subseteq 1 .. apNext' - 1
  BY <1>1, <1>2 DEF ApTypes
<1>7. ApTypes'
  <2>1. apNext' \in 1 .. ApRequests + 1
    BY <1>1, <1>2
  <2>2. apConn' \in {"none", "open", "closed"}
    BY <1>4 DEF ApTypes
  <2> QED BY <1>1, <1>6, <1>12, <2>1, <2>2 DEF ApTypes
<1>9. UsedAgain'
  BY <1>1, <1>2 DEF UsedAgain
<1>10. SentAtMost'
  <2>1. \A r \in Api!Requests : r \in Nat /\ (r > apNext => apTries[r] = 0)
    BY DEF SentAtMost, Api!Requests
  <2>2. apNext' <= ApRequests => apNext' \in Api!Requests /\ apNext' > apNext
    BY <1>1, <1>2 DEF Api!Requests
  <2>3. \A r \in Api!Requests : r > apNext' => r > apNext
    BY <1>1, <1>2, <2>1
  <2> QED BY <1>1, <2>1, <2>2, <2>3 DEF SentAtMost, Most
<1>11. EndedBy'
  BY <1>1 DEF EndedBy
<1> QED BY <1>7, <1>9, <1>10, <1>11, <1>12, <1>13

\* No answer, or no request left.
LEMMA StopApInv ==
    ASSUME ApInv, part = "api", part' = part, Api!failed \/ Api!end PROVE ApInv'
<1> USE DEF ApInv, Api!connVars, Api!bookVars
<1>1. /\ apConn' = "none" /\ apAsked' = {} /\ apIn' = << >>
      /\ UNCHANGED <<apKeep, apNext, apReused, apTwice, apTries, apAnswers, apCarried, apUsed>>
  BY DEF Api!failed, Api!end
<1>4. OnTheWire' /\ OneAnswer' /\ Taken' /\ apIn' \in Seq(Api!Requests \cup {0})
      /\ apAsked' \subseteq Api!Requests /\ apTwice' \subseteq Api!Requests
  BY <1>1, EmptyWire
<1>2. CASE apPhase' = "reconnect"
  <2>1. apPhase = "read" /\ apReused /\ apVerdict' = apVerdict
    BY <1>2 DEF Api!failed, Api!end, Api!finish
  <2>2. ApTypes' /\ UsedAgain'
    BY <1>1, <1>2, <1>4, <2>1 DEF ApTypes, UsedAgain
  <2>3. SentAtMost'
    BY <1>1, <1>2, <2>1 DEF SentAtMost, Most
  <2>4. EndedBy'
    BY <1>1, <2>1 DEF EndedBy
  <2> QED BY <1>4, <2>2, <2>3, <2>4
<1>3. CASE apPhase' = "done"
  <2>1. apVerdict' \in {"crash", "ok", "timeout"}
    BY <1>3 DEF Api!failed, Api!end, Api!finish
  <2>2. apVerdict' = "crash" => apFresh'
    BY <1>3 DEF Api!failed, Api!end, Api!finish
  <2>3. apVerdict' = "ok" => apNext = ApRequests + 1
    BY <1>3, ExecAssumption DEF Api!failed, Api!end, Api!finish, ApTypes
  <2>4. ApTypes' /\ UsedAgain'
    BY <1>1, <1>3, <1>4, <2>1 DEF ApTypes, UsedAgain
  <2>5. SentAtMost'
    BY <1>1, <1>3 DEF SentAtMost, Most
  <2>6. EndedBy'
    BY <1>1, <1>3, <2>1, <2>2, <2>3 DEF EndedBy
  <2> QED BY <1>4, <2>4, <2>5, <2>6
<1> QED BY <1>2, <1>3 DEF Api!failed, Api!end, Api!finish

\* Every step keeps it.
LEMMA StepApInv == ApInv /\ [Next]_vars => ApInv'
<1> SUFFICES ASSUME ApInv, [Next]_vars, part' = "api" PROVE ApInv'
  BY DEF ApInv
<1>0. part' = part /\ part = "api"
  BY DEF Next, vars
<1>1. CASE Api!Next
  BY <1>0, <1>1, ServiceApInv, PrepareApInv, ConnectApInv, ExchangeApInv, AnsweredApInv,
     StopApInv DEF Api!Next
<1>2. CASE UNCHANGED apVars
  BY <1>0, <1>2 DEF apVars, ApInv, ApTypes, OnTheWire, OneAnswer, Taken, Shifted, UsedAgain,
     SentAtMost, EndedBy, Most
<1> QED BY <1>0, <1>1, <1>2 DEF Next, vars

\* What the session is judged on.
LEMMA ApInvSuffices == ApInv => (part = "api" => Api!TypeOK /\ Api!SessionIsOwn)
<1> SUFFICES ASSUME ApInv, part = "api" PROVE Api!TypeOK /\ Api!SessionIsOwn
  OBVIOUS
<1>1. ApTypes /\ Taken /\ SentAtMost /\ EndedBy
  BY DEF ApInv
<1>2. Api!TypeOK
  BY <1>1 DEF ApTypes, Api!TypeOK, Api!Cut
<1>3. Len(apAnswers) = apNext - 1
      /\ \A i \in 1 .. Len(apAnswers) :
            apAnswers[i] = i \/ (apKeep /\ apAnswers[i] < i /\ \E t \in apTwice : t <= apAnswers[i])
  BY <1>1 DEF Taken, Shifted
<1>6. /\ \A r \in Api!Requests : apTries[r] <= IF apKeep /\ r > 1 THEN 2 ELSE 1
      /\ \A r \in Api!Requests : apUsed[r] \subseteq 1 .. r - 1
  BY <1>1 DEF SentAtMost, EndedBy, Most
<1>7. (apVerdict = "crash" => apFresh) /\ (apVerdict = "ok" => apNext = ApRequests + 1)
  BY <1>1 DEF EndedBy
<1>8. Api!SessionIsOwn
  BY <1>3, <1>6, <1>7 DEF Api!SessionIsOwn
<1> QED BY <1>2, <1>8

LEMMA InitTiInv == Init => TiInv
<1> SUFFICES ASSUME Init, part = "tiers" PROVE TiInv
  BY DEF TiInv
<1>1. Ti!Init /\ TiRuns \in Nat
  BY ExecAssumption DEF Init
<1>2. tiDone \in [1 .. TiRuns -> {"none", "ok", "crash"}] /\ \A n \in 1 .. TiRuns : tiDone[n] = "none"
  BY <1>1 DEF Ti!Init
<1>3. TiTypes
  BY <1>1, <1>2 DEF Ti!Init, TiTypes
<1>4. InputIsOwn /\ CallsAreKnown /\ Undisturbed
  BY <1>1, <1>2 DEF Ti!Init, InputIsOwn, CallsAreKnown, Undisturbed
<1>5. Judged
  BY <1>1 DEF Ti!Init, Judged, Ti!NoVerdict
<1> QED BY <1>3, <1>4, <1>5 DEF TiInv

\* The numbers of executions.
LEMMA Runs ==
    ASSUME TiInv, part = "tiers"
    PROVE  TiRuns \in Nat /\ tiRun \in Nat /\ tiRun <= TiRuns
           /\ (tiRun > 0 => tiRun \in 1 .. TiRuns /\ tiRun \in 1 .. tiRun)
           /\ 1 .. tiRun \subseteq 1 .. TiRuns
BY ExecAssumption DEF TiInv, TiTypes

\* An execution begins, is prepared, armed, or fails before it ran; Close.
LEMMA EarlyTiInv ==
    ASSUME TiInv, part = "tiers", part' = part,
           Ti!Begin \/ Ti!prepare \/ Ti!Arm \/ Ti!executeFails \/ Ti!Close
    PROVE  TiInv'
<1> USE DEF TiInv, Ti!callVars, Ti!confVars, Ti!harnessed
<1>0. TiRuns \in Nat /\ tiRun \in Nat /\ tiRun <= TiRuns
  BY Runs
<1>1. CASE Ti!Begin
  <2>1. /\ tiPhase = "idle" /\ tiRun' = tiRun + 1 /\ tiRun < TiRuns
        /\ tiPhase' = (IF tiKind = "inproc" THEN "arm" ELSE "prepare")
        /\ tiVerdict' = Ti!NoVerdict /\ tiTarget' = 0
        /\ tiBeside' = tiCalls
        /\ UNCHANGED <<tiKind, tiDelivery, tiDir, tiFile, tiInput, tiMap, tiCalls, tiDone, tiPanic>>
    BY <1>1 DEF Ti!Begin
  <2>2. tiRun' \in 0 .. TiRuns /\ tiRun' > 0 /\ 1 .. tiRun \subseteq 1 .. tiRun' /\ tiRun \in Nat
    BY <1>0, <2>1
  <2>3. TiTypes'
    BY <2>1, <2>2 DEF TiTypes
  <2>4. InputIsOwn'
    BY <2>1 DEF InputIsOwn
  <2>5. CallsAreKnown'
    <3>1. \A n \in tiCalls : tiDone[n] = "none"
      BY <2>1 DEF CallsAreKnown
    <3>2. \A n \in 1 .. TiRuns : n > tiRun' \/ n = tiRun' => n > tiRun
      BY <1>0, <2>1
    <3>3. \A n \in 1 .. TiRuns : n > tiRun => tiDone[n] = "none"
      BY DEF CallsAreKnown
    <3>4. tiRun' \notin tiCalls'
      BY <1>0, <2>1 DEF TiTypes
    <3> QED BY <2>1, <3>1, <3>2, <3>3, <3>4 DEF CallsAreKnown
  <2>6. Undisturbed' /\ Judged'
    BY <2>1 DEF Undisturbed, Judged, Ti!NoVerdict
  <2> QED BY <2>3, <2>4, <2>5, <2>6
<1>2. CASE Ti!prepare /\ tiPhase' = "arm"
  <2>1. /\ tiPhase = "prepare" /\ tiDir' \in {tiDir, "own"}
        /\ tiDelivery = "file" => tiFile' = tiRun
        /\ UNCHANGED <<tiKind, tiDelivery, tiRun, tiInput, tiTarget, tiMap, tiCalls, tiDone, tiPanic,
                       tiBeside, tiVerdict>>
    BY <1>2 DEF Ti!prepare, Ti!failsEarly, Ti!ensureWorkDir
  <2>2. TiTypes'
    BY <1>2, <2>1 DEF TiTypes
  <2>3. InputIsOwn'
    BY <1>2, <2>1 DEF InputIsOwn
  <2>4. CallsAreKnown'
    BY <1>2, <2>1 DEF CallsAreKnown
  <2>5. Undisturbed' /\ Judged'
    BY <1>2, <2>1 DEF Undisturbed, Judged, TiTypes
  <2> QED BY <2>2, <2>3, <2>4, <2>5
<1>3. CASE Ti!failsEarly /\ tiPhase \in {"prepare", "arm", "execute"} /\ tiDir' \in {tiDir, "own"}
           /\ tiFile' = tiFile
  <2>1. /\ tiPhase' = "idle" /\ tiVerdict'.kind = "error"
        /\ UNCHANGED <<tiKind, tiDelivery, tiRun, tiInput, tiTarget, tiMap, tiCalls, tiDone, tiPanic,
                       tiBeside>>
    BY <1>3 DEF Ti!failsEarly, Ti!NoVerdict
  <2>2. TiTypes'
    BY <1>3, <2>1 DEF TiTypes
  <2>3. InputIsOwn'
    BY <1>3, <2>1 DEF InputIsOwn
  <2>4. CallsAreKnown'
    BY <1>3, <2>1 DEF CallsAreKnown
  <2>5. Undisturbed' /\ Judged'
    BY <2>1 DEF Undisturbed, Judged
  <2> QED BY <2>2, <2>3, <2>4, <2>5
<1>4. CASE Ti!Arm /\ tiPhase' = "execute"
  <2>1. /\ tiPhase = "arm" /\ tiInput' = tiRun /\ tiMap' = {}
        /\ UNCHANGED <<tiKind, tiDelivery, tiDir, tiFile, tiRun, tiTarget, tiCalls, tiDone, tiPanic,
                       tiBeside, tiVerdict>>
    BY <1>4 DEF Ti!Arm, Ti!failsEarly
  <2>2. TiTypes'
    BY <1>4, <2>1 DEF TiTypes
  <2>3. InputIsOwn'
    BY <1>4, <2>1 DEF InputIsOwn
  <2>4. CallsAreKnown'
    BY <1>4, <2>1 DEF CallsAreKnown
  <2>5. Undisturbed'
    BY <1>4, <2>1 DEF Undisturbed
  <2>6. Judged'
    BY <2>1 DEF Judged, TiTypes, Ti!NoVerdict
  <2> QED BY <2>2, <2>3, <2>4, <2>5, <2>6
<1>5. CASE Ti!Close
  <2>1. /\ tiPhase = "idle" /\ tiPhase' = "closed" /\ tiDir' \in {tiDir, "removed"} /\ tiDir' # "own"
        /\ UNCHANGED <<tiKind, tiDelivery, tiFile, tiRun, tiInput, tiTarget, tiMap, tiCalls, tiDone,
                       tiPanic, tiBeside, tiVerdict>>
    BY <1>5 DEF Ti!Close
  <2>2. TiTypes' /\ InputIsOwn'
    BY <2>1 DEF TiTypes, InputIsOwn
  <2>3. CallsAreKnown' /\ Undisturbed' /\ Judged'
    BY <2>1 DEF CallsAreKnown, Undisturbed, Judged
  <2> QED BY <2>2, <2>3
<1>6. Ti!prepare => (tiPhase' = "arm" \/ (Ti!failsEarly /\ tiPhase = "prepare"
                     /\ tiDir' \in {tiDir, "own"} /\ tiFile' = tiFile))
  BY DEF Ti!prepare, Ti!ensureWorkDir
<1>7. Ti!Arm => tiPhase' = "execute" \/ (Ti!failsEarly /\ tiPhase = "arm" /\ UNCHANGED <<tiDir, tiFile>>)
  BY DEF Ti!Arm
<1>8. Ti!executeFails => Ti!failsEarly /\ tiPhase = "execute" /\ UNCHANGED <<tiDir, tiFile>>
  BY DEF Ti!executeFails
<1> QED BY <1>1, <1>2, <1>3, <1>4, <1>5, <1>6, <1>7, <1>8

\* A process runs the input, or the harness is called with it.
LEMMA ExecuteTiInv ==
    ASSUME TiInv, part = "tiers", part' = part, Ti!execute \/ Ti!callWithTimeout
    PROVE  TiInv'
<1> USE DEF TiInv, Ti!callVars, Ti!confVars, Ti!harnessed
<1>0. tiPhase = "execute" /\ tiRun > 0 /\ tiRun \in 1 .. tiRun /\ tiRun \in 1 .. TiRuns
  BY Runs DEF Ti!execute, Ti!callWithTimeout, TiTypes
<1>1. CASE Ti!execute
  <2>1. PICK kind \in {"ok", "crash", "timeout", "oom"} :
            tiVerdict' = [kind |-> kind, panic |-> 0, map |-> tiMap']
    BY <1>1 DEF Ti!execute
  <2>2. /\ tiKind # "inproc" /\ tiTarget' = (IF tiDelivery = "file" THEN tiFile ELSE tiRun)
        /\ tiMap' = tiMap \cup {tiRun} /\ tiPhase' = "idle"
        /\ UNCHANGED <<tiKind, tiDelivery, tiDir, tiFile, tiRun, tiInput, tiCalls, tiDone, tiPanic,
                       tiBeside>>
    BY <1>1 DEF Ti!execute
  <2>3. tiTarget' = tiRun
    BY <1>0, <2>2 DEF InputIsOwn
  <2>4. TiTypes'
    BY <1>0, <2>2 DEF TiTypes
  <2>5. InputIsOwn' /\ CallsAreKnown'
    BY <1>0, <2>2, <2>3 DEF InputIsOwn, CallsAreKnown
  <2>6. Undisturbed'
    BY <2>2 DEF Undisturbed
  <2>7. tiVerdict'.panic = 0 /\ tiVerdict'.map = tiMap' /\ tiInput = tiRun
    BY <1>0, <2>1 DEF InputIsOwn
  <2>8. tiMap' \subseteq {tiRun} \cup tiBeside
    BY <1>0, <2>2 DEF Undisturbed
  <2>9. Judged'
    BY <1>0, <2>2, <2>3, <2>7, <2>8 DEF Judged
  <2> QED BY <2>4, <2>5, <2>6, <2>9
<1>2. CASE Ti!callWithTimeout
  <2>1. /\ tiKind = "inproc" /\ tiTarget' = tiRun /\ tiCalls' = tiCalls \cup {tiRun} /\ tiPanic' = 0
        /\ tiPhase' = "wait"
        /\ UNCHANGED <<tiKind, tiDelivery, tiDir, tiFile, tiRun, tiInput, tiMap, tiDone, tiBeside,
                       tiVerdict>>
    BY <1>2 DEF Ti!callWithTimeout
  <2>2. TiTypes'
    BY <1>0, <2>1 DEF TiTypes
  <2>3. InputIsOwn'
    BY <1>0, <2>1 DEF InputIsOwn
  <2>4. tiDone[tiRun] = "none"
    BY <1>0 DEF CallsAreKnown
  <2>5. CallsAreKnown'
    BY <1>0, <2>1, <2>4 DEF CallsAreKnown
  <2>6. Undisturbed'
    BY <1>0, <2>1, <2>4 DEF Undisturbed
  <2>7. Judged'
    BY <1>0, <2>1 DEF Judged, TiTypes, Ti!NoVerdict
  <2> QED BY <2>2, <2>3, <2>5, <2>6, <2>7
<1> QED BY <1>1, <1>2

\* A call writes coverage, or ends, whether or not anybody waits for it.
LEMMA CallTiInv ==
    ASSUME TiInv, part = "tiers", part' = part, NEW n \in 1 .. TiRuns, Ti!harness(n) \/ Ti!call(n)
    PROVE  TiInv'
<1> USE DEF TiInv, Ti!callVars, Ti!confVars, Ti!harnessed
<1>0. /\ n \in tiCalls /\ n \in 1 .. tiRun /\ tiDone[n] = "none"
      /\ n \in {tiRun} \cup tiBeside
      /\ UNCHANGED <<tiKind, tiDelivery, tiDir, tiFile, tiRun, tiPhase, tiInput, tiTarget,
                     tiBeside, tiVerdict>>
  BY DEF Ti!harness, Ti!call, CallsAreKnown, TiTypes
<1>1. InputIsOwn'
  BY <1>0 DEF InputIsOwn
<1>2. CASE Ti!harness(n)
  <2>1. tiMap' = tiMap \cup {n} /\ UNCHANGED <<tiCalls, tiDone, tiPanic>>
    BY <1>2 DEF Ti!harness
  <2>2. TiTypes' /\ CallsAreKnown' /\ Judged'
    BY <1>0, <2>1 DEF TiTypes, CallsAreKnown, Judged
  <2>3. Undisturbed'
    BY <1>0, <2>1 DEF Undisturbed
  <2> QED BY <1>1, <2>2, <2>3
<1>3. CASE Ti!call(n)
  <2>1. PICK how \in {"ok", "crash"} : /\ tiDone' = [tiDone EXCEPT ![n] = how]
                                       /\ tiPanic' = IF how = "crash" THEN n ELSE tiPanic
    BY <1>3 DEF Ti!call
  <2>2. tiCalls' = tiCalls \ {n} /\ tiMap' = tiMap
    BY <1>3 DEF Ti!call
  <2>3. /\ tiDone' \in [1 .. TiRuns -> {"none", "ok", "crash"}] /\ tiDone'[n] = how
        /\ \A m \in 1 .. TiRuns : m # n => tiDone'[m] = tiDone[m]
    BY <2>1 DEF TiTypes
  <2>4. TiTypes'
    BY <1>0, <2>2, <2>3 DEF TiTypes
  <2>5. CallsAreKnown'
    <3>1. \A m \in tiCalls' : m \in 1 .. TiRuns /\ m # n /\ m \in tiCalls
      BY <2>2, Runs DEF TiTypes
    <3>2. n \in Nat /\ tiRun \in Nat /\ n <= tiRun /\ (n = tiRun => tiPhase # "prepare" /\
              tiPhase # "arm" /\ tiPhase # "execute")
      BY <1>0, Runs DEF CallsAreKnown
    <3>3. ASSUME NEW m \in 1 .. TiRuns,
                 m > tiRun \/ (m = tiRun /\ tiPhase \in {"prepare", "arm", "execute"})
          PROVE  tiDone'[m] = "none"
      <4>1. m # n
        BY <3>2, <3>3
      <4> QED BY <2>3, <3>3, <4>1 DEF CallsAreKnown
    <3> QED BY <1>0, <2>3, <3>1, <3>3 DEF CallsAreKnown
  <2>6. Undisturbed'
    BY <1>0, <2>1, <2>2, <2>3 DEF Undisturbed
  <2>7. Judged'
    <3>1. tiVerdict.kind \in {"ok", "crash"} => tiRun \in 1 .. TiRuns
      BY Runs DEF Judged
    <3>2. tiVerdict.kind \in {"ok", "crash"} /\ tiKind = "inproc" => n # tiRun
      BY <1>0 DEF Judged
    <3> QED BY <1>0, <2>3, <3>1, <3>2 DEF Judged
  <2> QED BY <1>1, <2>4, <2>5, <2>6, <2>7
<1> QED BY <1>2, <1>3

\* The call is heard, or given up.
LEMMA EndTiInv ==
    ASSUME TiInv, part = "tiers", part' = part, Ti!returned \/ Ti!abandon
    PROVE  TiInv'
<1> USE DEF TiInv, Ti!callVars, Ti!confVars, Ti!harnessed
<1>0. /\ tiPhase = "wait" /\ tiPhase' = "idle" /\ tiRun > 0 /\ tiRun \in 1 .. tiRun
      /\ tiRun \in 1 .. TiRuns
      /\ UNCHANGED <<tiKind, tiDelivery, tiDir, tiFile, tiRun, tiInput, tiTarget, tiMap, tiCalls,
                     tiDone, tiPanic>>
  BY Runs DEF Ti!returned, Ti!abandon, TiTypes
<1>1. tiTarget = tiRun /\ tiInput = tiRun /\ InputIsOwn'
  BY <1>0 DEF InputIsOwn
<1>2. Undisturbed'
  BY <1>0 DEF Undisturbed
<1>3. CASE Ti!returned
  <2>1. /\ tiDone[tiRun] # "none" /\ tiBeside' = tiBeside
        /\ tiVerdict' = [kind |-> tiDone[tiRun], panic |-> tiPanic, map |-> tiMap]
    BY <1>3 DEF Ti!returned
  <2>2. TiTypes'
    BY <1>0, <2>1 DEF TiTypes
  <2>3. CallsAreKnown'
    BY <1>0, <2>1 DEF CallsAreKnown
  <2>4. tiVerdict'.kind = tiDone[tiRun] /\ tiVerdict'.panic = tiPanic /\ tiVerdict'.map = tiMap
    BY <2>1
  <2>5. Judged'
    BY <1>0, <1>1, <2>1, <2>4 DEF Judged, Undisturbed
  <2> QED BY <1>1, <1>2, <2>2, <2>3, <2>5
<1>4. CASE Ti!abandon
  <2>1. tiBeside' = tiBeside /\ tiVerdict'.kind \in {"timeout", "error"}
    BY <1>4 DEF Ti!abandon
  <2>2. TiTypes'
    BY <1>0, <2>1 DEF TiTypes
  <2>3. CallsAreKnown' /\ Judged'
    BY <1>0, <2>1 DEF CallsAreKnown, Judged
  <2> QED BY <1>1, <1>2, <2>2, <2>3
<1> QED BY <1>3, <1>4

\* Every step keeps it.
LEMMA StepTiInv == TiInv /\ [Next]_vars => TiInv'
<1> SUFFICES ASSUME TiInv, [Next]_vars, part' = "tiers" PROVE TiInv'
  BY DEF TiInv
<1>0. part' = part /\ part = "tiers"
  BY DEF Next, vars
<1>1. CASE Ti!Next
  BY <1>0, <1>1, EarlyTiInv, ExecuteTiInv, CallTiInv, EndTiInv DEF Ti!Next
<1>2. CASE UNCHANGED tiVars
  BY <1>0, <1>2 DEF tiVars, TiInv, TiTypes, InputIsOwn, CallsAreKnown, Undisturbed, Judged
<1> QED BY <1>0, <1>1, <1>2 DEF Next, vars

\* Whatever came late, failed or was abandoned before, an answer is taken for that of an
\* earlier request only when the service answered one twice on a connection that is kept, and
\* an execution's input, verdict, coverage and panic are its own, or coverage and panic those
\* of an abandoned call that was still at work when it began.
THEOREM ExecutionsCorrect == Spec => []ExecutionIsOwn
<1>1. TiInv => (part = "tiers" => Ti!TypeOK /\ Ti!ExecutionIsOwn)
  <2> SUFFICES ASSUME TiInv, part = "tiers" PROVE Ti!TypeOK /\ Ti!ExecutionIsOwn
    OBVIOUS
  <2>1. Ti!TypeOK
    BY DEF TiInv, TiTypes, Ti!TypeOK
  <2> QED BY <2>1 DEF TiInv, InputIsOwn, Judged, Ti!ExecutionIsOwn, Ti!harnessed
<1>2. ApInv /\ TiInv => ExecutionIsOwn
  BY <1>1, ApInvSuffices DEF ExecutionIsOwn
<1> QED BY <1>2, InitApInv, StepApInv, InitTiInv, StepTiInv, PTL DEF Spec

-----------------------------------------------------------------------------
(* What the layers of a campaign file say, and what is resolved from them    *)
(* (CampaignFile).                                                           *)

\* The tiers that buildExecutor knows by name.
NamedTiers == {"forkserver", "pool", "subprocess", "emulated"}

\* The keys that a document may set to zero to say so.
ZeroKeys == {"trials", "checkpoint"}

\* What a key may hold.
Allowed(k) == As!Written(k) \cup As!Filled

\* A layer, and a file that all layers and defaults went into.
Doc(d) == DOMAIN d \subseteq As!Keys /\ \A k \in DOMAIN d : d[k] \in Allowed(k)
File(f) == DOMAIN f = As!Keys /\ \A k \in As!Keys : f[k] \in Allowed(k)

\* The keys that the plain campaigns, the rules and the steps of build ask for.
LEMMA KnownKeys ==
    {"name", "path", "seeds", "session", "address", "api", "apiAddress", "capture", "driver",
     "driverKind", "url", "network", "allow", "authorization", "coverage", "novelty",
     "executor", "trials", "checkpoint"} \subseteq As!Keys
<1>1. {"name", "path", "executor"} \subseteq DOMAIN As!TargetKeys
  BY DEF As!TargetKeys
<1>2. "seeds" \in DOMAIN As!SeedKeys
  BY DEF As!SeedKeys
<1>3. {"session", "address"} \subseteq DOMAIN As!SessionKeys
  BY DEF As!SessionKeys
<1>4. {"api", "apiAddress", "capture"} \subseteq DOMAIN As!ApiKeys
  BY DEF As!ApiKeys
<1>5. {"driver", "driverKind", "url"} \subseteq DOMAIN As!DriverKeys
  BY DEF As!DriverKeys
<1>6. {"network", "allow", "authorization"} \subseteq DOMAIN As!SafetyKeys
  BY DEF As!SafetyKeys
<1>7. {"coverage", "novelty"} \subseteq DOMAIN As!FeedbackKeys
  BY DEF As!FeedbackKeys
<1>8. {"trials", "checkpoint"} \subseteq DOMAIN As!OutcomeKeys
  BY DEF As!OutcomeKeys
<1>9. \A b \in As!Blocks : DOMAIN b \subseteq As!Keys
  BY DEF As!Keys
<1>10. /\ DOMAIN As!TargetKeys \subseteq As!Keys /\ DOMAIN As!SeedKeys \subseteq As!Keys
       /\ DOMAIN As!SessionKeys \subseteq As!Keys /\ DOMAIN As!ApiKeys \subseteq As!Keys
       /\ DOMAIN As!DriverKeys \subseteq As!Keys /\ DOMAIN As!SafetyKeys \subseteq As!Keys
       /\ DOMAIN As!FeedbackKeys \subseteq As!Keys /\ DOMAIN As!OutcomeKeys \subseteq As!Keys
  BY <1>9 DEF As!Blocks
<1> QED BY <1>1, <1>2, <1>3, <1>4, <1>5, <1>6, <1>7, <1>8, <1>10

\* The blocks that some keys are in and others are not.
LEMMA OwnBlocks ==
    \A b \in As!Blocks :
        /\ "seeds" \in DOMAIN b => b = As!SeedKeys
        /\ "address" \in DOMAIN b => b = As!SessionKeys
        /\ "apiAddress" \in DOMAIN b => b = As!ApiKeys
        /\ "driverKind" \in DOMAIN b => b = As!DriverKeys
        /\ "absent" \notin DOMAIN b
BY DEF As!Blocks, As!TargetKeys, As!SeedKeys, As!FormatKeys, As!FeedbackKeys, As!SessionKeys,
       As!StateKeys, As!ApiKeys, As!DriverKeys, As!WorkerKeys, As!SafetyKeys, As!OutcomeKeys,
       As!ExtensionKeys

\* What those keys may hold.  A profile that is not there is no document.
LEMMA OwnValues ==
    /\ "inline" \in Allowed("seeds") /\ "shared" \in Allowed("address")
    /\ "shared" \in Allowed("apiAddress") /\ "web" \in Allowed("driverKind")
    /\ Allowed("driverKind") \cap NamedTiers = {}
    /\ "absent" \notin As!Keys
<1> DEFINE block(k) == CHOOSE b \in As!Blocks : k \in DOMAIN b
<1>1. ASSUME NEW k \in As!Keys
      PROVE  block(k) \in As!Blocks /\ k \in DOMAIN block(k) /\ As!Values[k] = block(k)[k]
  <2>1. \E b \in As!Blocks : k \in DOMAIN b
    BY DEF As!Keys
  <2> QED BY <2>1 DEF As!Values
<1> HIDE DEF block
<1>2. /\ As!Values["seeds"] = As!SeedKeys["seeds"]
      /\ As!Values["address"] = As!SessionKeys["address"]
      /\ As!Values["apiAddress"] = As!ApiKeys["apiAddress"]
      /\ As!Values["driverKind"] = As!DriverKeys["driverKind"]
  BY <1>1, KnownKeys, OwnBlocks
<1>3. "inline" \in Allowed("seeds") /\ "shared" \in Allowed("address")
      /\ "shared" \in Allowed("apiAddress")
  BY <1>2 DEF Allowed, As!Written, As!SeedKeys, As!SessionKeys, As!ApiKeys
<1>4. Allowed("driverKind") = {"tui", "web", "gui", "bad", "zero"} \cup As!Filled
  BY <1>2 DEF Allowed, As!Written, As!DriverKeys
<1>5. "absent" \notin As!Keys
  BY OwnBlocks DEF As!Keys
<1> QED BY <1>3, <1>4, <1>5 DEF As!Filled, NamedTiers

\* The plain campaigns are documents.
LEMMA PlainIsDoc == \A kind \in DOMAIN As!Plain : Doc(As!Plain[kind])
<1>1. \A k : {"ok", "block", "true", "zero"} \subseteq Allowed(k)
  BY DEF Allowed, As!Written, As!Filled
<1>2. Doc(As!Plain.process) /\ Doc(As!Plain.session) /\ Doc(As!Plain.api)
  BY <1>1, KnownKeys, OwnValues DEF As!Plain, Doc
<1>3. Doc(As!Plain.driver) /\ Doc(As!Plain.web)
  BY <1>1, KnownKeys, OwnValues DEF As!Plain, Doc
<1>4. \A kind \in DOMAIN As!Plain : kind \in {"process", "session", "api", "driver", "web"}
  BY DEF As!Plain
<1> QED BY <1>2, <1>3, <1>4

\* A document on top of another one.
LEMMA WithIsDoc == ASSUME NEW d, NEW e, Doc(d), Doc(e) PROVE Doc(As!With(d, e))
<1>1. \A k \in DOMAIN As!With(d, e) :
         /\ k \in DOMAIN d \cup DOMAIN e
         /\ As!With(d, e)[k] = IF k \in DOMAIN e THEN e[k] ELSE d[k]
  BY DEF As!With
<1> QED BY <1>1 DEF Doc

\* One key, written in any way.
LEMMA OneKeyIsDoc ==
    ASSUME NEW k \in As!Keys, NEW x \in As!Written(k) PROVE Doc([j \in {k} |-> x])
BY DEF Doc, Allowed

\* Documents that differ in one key.
LEMMA EditIsDoc ==
    ASSUME NEW S, \A d \in S : Doc(d), NEW ks \in SUBSET As!Keys
    PROVE  \A d \in As!Edit(S, ks) : Doc(d)
<1> SUFFICES ASSUME NEW d \in As!Edit(S, ks) PROVE Doc(d)
  OBVIOUS
<1>1. CASE d \in S
  BY <1>1
<1>2. CASE d \notin S
  <2>1. PICK k \in ks : d \in As!Rewritten(S, k)
    BY <1>2 DEF As!Edit
  <2>2. PICK c \in S, x \in As!Written(k) : d = As!With(c, [j \in {k} |-> x])
    BY <2>1 DEF As!Rewritten
  <2>3. Doc([j \in {k} |-> x])
    BY OneKeyIsDoc
  <2> QED BY <2>2, <2>3, WithIsDoc
<1> QED BY <1>1, <1>2
\* The layers are documents, or profiles that are not there.
Profile(p) == p = As!NoProfile \/ Doc(p)
Layers(l) ==
    /\ Doc(l.include) /\ Doc(l.main) /\ Profile(l.included) /\ Profile(l.profile)

LEMMA LayersAreDocs == \A l \in As!OneFile \cup As!Layered : Layers(l)
<1>0. Doc(As!Empty)
  BY DEF As!Empty, Doc
<1>1. ASSUME NEW l \in As!OneFile PROVE Layers(l)
  <2>1. PICK d \in As!Edit(As!Edit({As!Plain[kind] : kind \in CfKinds}, As!Keys), CfPairKeys) :
           l = [include |-> As!Empty, main |-> d, included |-> As!NoProfile,
                profile |-> As!NoProfile]
    BY DEF As!OneFile
  <2>2. \A e \in {As!Plain[kind] : kind \in CfKinds} : Doc(e)
    BY FileAssumption, PlainIsDoc
  <2>3. \A e \in As!Edit({As!Plain[kind] : kind \in CfKinds}, As!Keys) : Doc(e)
    BY <2>2, EditIsDoc
  <2>4. Doc(d)
    BY <2>1, <2>3, EditIsDoc, FileAssumption
  <2> QED BY <1>0, <2>1, <2>4 DEF Layers, Profile
<1>2. ASSUME NEW l \in As!Layered PROVE Layers(l)
  <2>1. PICK k \in CfLayerKeys : l \in As!LayersOn(k)
    BY <1>2 DEF As!Layered
  <2>2. k \in As!Keys
    BY FileAssumption
  <2>3. \A d \in As!Says(k) : Doc(d)
    BY <1>0, <2>2, OneKeyIsDoc DEF As!Says
  <2>4. PICK inc \in As!Says(k), main \in As!Says(k), p \in As!Says(k) \cup {As!NoProfile},
             q \in As!Says(k) \cup {As!NoProfile} :
           l = [include |-> inc, main |-> As!With(As!Plain.process, main), included |-> p,
                profile |-> q]
    BY <2>1 DEF As!LayersOn
  <2>5. Doc(As!Plain.process)
    BY PlainIsDoc DEF As!Plain
  <2>6. Doc(As!With(As!Plain.process, main))
    BY <2>3, <2>5, WithIsDoc
  <2> QED BY <2>3, <2>4, <2>6 DEF Layers, Profile
<1> QED BY <1>1, <1>2

-----------------------------------------------------------------------------
(* Decoding, merging and filling in.                                         *)

\* What filling in defaults may not do: lose a value that was written, or replace a zero that
\* was written where zero means something.
Keeps(f, g, set) ==
    /\ File(g)
    /\ \A k \in As!Keys : f[k] # "zero" \/ k \in ZeroKeys \cap set => g[k] = f[k]

\* A decoded document holds what it says, and zeros.
LEMMA DecodeIsFile ==
    ASSUME NEW d, Doc(d)
    PROVE  /\ File(As!With(As!Blank, d))
           /\ \A k \in As!Keys :
                 As!With(As!Blank, d)[k] = IF k \in DOMAIN d THEN d[k] ELSE "zero"
<1>1. DOMAIN As!Blank = As!Keys /\ \A k \in As!Keys : As!Blank[k] = "zero"
  BY DEF As!Blank
<1>2. \A k \in As!Keys : "zero" \in Allowed(k)
  BY DEF Allowed, As!Written
<1> QED BY <1>1, <1>2 DEF As!With, Doc, File

LEMMA MergeIsFile ==
    ASSUME NEW f, NEW g, File(f), File(g)
    PROVE  /\ File(As!merge(f, g))
           /\ \A k \in As!Keys : As!merge(f, g)[k] = IF g[k] = "zero" THEN f[k] ELSE g[k]
BY DEF As!merge, File

\* A table of defaults, of which those that zero keys have need to respect what was written.
Table(table, written, set) ==
    \A k \in DOMAIN table :
        table[k] \in As!Filled /\ (k \in ZeroKeys => set \subseteq written)

LEMMA FillKeeps ==
    ASSUME NEW f, NEW g, NEW set, NEW table, NEW written, Keeps(f, g, set),
           Table(table, written, set)
    PROVE  Keeps(f, As!fill(g, table, written), set)
BY DEF Keeps, File, Table, As!fill, Allowed
LEMMA SessionKeeps ==
    ASSUME NEW f, NEW g, NEW set, Keeps(f, g, set)
    PROVE  Keeps(f, As!sessionDefaults(g, set), set)
<1> DEFINE always == [framing |-> "idle", reset |-> "reconnect", state |-> "block",
                      managed |-> IF g.path = "zero" THEN "false" ELSE "true",
                      stateFn |-> "fingerprint", guide |-> "true"]
           unset == [readTimeout |-> "short", sessionTimeout |-> "long", readLimit |-> "pos",
                     maxMessages |-> "pos", explore |-> "share"]
           last == [normalise |-> "all"]
           g1 == As!fill(g, always, {})
           g2 == As!fill(g1, unset, set)
           g3 == As!fill(g2, last, set)
<1>1. Table(always, {}, set) /\ Table(unset, set, set) /\ Table(last, set, set)
  BY DEF Table, As!Filled, ZeroKeys
<1>2. As!sessionDefaults(g, set) \in {g, g2, g3}
  BY DEF As!sessionDefaults
<1> HIDE DEF always, unset, last
<1>3. Keeps(f, g1, set)
  BY <1>1, FillKeeps
<1>4. Keeps(f, g2, set)
  <2> HIDE DEF g1
  <2> QED BY <1>1, <1>3, FillKeeps
<1>5. Keeps(f, g3, set)
  <2> HIDE DEF g2
  <2> QED BY <1>1, <1>4, FillKeeps
<1> HIDE DEF g1, g2, g3
<1> QED BY <1>2, <1>4, <1>5

LEMMA ApiKeeps ==
    ASSUME NEW f, NEW g, NEW set, Keeps(f, g, set)
    PROVE  Keeps(f, As!apiDefaults(g, set), set)
<1> DEFINE always == [links |-> "infer", expect |-> "unknown"]
           unset == [apiOracles |-> "status+schema"]
           g1 == As!fill(g, always, {})
           g2 == As!fill(g1, unset, set)
<1>1. Table(always, {}, set) /\ Table(unset, set, set)
  BY DEF Table, As!Filled, ZeroKeys
<1>2. As!apiDefaults(g, set) \in {g, g2}
  BY DEF As!apiDefaults
<1> HIDE DEF always, unset
<1>3. Keeps(f, g1, set)
  BY <1>1, FillKeeps
<1>4. Keeps(f, g2, set)
  <2> HIDE DEF g1
  <2> QED BY <1>1, <1>3, FillKeeps
<1> HIDE DEF g1, g2
<1> QED BY <1>2, <1>4

LEMMA DriverKeeps ==
    ASSUME NEW f, NEW g, NEW set, Keeps(f, g, set)
    PROVE  Keeps(f, As!driverDefaults(g, set), set)
<1> DEFINE always == [driverKind |-> "tui", driverReset |-> "restart", driverGuide |-> "true"]
           unset == [driverSize |-> "ok", maxEvents |-> "pos", driverNormalise |-> "all",
                     driverOracles |-> "diagnostic+unresponsive"]
           g1 == As!fill(g, always, {})
           g2 == As!fill(g1, unset, set)
<1>1. Table(always, {}, set) /\ Table(unset, set, set)
  BY DEF Table, As!Filled, ZeroKeys
<1>2. As!driverDefaults(g, set) \in {g, g2}
  BY DEF As!driverDefaults
<1> HIDE DEF always, unset
<1>3. Keeps(f, g1, set)
  BY <1>1, FillKeeps
<1>4. Keeps(f, g2, set)
  <2> HIDE DEF g1
  <2> QED BY <1>1, <1>3, FillKeeps
<1> HIDE DEF g1, g2
<1> QED BY <1>2, <1>4

LEMMA WorkerKeeps ==
    ASSUME NEW f, NEW g, NEW set, Keeps(f, g, set)
    PROVE  Keeps(f, As!workerDefaults(g, set), set)
<1> DEFINE one == \/ g.session # "zero" /\ ~As!Placeholder(g, "address")
                  \/ g.api # "zero" /\ ~As!Placeholder(g, "apiAddress")
                  \/ g.driver # "zero"
           table == [count |-> IF one THEN "one" ELSE "many", sync |-> "pos"]
<1>1. Table(table, set, set)
  <2> HIDE DEF one
  <2> QED BY DEF Table, As!Filled, ZeroKeys
<1>2. As!workerDefaults(g, set) = As!fill(g, table, set)
  BY DEF As!workerDefaults
<1> HIDE DEF table
<1> QED BY <1>1, <1>2, FillKeeps

\* Filling in the defaults keeps what was written.
LEMMA DefaultsKeep ==
    ASSUME NEW f, NEW set, File(f) PROVE Keeps(f, As!defaults(f, set), set)
<1> DEFINE t1 == [executor |-> "auto", input |-> "stdin", seedFormat |-> "auto",
                  codec |-> IF f.session = "zero" THEN "raw" ELSE "session",
                  coverage |-> "sancov", objectives |-> "all"]
           f1 == As!fill(f, t1, {})
           t2 == [timeout |-> "pos", maxInput |-> "pos", mapSize |-> "pow2"]
           f2 == As!fill(f1, t2, set)
           slow == f2.api # "zero" \/ f2.driver # "zero"
           f3 == As!sessionDefaults(f2, set)
           f4 == As!apiDefaults(f3, set)
           f5 == As!driverDefaults(f4, set)
           f6 == As!workerDefaults(f5, set)
           t7 == [isolation |-> "minimal", loopback |-> "true", bucketing |-> "chain",
                  triageEnabled |-> "true"]
           f7 == As!fill(f6, t7, {})
           t8 == [alphabet |-> "many"]
           f8 == IF f7.state # "zero" /\ f7.learn # "zero" THEN As!fill(f7, t8, {}) ELSE f7
           t9 == [memory |-> "pos", checkpoint |-> "default",
                  trials |-> IF slow THEN "three" ELSE "five",
                  budget |-> IF slow THEN "slow" ELSE "default"]
           f9 == As!fill(f8, t9, set)
<1>1. Table(t1, {}, set) /\ Table(t2, set, set) /\ Table(t7, {}, set) /\ Table(t8, {}, set)
  BY DEF Table, As!Filled, ZeroKeys
<1>2. Table(t9, set, set)
  <2> HIDE DEF slow
  <2> QED BY DEF Table, As!Filled, ZeroKeys
<1>3. As!defaults(f, set) = f9
  BY Zenon DEF As!defaults
<1> HIDE DEF t1, t2, t7, t8, t9
<1>4. Keeps(f, f, set)
  BY DEF Keeps
<1>5. Keeps(f, f1, set)
  BY <1>1, <1>4, FillKeeps
<1> HIDE DEF f1
<1>6. Keeps(f, f2, set)
  BY <1>1, <1>5, FillKeeps
<1> HIDE DEF f2
<1>7. Keeps(f, f3, set)
  BY <1>6, SessionKeeps
<1> HIDE DEF f3
<1>8. Keeps(f, f4, set)
  BY <1>7, ApiKeeps
<1> HIDE DEF f4
<1>9. Keeps(f, f5, set)
  BY <1>8, DriverKeeps
<1> HIDE DEF f5
<1>10. Keeps(f, f6, set)
  BY <1>9, WorkerKeeps
<1> HIDE DEF f6
<1>11. Keeps(f, f7, set)
  BY <1>1, <1>10, FillKeeps
<1> HIDE DEF f7
<1>12. Keeps(f, f8, set)
  BY <1>1, <1>11, FillKeeps
<1> HIDE DEF f8
<1>13. Keeps(f, f9, set)
  BY <1>2, <1>12, FillKeeps
<1> HIDE DEF f9
<1> QED BY <1>3, <1>13
-----------------------------------------------------------------------------
(* Load.                                                                     *)

\* What the layers in force come to, before the defaults: the value of the last layer that means
\* something by a key, and the keys that were written.
Tops(g, set) ==
    \A k \in As!Keys :
        /\ \A i \in As!Meaning(k) :
              (\A j \in As!Meaning(k) : j <= i) => g[k] = As!InForce[i][k] /\ g[k] # "zero"
        /\ As!Meaning(k) = {} => g[k] = "zero"
        /\ As!Writers(k) # {} => k \in set

\* The profile that is in force when it is selected.
Chosen ==
    IF cfLayers.profile # As!NoProfile THEN cfLayers.profile ELSE cfLayers.included

LEMMA PairAndOne == ASSUME NEW a, NEW b, NEW c PROVE <<a, b>> \o <<c>> = <<a, b, c>>
<1> DEFINE S == {a, b, c}
<1>1. <<a, b>> \in Seq(S) /\ <<c>> \in Seq(S) /\ <<a, b, c>> \in Seq(S)
  OBVIOUS
<1>2. \A i \in 1 .. 3 : (<<a, b>> \o <<c>>)[i] = <<a, b, c>>[i]
  BY <1>1
<1>3. Len(<<a, b>> \o <<c>>) = 3 /\ <<a, b>> \o <<c>> \in Seq(S)
  BY <1>1
<1> HIDE DEF S
<1> QED BY <1>1, <1>2, <1>3, SeqEqual

LEMMA InForceIs ==
    /\ cfProfile = FALSE => As!InForce = <<cfLayers.include, cfLayers.main>>
    /\ cfProfile = TRUE => As!InForce = <<cfLayers.include, cfLayers.main, Chosen>>
<1> DEFINE a == cfLayers.include
           b == cfLayers.main
           p == cfLayers.profile
           q == cfLayers.included
<1>1. As!InForce = <<a, b>> \o (IF ~cfProfile THEN <<>>
                               ELSE IF p # As!NoProfile THEN <<p>> ELSE <<q>>)
  BY DEF As!InForce
<1>2. Chosen = IF p # As!NoProfile THEN p ELSE q
  BY DEF Chosen
<1> HIDE DEF a, b, p, q
<1>3. <<a, b>> \o <<>> = <<a, b>>
  OBVIOUS
<1>4. CASE cfProfile = FALSE
  BY <1>1, <1>3, <1>4 DEF a, b
<1>5. CASE cfProfile = TRUE /\ p # As!NoProfile
  BY <1>1, <1>2, <1>5, PairAndOne DEF a, b
<1>6. CASE cfProfile = TRUE /\ p = As!NoProfile
  BY <1>1, <1>2, <1>6, PairAndOne DEF a, b
<1> QED BY <1>4, <1>5, <1>6

LEMMA TwoLayers ==
    ASSUME Doc(cfLayers.include), Doc(cfLayers.main), cfProfile = FALSE
    PROVE  LET g == As!merge(As!With(As!Blank, cfLayers.include),
                             As!With(As!Blank, cfLayers.main))
           IN  File(g) /\ Tops(g, DOMAIN cfLayers.include \cup DOMAIN cfLayers.main)
<1> DEFINE a == cfLayers.include
           b == cfLayers.main
           g == As!merge(As!With(As!Blank, a), As!With(As!Blank, b))
<1>1. /\ File(g)
      /\ \A k \in As!Keys :
            g[k] = IF k \in DOMAIN b /\ b[k] # "zero" THEN b[k]
                   ELSE IF k \in DOMAIN a THEN a[k] ELSE "zero"
  <2>1. File(As!With(As!Blank, a)) /\ File(As!With(As!Blank, b))
    BY DecodeIsFile
  <2>2. \A k \in As!Keys :
           /\ As!With(As!Blank, a)[k] = IF k \in DOMAIN a THEN a[k] ELSE "zero"
           /\ As!With(As!Blank, b)[k] = IF k \in DOMAIN b THEN b[k] ELSE "zero"
    BY DecodeIsFile
  <2> QED BY <2>1, <2>2, MergeIsFile
<1>2. As!InForce = <<a, b>>
  BY InForceIs
<1> HIDE DEF a, b, g
<1>3. \A k : As!Writers(k) = {i \in 1 .. 2 : k \in DOMAIN <<a, b>>[i]}
  BY <1>2 DEF As!Writers
<1>4. \A k : As!Meaning(k) = {i \in 1 .. 2 : k \in DOMAIN <<a, b>>[i] /\ <<a, b>>[i][k] # "zero"}
  BY <1>2, <1>3 DEF As!Meaning
<1>5. Tops(g, DOMAIN a \cup DOMAIN b)
  BY <1>1, <1>2, <1>3, <1>4 DEF Tops
<1> QED BY <1>1, <1>5 DEF a, b, g
LEMMA ThreeLayers ==
    ASSUME NEW set, Doc(cfLayers.include), Doc(cfLayers.main), Doc(Chosen), cfProfile = TRUE,
           DOMAIN cfLayers.include \cup DOMAIN cfLayers.main \cup DOMAIN Chosen \subseteq set
    PROVE  LET g == As!merge(As!merge(As!With(As!Blank, cfLayers.include),
                                      As!With(As!Blank, cfLayers.main)),
                             As!With(As!Blank, Chosen))
           IN  File(g) /\ Tops(g, set)
<1> DEFINE a == cfLayers.include
           b == cfLayers.main
           c == Chosen
           h == As!merge(As!With(As!Blank, a), As!With(As!Blank, b))
           g == As!merge(h, As!With(As!Blank, c))
<1>1. /\ File(g)
      /\ \A k \in As!Keys :
            g[k] = IF k \in DOMAIN c /\ c[k] # "zero" THEN c[k]
                   ELSE IF k \in DOMAIN b /\ b[k] # "zero" THEN b[k]
                   ELSE IF k \in DOMAIN a THEN a[k] ELSE "zero"
  <2>1. File(As!With(As!Blank, a)) /\ File(As!With(As!Blank, b)) /\ File(As!With(As!Blank, c))
    BY DecodeIsFile
  <2>2. \A k \in As!Keys :
           /\ As!With(As!Blank, a)[k] = IF k \in DOMAIN a THEN a[k] ELSE "zero"
           /\ As!With(As!Blank, b)[k] = IF k \in DOMAIN b THEN b[k] ELSE "zero"
           /\ As!With(As!Blank, c)[k] = IF k \in DOMAIN c THEN c[k] ELSE "zero"
    BY DecodeIsFile
  <2>3. File(h) /\ \A k \in As!Keys : h[k] = IF As!With(As!Blank, b)[k] = "zero"
                                           THEN As!With(As!Blank, a)[k] ELSE As!With(As!Blank, b)[k]
    BY <2>1, MergeIsFile
  <2> HIDE DEF h
  <2>4. File(g) /\ \A k \in As!Keys : g[k] = IF As!With(As!Blank, c)[k] = "zero"
                                           THEN h[k] ELSE As!With(As!Blank, c)[k]
    BY <2>1, <2>3, MergeIsFile
  <2> HIDE DEF a, b, c, g
  <2> QED BY <2>2, <2>3, <2>4
<1>2. As!InForce = <<a, b, c>>
  BY InForceIs
<1>3. DOMAIN a \cup DOMAIN b \cup DOMAIN c \subseteq set
  OBVIOUS
<1> HIDE DEF a, b, c, g
<1>4. \A k : As!Writers(k) = {i \in 1 .. 3 : k \in DOMAIN <<a, b, c>>[i]}
  BY <1>2 DEF As!Writers
<1>5. \A k : As!Meaning(k)
               = {i \in 1 .. 3 : k \in DOMAIN <<a, b, c>>[i] /\ <<a, b, c>>[i][k] # "zero"}
  BY <1>2, <1>4 DEF As!Meaning
<1>6. Tops(g, set)
  BY <1>1, <1>2, <1>3, <1>4, <1>5 DEF Tops
<1> QED BY <1>1, <1>6 DEF a, b, c, g, h

\* A resolved file: every value fits, what was written is kept, and what is accepted was not
\* complained about.
Resolved(r) ==
    /\ r.state \in {"accepted", "refused"}
    /\ File(r.v) /\ r.set \subseteq As!Keys
    /\ r.state = "accepted" => As!Validate(r.v, r.set) = {}
    /\ \A k \in As!Keys :
          IF As!Meaning(k) # {} THEN r.v[k] = As!InForce[As!Max(As!Meaning(k))][k]
          ELSE As!Writers(k) # {} /\ k \in ZeroKeys => r.v[k] = "zero"

\* Max is the last layer that means something.
LEMMA LastMeaning ==
    ASSUME cfProfile \in BOOLEAN, NEW k, As!Meaning(k) # {}
    PROVE  As!Max(As!Meaning(k)) \in As!Meaning(k)
           /\ \A j \in As!Meaning(k) : j <= As!Max(As!Meaning(k))
<1>1. As!Meaning(k) \subseteq 1 .. 3
  <2>1. DOMAIN As!InForce \subseteq 1 .. 3
    <3> DEFINE a == cfLayers.include
               b == cfLayers.main
    <3>1. As!InForce \in {<<a, b>>, <<a, b, Chosen>>}
      BY InForceIs
    <3> HIDE DEF a, b
    <3> QED BY <3>1
  <2> QED BY <2>1 DEF As!Meaning, As!Writers
<1>2. \E i \in As!Meaning(k) : \A j \in As!Meaning(k) : i >= j
  BY <1>1
<1>3. /\ As!Max(As!Meaning(k)) \in As!Meaning(k)
      /\ \A j \in As!Meaning(k) : As!Max(As!Meaning(k)) >= j
  BY <1>2 DEF As!Max
<1> QED BY <1>1, <1>3

\* Defaults and the verdict on what the layers come to.
LEMMA VerdictResolves ==
    ASSUME cfProfile \in BOOLEAN,
           NEW g, NEW set \in SUBSET As!Keys, File(g), Tops(g, set), NEW r,
           r = [state |-> IF As!Validate(As!defaults(g, set), set) = {} THEN "accepted"
                          ELSE "refused",
                v |-> As!defaults(g, set), set |-> set,
                problems |-> As!Validate(As!defaults(g, set), set)]
    PROVE  Resolved(r)
<1>1. Keeps(g, As!defaults(g, set), set)
  BY DefaultsKeep
<1>2. ASSUME NEW k \in As!Keys, As!Meaning(k) # {}
      PROVE  As!defaults(g, set)[k] = As!InForce[As!Max(As!Meaning(k))][k]
  BY <1>1, <1>2, LastMeaning DEF Tops, Keeps
<1>3. ASSUME NEW k \in As!Keys, As!Meaning(k) = {}, As!Writers(k) # {}, k \in ZeroKeys
      PROVE  As!defaults(g, set)[k] = "zero"
  BY <1>1, <1>3 DEF Tops, Keeps
<1>4. File(As!defaults(g, set))
  BY <1>1 DEF Keeps
<1> QED BY <1>2, <1>3, <1>4 DEF Resolved

LEMMA LoadResolves ==
    ASSUME Layers(cfLayers), cfProfile \in BOOLEAN, As!Load
    PROVE  cfResolved' = [state |-> "error"] \/ Resolved(cfResolved')
<1> DEFINE a == cfLayers.include
           b == cfLayers.main
           base == As!merge(As!With(As!Blank, a), As!With(As!Blank, b))
           set0 == DOMAIN a \cup DOMAIN b
           keys == (DOMAIN cfLayers.profile \cup DOMAIN cfLayers.included)
                      \ DOMAIN As!NoProfile
<1>1. /\ As!loadFile.v = base /\ As!loadFile.set = set0
      /\ As!loadFile.profile = Chosen /\ As!loadFile.keys = keys
  BY DEF As!loadFile, As!decode, Chosen
<1>2. cfResolved' = IF cfProfile /\ Chosen = As!NoProfile THEN [state |-> "error"]
                    ELSE As!resolve(base, set0,
                                    IF Chosen = As!NoProfile THEN As!Empty ELSE Chosen,
                                    keys, cfProfile)
  BY <1>1 DEF As!Load
<1>3. DOMAIN a \subseteq As!Keys /\ DOMAIN b \subseteq As!Keys
  BY DEF Layers, Doc
<1>4. DOMAIN As!NoProfile = {"absent"}
  BY DEF As!NoProfile
<1>5. keys \subseteq As!Keys
  BY <1>4 DEF Layers, Profile, Doc
<1>6. CASE cfProfile = FALSE
  <2>1. File(base) /\ Tops(base, set0)
    BY <1>6, TwoLayers DEF Layers
  <2>2. cfResolved' = [state |-> IF As!Validate(As!defaults(base, set0), set0) = {} THEN "accepted"
                                 ELSE "refused",
                       v |-> As!defaults(base, set0), set |-> set0,
                       problems |-> As!Validate(As!defaults(base, set0), set0)]
    <3> HIDE DEF base, set0, keys
    <3> QED BY <1>2, <1>6 DEF As!resolve
  <2> QED BY <1>3, <2>1, <2>2, VerdictResolves
<1>7. CASE cfProfile = TRUE /\ Chosen # As!NoProfile
  <2> DEFINE g == As!merge(base, As!With(As!Blank, Chosen))
             set == set0 \cup keys
  <2>1. Doc(Chosen)
    BY <1>7 DEF Layers, Profile, Chosen
  <2>2. DOMAIN Chosen \subseteq keys
    BY <1>4, <2>1, OwnValues DEF Chosen, Doc
  <2>3. File(g) /\ Tops(g, set)
    BY <1>7, <2>1, <2>2, ThreeLayers DEF Layers
  <2>4. cfResolved' = [state |-> IF As!Validate(As!defaults(g, set), set) = {} THEN "accepted"
                                 ELSE "refused",
                       v |-> As!defaults(g, set), set |-> set,
                       problems |-> As!Validate(As!defaults(g, set), set)]
    <3> HIDE DEF base, set0, keys
    <3> QED BY <1>2, <1>7 DEF As!resolve
  <2>5. set \subseteq As!Keys
    BY <1>3, <1>5
  <2> HIDE DEF g, set
  <2> QED BY <2>3, <2>4, <2>5, VerdictResolves
<1>8. CASE cfProfile = TRUE /\ Chosen = As!NoProfile
  BY <1>2, <1>8
<1> QED BY <1>6, <1>7, <1>8
-----------------------------------------------------------------------------
(* The worker that is built from it.                                         *)

FileTypes ==
    /\ Layers(cfLayers) /\ cfProfile \in BOOLEAN
    /\ cfResolved \in {As!Unread, [state |-> "error"]} \/ Resolved(cfResolved)
    /\ asStep \in As!Steps /\ asNote \in BOOLEAN /\ asClosers \in Seq(As!Resources)

\* Only an accepted campaign is built.
BuildsAccepted == asStep # "idle" => Resolved(cfResolved) /\ cfResolved.state = "accepted"

\* Everything that is held has a closer, and closers have run at the end.
HeldIsClosed ==
    /\ asHeld \subseteq As!Range(asClosers)
    /\ asStep \in {"failed", "closed"} => asHeld = {}

\* From the choice of the executor on, its tier is what the file asked for, or noted.
TierIsHonoured ==
    asStep \in {"engine", "built"} /\ asTier \in NamedTiers =>
        /\ cfResolved.v.executor # "auto" => asTier = cfResolved.v.executor /\ ~asNote
        /\ asTier # As!tierFor(cfResolved.v) => asNote

StackIsBuilt == asStep = "built" => asStack = As!feedbackStack(cfResolved.v)

\* From the choice of the executor on, the regions are there.
RegionsAreHeld ==
    asStep \in {"executor", "engine", "built"} => As!Range(As!regions(cfResolved.v)) \subseteq asHeld

AsInv ==
    part = "assembly" =>
        /\ FileTypes /\ BuildsAccepted /\ HeldIsClosed
        /\ TierIsHonoured /\ StackIsBuilt /\ RegionsAreHeld

LEMMA InitAsInv == Init => AsInv
<1> SUFFICES ASSUME Init, part = "assembly" PROVE AsInv
  BY DEF AsInv
<1>1. As!BuildInit
  BY DEF Init
<1>2. Layers(cfLayers) /\ cfProfile \in BOOLEAN /\ cfResolved = As!Unread
  BY <1>1, LayersAreDocs DEF As!BuildInit, As!Init
<1>3. asStep = "idle" /\ asHeld = {} /\ asClosers = <<>> /\ asNote = FALSE
  BY <1>1 DEF As!BuildInit, As!InitBuild
<1>4. FileTypes
  <2>1. <<>> \in Seq(As!Resources)
    OBVIOUS
  <2>2. "idle" \in As!Steps
    BY DEF As!Steps
  <2> QED BY <1>2, <1>3, <2>1, <2>2 DEF FileTypes
<1> QED
  BY <1>3, <1>4 DEF AsInv, BuildsAccepted, HeldIsClosed, TierIsHonoured, StackIsBuilt,
     RegionsAreHeld

\* Resolved speaks of the layers, which nothing changes.
LEMMA ResolvedStays ==
    ASSUME NEW r, cfLayers' = cfLayers, cfProfile' = cfProfile, cfResolved' = r, Resolved(r)
    PROVE  Resolved(cfResolved)'
<1>1. As!InForce' = As!InForce
  BY DEF As!InForce
<1>2. \A k : As!Writers(k)' = As!Writers(k)
  BY <1>1 DEF As!Writers
<1>3. \A k : As!Meaning(k)' = As!Meaning(k)
  BY <1>1, <1>2 DEF As!Meaning
<1> QED BY <1>1, <1>2, <1>3 DEF Resolved, File

LEMMA LoadAsInv ==
    ASSUME AsInv, part = "assembly", part' = part, As!Next, UNCHANGED As!asVars
    PROVE  AsInv'
<1>0. FileTypes /\ BuildsAccepted /\ HeldIsClosed /\ As!Load
  BY DEF AsInv, As!Next
<1>1. cfResolved = As!Unread /\ cfLayers' = cfLayers /\ cfProfile' = cfProfile
  BY <1>0 DEF As!Load
<1>2. asStep = "idle"
  BY <1>0, <1>1 DEF BuildsAccepted, Resolved, As!Unread
<1>3. /\ asStep' = asStep /\ asHeld' = asHeld /\ asClosers' = asClosers /\ asNote' = asNote
  BY DEF As!asVars
<1>4. cfResolved' = [state |-> "error"] \/ Resolved(cfResolved')
  BY <1>0, LoadResolves DEF FileTypes
<1>5. Layers(cfLayers)'
  BY <1>0, <1>1 DEF FileTypes, Layers, Profile, Doc
<1>6. FileTypes'
  BY <1>0, <1>1, <1>3, <1>4, <1>5, ResolvedStays DEF FileTypes
<1> QED
  BY <1>0, <1>2, <1>3, <1>6 DEF AsInv, BuildsAccepted, HeldIsClosed, TierIsHonoured,
     StackIsBuilt, RegionsAreHeld

\* What two sequences of resources hold is what they hold together.
LEMMA Joined ==
    ASSUME NEW R, NEW s \in Seq(R), NEW t \in Seq(R)
    PROVE  /\ s \o t \in Seq(R)
           /\ As!Range(s) \cup As!Range(t) \subseteq As!Range(s \o t)
<1>1. /\ s \o t \in Seq(R) /\ Len(s \o t) = Len(s) + Len(t)
      /\ \A i \in 1 .. Len(s) + Len(t) : (s \o t)[i] = IF i <= Len(s) THEN s[i] ELSE t[i - Len(s)]
  BY ConcatProperties
<1>2. /\ DOMAIN s = 1 .. Len(s) /\ DOMAIN t = 1 .. Len(t)
      /\ DOMAIN (s \o t) = 1 .. Len(s) + Len(t) /\ Len(s) \in Nat /\ Len(t) \in Nat
  BY <1>1
<1>3. ASSUME NEW x \in As!Range(s) PROVE x \in As!Range(s \o t)
  <2>1. PICK i \in DOMAIN s : x = s[i]
    BY DEF As!Range
  <2>2. i \in DOMAIN (s \o t) /\ (s \o t)[i] = x
    BY <1>1, <1>2, <2>1
  <2> QED BY <2>2 DEF As!Range
<1>4. ASSUME NEW x \in As!Range(t) PROVE x \in As!Range(s \o t)
  <2>1. PICK i \in DOMAIN t : x = t[i]
    BY DEF As!Range
  <2>2. i + Len(s) \in DOMAIN (s \o t) /\ (s \o t)[i + Len(s)] = x
    BY <1>1, <1>2, <2>1
  <2> QED BY <2>2 DEF As!Range
<1> QED BY <1>1, <1>3, <1>4

\* What is acquired goes to the closers.
LEMMA AcquireHeld ==
    ASSUME NEW what \in Seq(As!Resources), asClosers \in Seq(As!Resources),
           asHeld \subseteq As!Range(asClosers), As!acquire(what)
    PROVE  asClosers' \in Seq(As!Resources) /\ asHeld' \subseteq As!Range(asClosers')
<1>1. asClosers' = asClosers \o what /\ asHeld' = asHeld \cup As!Range(what)
  BY DEF As!acquire
<1>2. /\ asClosers \o what \in Seq(As!Resources)
      /\ As!Range(asClosers) \cup As!Range(what) \subseteq As!Range(asClosers \o what)
  BY Joined
<1> QED BY <1>1, <1>2

\* What an instrumented campaign asks for has its region.
LEMMA RegionsAreResources ==
    ASSUME NEW v
    PROVE  /\ As!regions(v) \in Seq(As!Resources)
           /\ v.coverage \in {"sancov", "gocov"} =>
                 /\ As!regions(v) # <<>>
                 /\ v.directed # "zero" => "block-trace region" \in As!Range(As!regions(v))
                 /\ v.cmplog = "true" => "comparison region" \in As!Range(As!regions(v))
<1> DEFINE R == As!Resources
           a == <<"coverage region">>
           b == IF v.coverage = "gocov" THEN <<"counter region">> ELSE <<>>
           c == IF v.directed # "zero" THEN <<"block-trace region">> ELSE <<>>
           d == IF v.cmplog = "true" THEN <<"comparison region">> ELSE <<>>
<1>0. <<>> \in Seq(R)
  OBVIOUS
<1>4. \A x : x \in As!Range(<<x>>)
  <2> SUFFICES ASSUME NEW x PROVE x \in As!Range(<<x>>)
    OBVIOUS
  <2>1. 1 \in DOMAIN <<x>> /\ <<x>>[1] = x
    OBVIOUS
  <2> QED BY <2>1 DEF As!Range
<1>1. a \in Seq(R) /\ b \in Seq(R) /\ c \in Seq(R) /\ d \in Seq(R)
  <2>1. {"coverage region", "counter region", "block-trace region", "comparison region"}
           \subseteq R
    BY DEF As!Resources
  <2> HIDE DEF R
  <2>2. \A x \in R : <<x>> \in Seq(R)
    OBVIOUS
  <2> QED BY <1>0, <2>1, <2>2
<1>2. /\ As!regions(v) \in {<<>>, a \o b \o c \o d}
      /\ v.coverage \in {"sancov", "gocov"} => As!regions(v) = a \o b \o c \o d
  BY DEF As!regions, As!IsBinaryOnlyCoverage
<1>5. /\ "coverage region" \in As!Range(a)
      /\ v.directed # "zero" => "block-trace region" \in As!Range(c)
      /\ v.cmplog = "true" => "comparison region" \in As!Range(d)
  BY <1>4
<1> HIDE DEF R, a, b, c, d
<1>3. /\ a \o b \o c \o d \in Seq(R)
      /\ As!Range(a) \cup As!Range(c) \cup As!Range(d) \subseteq As!Range(a \o b \o c \o d)
  <2>1. a \o b \in Seq(R) /\ As!Range(a) \subseteq As!Range(a \o b)
    BY <1>1, Joined
  <2>2. /\ a \o b \o c \in Seq(R)
        /\ As!Range(a \o b) \cup As!Range(c) \subseteq As!Range(a \o b \o c)
    BY <1>1, <2>1, Joined
  <2>3. /\ a \o b \o c \o d \in Seq(R)
        /\ As!Range(a \o b \o c) \cup As!Range(d) \subseteq As!Range(a \o b \o c \o d)
    BY <1>1, <2>2, Joined
  <2> QED BY <2>1, <2>2, <2>3
<1>6. As!Range(<<>>) = {}
  BY DEF As!Range
<1>7. v.coverage \in {"sancov", "gocov"} => As!regions(v) # <<>>
  BY <1>2, <1>3, <1>5, <1>6
<1> QED BY <1>0, <1>2, <1>3, <1>5, <1>7 DEF R

\* What every step of build starts from.
Building ==
    /\ part = "assembly" /\ part' = part
    /\ FileTypes /\ HeldIsClosed /\ TierIsHonoured /\ StackIsBuilt /\ RegionsAreHeld
    /\ Resolved(cfResolved) /\ cfResolved.state = "accepted"
    /\ cfLayers' = cfLayers /\ cfProfile' = cfProfile /\ cfResolved' = cfResolved

LEMMA StepBuilds ==
    ASSUME AsInv, part = "assembly", part' = part, As!BuildStep, UNCHANGED As!cfVars
    PROVE  Building
<1>1. FileTypes /\ BuildsAccepted /\ HeldIsClosed /\ TierIsHonoured /\ StackIsBuilt
      /\ RegionsAreHeld
  BY DEF AsInv
<1>2. cfLayers' = cfLayers /\ cfProfile' = cfProfile /\ cfResolved' = cfResolved
  BY DEF As!cfVars
<1>3. asStep # "idle" \/ cfResolved.state = "accepted"
  BY DEF As!BuildStep, As!Start, As!buildSafety, As!buildExtensions, As!buildFeedback, As!unwind,
     As!buildSession, As!buildAPI, As!buildDriver, As!buildExecutor, As!buildEmulated,
     As!finishBuild, As!Close, As!Plainly
<1>4. Resolved(cfResolved) /\ cfResolved.state = "accepted"
  BY <1>1, <1>3 DEF BuildsAccepted, FileTypes, As!Unread
<1> QED BY <1>1, <1>2, <1>4 DEF Building

\* What is left to show of a step.
LEMMA BuildingAsInv ==
    ASSUME Building, asStep' \in As!Steps, asNote' \in BOOLEAN, asClosers' \in Seq(As!Resources),
           HeldIsClosed', TierIsHonoured', StackIsBuilt', RegionsAreHeld'
    PROVE  AsInv'
<1>1. Layers(cfLayers)' /\ (cfProfile \in BOOLEAN)' /\ Resolved(cfResolved)'
  BY ResolvedStays DEF Building, FileTypes, Layers, Profile, Doc
<1>2. FileTypes' /\ BuildsAccepted'
  BY <1>1 DEF FileTypes, BuildsAccepted, Building
<1> QED BY <1>2 DEF AsInv, Building

\* A step that acquires something, or fails after it did, before the executor is chosen.
LEMMA EarlyAsInv ==
    ASSUME Building, NEW what \in Seq(As!Resources), As!acquire(what), asNote' = asNote,
           asStep' \in {"safety", "extensions", "feedback", "executor", "unwind"},
           asStep' = "executor" => As!Range(As!regions(cfResolved.v)) \subseteq asHeld'
    PROVE  AsInv'
<1>1. asClosers' \in Seq(As!Resources) /\ asHeld' \subseteq As!Range(asClosers')
  BY AcquireHeld DEF Building, FileTypes, HeldIsClosed
<1>2. HeldIsClosed' /\ TierIsHonoured' /\ StackIsBuilt'
  BY <1>1 DEF HeldIsClosed, TierIsHonoured, StackIsBuilt
<1>3. asStep' \in As!Steps
  BY DEF As!Steps
<1>4. RegionsAreHeld'
  BY DEF RegionsAreHeld, Building
<1> QED BY <1>1, <1>2, <1>3, <1>4, BuildingAsInv DEF Building, FileTypes

\* What a step acquires beside them leaves the regions where they are.
LEMMA RegionsGrow ==
    ASSUME RegionsAreHeld, NEW what, As!acquire(what), cfResolved' = cfResolved,
           asStep \in {"executor", "engine", "built"}
    PROVE  RegionsAreHeld'
<1>1. As!regions(cfResolved.v)' = As!regions(cfResolved.v)
  OBVIOUS
<1>2. asHeld \subseteq asHeld'
  BY DEF As!acquire
<1> QED BY <1>1, <1>2 DEF RegionsAreHeld

\* A step that puts the executor, and what it needs, in place.
LEMMA ExecutorAsInv ==
    ASSUME Building, NEW what \in Seq(As!Resources), As!acquire(what), asNote' \in BOOLEAN,
           asStep = "executor", asStep' = "engine", TierIsHonoured'
    PROVE  AsInv'
<1>1. asClosers' \in Seq(As!Resources) /\ asHeld' \subseteq As!Range(asClosers')
  BY AcquireHeld DEF Building, FileTypes, HeldIsClosed
<1>2. HeldIsClosed' /\ StackIsBuilt'
  BY <1>1 DEF HeldIsClosed, StackIsBuilt
<1>3. asStep' \in As!Steps
  BY DEF As!Steps
<1>4. RegionsAreHeld'
  BY RegionsGrow DEF Building
<1> QED BY <1>1, <1>2, <1>3, <1>4, BuildingAsInv

\* The sequences of resources that the steps acquire.
LEMMA Acquired ==
    /\ <<>> \in Seq(As!Resources)
    /\ \A x \in As!Resources : <<x>> \in Seq(As!Resources)
    /\ \A x, y \in As!Resources : <<x>> \o <<y>> \in Seq(As!Resources)
OBVIOUS

LEMMA PrepareAsInv ==
    ASSUME Building, As!Start \/ As!buildSafety \/ As!buildExtensions \/ As!buildFeedback
    PROVE  AsInv'
<1>0. {"sandbox", "plugins"} \subseteq As!Resources
  BY DEF As!Resources
<1>1. CASE As!Start
  <2>1. /\ asStep' = "safety" /\ asHeld' = asHeld /\ asClosers' = asClosers /\ asNote' = asNote
    BY <1>1 DEF As!Start
  <2>2. HeldIsClosed' /\ TierIsHonoured' /\ StackIsBuilt' /\ RegionsAreHeld'
    BY <2>1 DEF HeldIsClosed, TierIsHonoured, StackIsBuilt, RegionsAreHeld, Building
  <2>3. asStep' \in As!Steps
    BY <2>1 DEF As!Steps
  <2> QED BY <2>1, <2>2, <2>3, BuildingAsInv DEF Building, FileTypes
<1>2. CASE As!buildSafety
  <2>1. /\ As!acquire(<<"sandbox">>) /\ asNote' = asNote
        /\ asStep' \in {"extensions", "unwind"}
    BY <1>2 DEF As!buildSafety, As!fails
  <2> QED BY <1>0, <2>1, Acquired, EarlyAsInv
<1>3. CASE As!buildExtensions
  <2>1. /\ asNote' = asNote /\ asStep' \in {"feedback", "unwind"}
        /\ \/ As!acquire(<<"plugins">>) \/ As!acquire(<<>>)
           \/ asHeld' = asHeld /\ asClosers' = asClosers
    BY <1>3 DEF As!buildExtensions, As!fails
  <2>2. CASE As!acquire(<<"plugins">>) \/ As!acquire(<<>>)
    BY <1>0, <2>1, <2>2, Acquired, EarlyAsInv
  <2>3. CASE asHeld' = asHeld /\ asClosers' = asClosers
    <3>1. HeldIsClosed' /\ TierIsHonoured' /\ StackIsBuilt' /\ RegionsAreHeld'
      BY <2>1, <2>3 DEF HeldIsClosed, TierIsHonoured, StackIsBuilt, RegionsAreHeld, Building
    <3>2. asStep' \in As!Steps
      BY <2>1 DEF As!Steps
    <3> QED BY <2>1, <2>3, <3>1, <3>2, BuildingAsInv DEF Building, FileTypes
  <2> QED BY <2>1, <2>2, <2>3
<1>4. CASE As!buildFeedback
  <2> DEFINE r == As!regions(As!cfg)
  <2>1. PICK n \in 0 .. Len(r) : /\ As!acquire(SubSeq(r, 1, n))
                                  /\ asStep' = IF n = Len(r) THEN "executor" ELSE "unwind"
    BY <1>4 DEF As!buildFeedback, As!createRegions
  <2>2. r \in Seq(As!Resources)
    BY RegionsAreResources
  <2>3. SubSeq(r, 1, n) \in Seq(As!Resources)
    <3> HIDE DEF r
    <3> QED BY <2>2
  <2>4. asNote' = asNote /\ asStep' \in {"executor", "unwind"}
    BY <1>4 DEF As!buildFeedback
  <2>5. asStep' = "executor" => As!Range(As!regions(cfResolved.v)) \subseteq asHeld'
    <3>1. r = As!regions(cfResolved.v)
      BY DEF As!cfg
    <3> HIDE DEF r
    <3>2. asStep' = "executor" => SubSeq(r, 1, n) = r
      BY <2>1, <2>2, SubSeqFull
    <3>3. As!Range(SubSeq(r, 1, n)) \subseteq asHeld'
      BY <2>1 DEF As!acquire
    <3> QED BY <3>1, <3>2, <3>3
  <2> QED BY <2>1, <2>3, <2>4, <2>5, EarlyAsInv
<1> QED BY <1>1, <1>2, <1>3, <1>4

LEMMA ChooseAsInv ==
    ASSUME Building, As!buildSession \/ As!buildAPI \/ As!buildDriver
    PROVE  AsInv'
<1>0. {"executor", "browser sandbox"} \subseteq As!Resources
  BY DEF As!Resources
<1>1. ASSUME NEW tier \in {"session", "api"}, As!delivers(tier, FALSE), asStep = "executor"
      PROVE  AsInv'
  <2>1. /\ As!acquire(<<"executor">>) /\ asStep' = "engine" /\ asNote' \in BOOLEAN
        /\ asTier' = tier
    BY <1>1 DEF As!delivers
  <2>2. TierIsHonoured'
    BY <2>1 DEF TierIsHonoured, NamedTiers
  <2> QED BY <1>0, <1>1, <2>1, <2>2, Acquired, ExecutorAsInv
<1>2. ASSUME NEW what \in Seq(As!Resources), As!fails(what) PROVE AsInv'
  BY <1>2, EarlyAsInv DEF As!fails
<1>3. CASE As!buildSession
  BY <1>0, <1>1, <1>2, <1>3, Acquired DEF As!buildSession
<1>4. CASE As!buildAPI
  BY <1>0, <1>1, <1>2, <1>4, Acquired DEF As!buildAPI
<1>5. CASE As!buildDriver
  <2>1. PICK browser \in {<<>>, <<"browser sandbox">>} :
           \/ /\ asStep' = "engine" /\ As!acquire(browser \o <<"executor">>)
              /\ asTier' = cfResolved.v.driverKind /\ asNote' = asNote
           \/ As!fails(browser)
    BY <1>5 DEF As!buildDriver, As!cfg
  <2>2. browser \in Seq(As!Resources) /\ browser \o <<"executor">> \in Seq(As!Resources)
    <3>1. <<"executor">> \in Seq(As!Resources) /\ browser \in Seq(As!Resources)
      BY <1>0, <2>1, Acquired
    <3> QED BY <3>1, ConcatProperties, Zenon
  <2>3. CASE As!fails(browser)
    BY <1>2, <2>2, <2>3
  <2>4. CASE ~As!fails(browser)
    <3>1. cfResolved.v.driverKind \notin NamedTiers
      BY KnownKeys, OwnValues DEF Building, Resolved, File
    <3>2. TierIsHonoured'
      BY <2>1, <2>4, <3>1 DEF TierIsHonoured
    <3>3. asStep = "executor"
      BY <1>5 DEF As!buildDriver
    <3> QED BY <2>1, <2>2, <2>4, <3>2, <3>3, ExecutorAsInv DEF Building, FileTypes
  <2> QED BY <2>3, <2>4
<1> QED BY <1>3, <1>4, <1>5

LEMMA PlainAsInv ==
    ASSUME Building, As!buildExecutor \/ As!buildEmulated
    PROVE  AsInv'
<1>0. "executor" \in As!Resources
  BY DEF As!Resources
<1>1. CASE As!fails(<<>>)
  BY <1>1, Acquired, EarlyAsInv DEF As!fails
<1>2. CASE ~As!fails(<<>>)
  <2> DEFINE v == cfResolved.v
             t == As!tierFor(v)
  <2>1. \/ As!delivers(t, FALSE)
        \/ v.executor = "auto" /\ As!delivers("subprocess", TRUE)
    BY <1>2 DEF As!buildExecutor, As!buildEmulated, As!mayFallBack, As!cfg, As!Plainly
  <2>2. v.executor # "auto" => t = v.executor
    BY DEF As!tierFor
  <2>3. /\ As!acquire(<<"executor">>) /\ asStep' = "engine" /\ asNote' \in BOOLEAN
        /\ \/ asTier' = t /\ asNote' = FALSE
           \/ v.executor = "auto" /\ asNote' = TRUE
    BY <2>1 DEF As!delivers
  <2>4. TierIsHonoured'
    <3>1. cfResolved' = cfResolved
      BY DEF Building
    <3>2. As!tierFor(cfResolved.v)' = t
      BY <3>1 DEF As!tierFor
    <3> HIDE DEF t
    <3> QED BY <2>2, <2>3, <3>1, <3>2 DEF TierIsHonoured
  <2>5. asStep = "executor"
    BY DEF As!buildExecutor, As!buildEmulated, As!Plainly
  <2> QED BY <1>0, <2>3, <2>4, <2>5, Acquired, ExecutorAsInv
<1> QED BY <1>1, <1>2

LEMMA EndAsInv ==
    ASSUME Building, As!finishBuild \/ As!unwind \/ As!Close
    PROVE  AsInv'
<1>1. CASE As!finishBuild
  <2>0. "engine" \in As!Resources
    BY DEF As!Resources
  <2>1. CASE As!fails(<<>>)
    BY <2>1, Acquired, EarlyAsInv DEF As!fails
  <2>2. CASE ~As!fails(<<>>)
    <3>1. /\ asStep = "engine" /\ asStep' = "built" /\ As!acquire(<<"engine">>)
          /\ asStack' = As!feedbackStack(cfResolved.v) /\ asTier' = asTier /\ asNote' = asNote
      BY <1>1, <2>2 DEF As!finishBuild, As!cfg
    <3>2. asClosers' \in Seq(As!Resources) /\ asHeld' \subseteq As!Range(asClosers')
      BY <2>0, <3>1, Acquired, AcquireHeld DEF Building, FileTypes, HeldIsClosed
    <3>3. cfResolved' = cfResolved
      BY DEF Building
    <3>4. HeldIsClosed' /\ TierIsHonoured' /\ StackIsBuilt'
      <4>1. As!feedbackStack(cfResolved.v)' = As!feedbackStack(cfResolved.v)
        BY <3>3
      <4>2. As!tierFor(cfResolved.v)' = As!tierFor(cfResolved.v)
        BY <3>3
      <4>3. HeldIsClosed' /\ StackIsBuilt'
        BY <3>1, <3>2, <3>3, <4>1 DEF HeldIsClosed, StackIsBuilt
      <4>4. TierIsHonoured'
        BY <3>1, <3>3, <4>2 DEF TierIsHonoured, Building
      <4> QED BY <4>3, <4>4
    <3>5. asStep' \in As!Steps
      BY <3>1 DEF As!Steps
    <3>6. RegionsAreHeld'
      BY <3>1, RegionsGrow DEF Building
    <3> QED BY <3>1, <3>2, <3>4, <3>5, <3>6, BuildingAsInv DEF Building, FileTypes
  <2> QED BY <2>1, <2>2
<1>2. CASE As!unwind \/ As!Close
  <2>1. /\ asStep' \in {"failed", "closed"} /\ asClosers' = asClosers /\ asNote' = asNote
        /\ asHeld' = asHeld \ As!Range(asClosers) \/ (asStep = "closed" /\ asHeld' = asHeld)
    BY <1>2 DEF As!unwind, As!Close, As!closeAll
  <2>2. asHeld' = {}
    BY <2>1 DEF Building, HeldIsClosed
  <2>3. HeldIsClosed' /\ TierIsHonoured' /\ StackIsBuilt' /\ RegionsAreHeld'
    BY <2>1, <2>2 DEF HeldIsClosed, TierIsHonoured, StackIsBuilt, RegionsAreHeld
  <2>4. asStep' \in As!Steps
    BY <2>1 DEF As!Steps
  <2> QED BY <2>1, <2>3, <2>4, BuildingAsInv DEF Building, FileTypes
<1> QED BY <1>1, <1>2

\* Every step keeps it.
LEMMA StepAsInv == AsInv /\ [Next]_vars => AsInv'
<1> SUFFICES ASSUME AsInv, [Next]_vars, part' = "assembly" PROVE AsInv'
  BY DEF AsInv
<1>0. part' = part /\ part = "assembly"
  BY DEF Next, vars
<1>1. CASE As!Next /\ UNCHANGED As!asVars
  BY <1>0, <1>1, LoadAsInv
<1>2. CASE As!BuildStep /\ UNCHANGED As!cfVars
  <2>1. Building
    BY <1>0, <1>2, StepBuilds
  <2> QED BY <1>2, <2>1, PrepareAsInv, ChooseAsInv, PlainAsInv, EndAsInv DEF As!BuildStep
<1>3. CASE UNCHANGED asVars
  <2>1. /\ cfLayers' = cfLayers /\ cfProfile' = cfProfile /\ cfResolved' = cfResolved
        /\ asStep' = asStep /\ asHeld' = asHeld /\ asClosers' = asClosers /\ asTier' = asTier
        /\ asNote' = asNote /\ asStack' = asStack
    BY <1>3 DEF asVars
  <2>2. Resolved(cfResolved) => Resolved(cfResolved)'
    BY <2>1, ResolvedStays
  <2>3. Layers(cfLayers)' <=> Layers(cfLayers)
    BY <2>1
  <2> QED
    BY <1>0, <2>1, <2>2, <2>3 DEF AsInv, FileTypes, BuildsAccepted, HeldIsClosed, TierIsHonoured,
       StackIsBuilt, RegionsAreHeld
<1> QED BY <1>0, <1>1, <1>2, <1>3 DEF Next, vars, As!BuildNext
\* The steps keep the promise of the file.
LEMMA FileIsKept == AsInv => FileIsHonoured
<1> SUFFICES ASSUME AsInv, part = "assembly"
             PROVE  /\ As!BuildTypeOK /\ As!WrittenIsKept /\ As!BuiltAsAccepted
                    /\ As!NothingIsLeaked
  BY DEF FileIsHonoured
<1>0. FileTypes /\ BuildsAccepted /\ HeldIsClosed /\ TierIsHonoured /\ StackIsBuilt
      /\ RegionsAreHeld
  BY DEF AsInv
<1>1. As!Read => Resolved(cfResolved)
  BY <1>0 DEF FileTypes, As!Read, As!Unread
<1>2. As!BuildTypeOK
  <2>1. As!TypeOK
    BY <1>0, <1>1 DEF As!TypeOK, FileTypes, Resolved, File, Allowed, As!Written
  <2>2. asHeld \subseteq As!Resources
    BY <1>0 DEF FileTypes, HeldIsClosed, As!Range
  <2> QED BY <1>0, <2>1, <2>2 DEF As!BuildTypeOK, FileTypes
<1>3. As!WrittenIsKept
  BY <1>1, FileAssumption DEF As!WrittenIsKept, Resolved, ZeroKeys
<1>4. As!BuiltAsAccepted
  <2> SUFFICES ASSUME asStep = "built" PROVE As!BuiltAsAccepted
    BY DEF As!BuiltAsAccepted
  <2> DEFINE v == cfResolved.v
  <2>1. As!Validate(v, cfResolved.set) = {}
    BY <1>0 DEF BuildsAccepted, Resolved
  <2>2. v.coverage # "none" \/ v.novelty = "true"
    <3>1. As!Problem(v.coverage = "none" /\ v.novelty # "true", "feedback.coverage") = {}
      BY <2>1 DEF As!Validate, As!validateFeedback
    <3> QED BY <3>1 DEF As!Problem
  <2>3. asStack = As!feedbackStack(v)
    BY <1>0 DEF StackIsBuilt
  <2>4. asStack # {} /\ (v.novelty = "true" => "novelty" \in asStack)
    BY <2>2, <2>3 DEF As!feedbackStack
\* Comparisons are accepted only of an instrumented build, and a value profile only with them.
  <2>5. /\ "true" \in {v.cmplog, v.valueProfile} => v.coverage \in {"sancov", "gocov"}
        /\ v.valueProfile = "true" => v.cmplog = "true"
        /\ v.directed # "zero" => As!IsBinaryOnlyCoverage(v.coverage) \/ v.coverage = "sancov"
    <3>1. /\ As!Problem("true" \in {v.cmplog, v.valueProfile} /\ v.coverage \notin {"sancov", "gocov"},
                        "feedback.cmplog") = {}
          /\ As!Problem(v.valueProfile = "true" /\ v.cmplog # "true", "feedback.value_profile") = {}
          /\ As!Problem(v.directed # "zero" /\ ~As!IsBinaryOnlyCoverage(v.coverage)
                        /\ v.coverage # "sancov", "feedback.directed") = {}
      BY <2>1 DEF As!Validate, As!validateFeedback
    <3> QED BY <3>1 DEF As!Problem
  <2>6. v.valueProfile = "true" => {"value-profile", "map"} \subseteq asStack
    <3>1. v.valueProfile = "true" => As!regions(v) # <<>> /\ v.coverage # "none"
      BY <2>5, RegionsAreResources
    <3> QED BY <2>3, <2>5, <3>1 DEF As!feedbackStack
  <2>7. v.cmplog = "true" => "comparison region" \in asHeld
    BY <1>0, <2>5, RegionsAreResources DEF RegionsAreHeld
  <2>8. v.directed # "zero" => "distance" \in asStack \/ As!IsBinaryOnlyCoverage(v.coverage)
    <3>1. v.directed # "zero" /\ v.coverage = "sancov" => As!directs(v)
      BY RegionsAreResources DEF As!directs
    <3> QED BY <2>3, <2>5, <3>1 DEF As!feedbackStack
  <2> QED BY <1>0, <2>4, <2>6, <2>7, <2>8 DEF As!BuiltAsAccepted, As!cfg, TierIsHonoured, NamedTiers
<1>5. As!NothingIsLeaked
  BY <1>0 DEF As!NothingIsLeaked, HeldIsClosed
<1> QED BY <1>2, <1>3, <1>4, <1>5

\* For any campaigns and keys: of the keys that are layered, the last value that was written is
\* the one in force; every feedback that validation accepts is built with the table it reads,
\* except direction under a backend that watches the process, and so is the tier; and a build
\* that fails, or a worker that closes, gives everything back.
THEOREM FileCorrect == Spec => []FileIsHonoured
BY InitAsInv, StepAsInv, FileIsKept, PTL DEF Spec
=============================================================================
