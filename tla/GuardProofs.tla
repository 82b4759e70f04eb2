----------------------------- MODULE GuardProofs -----------------------------
(***************************************************************************)
(* Proofs about what stands between the fuzzer and other programs: the     *)
(* scope, the recording proxy, the protocol of an extension, the           *)
(* connection to a browser and the sequences of a driver.                  *)
(*                                                                         *)
(* The parts share no variable, so each has an inductive invariant of its  *)
(* own, and a step of another part leaves it alone.                        *)
(***************************************************************************)
EXTENDS MCGuard, SequenceTheorems, TLAPS

-----------------------------------------------------------------------------
(* The spawner and the scope. *)

LEMMA SpawnerTypes == Sp!TypeOK /\ [Next]_vars => Sp!TypeOK'
<1> SUFFICES ASSUME Sp!TypeOK, [Next]_vars PROVE Sp!TypeOK'
  OBVIOUS
<1> USE DEF Sp!TypeOK
<1>1. CASE UNCHANGED spVars
  BY <1>1 DEF spVars
<1>2. CASE Sp!Target \/ Sp!EscapedEnds \/ Sp!Cancel \/ Sp!Waits
  BY <1>2 DEF Sp!Target, Sp!EscapedEnds, Sp!Cancel, Sp!Waits
<1>3. CASE Sp!Begin \/ Sp!RunDone \/ Sp!terminate \/ Sp!reap
  BY <1>3 DEF Sp!Begin, Sp!RunDone, Sp!terminate, Sp!reap, Sp!exitKind, Sp!KillGroup
<1>4. CASE Sp!Start \/ Sp!handleReap
  BY <1>4 DEF Sp!Start, Sp!handleReap
<1>5. ASSUME NEW p \in SpParties, Sp!Enter(p) \/ Sp!Kill(p) \/ Sp!exitSeen(p) \/ Sp!killGivesUp(p)
      PROVE  Sp!TypeOK'
  BY <1>5 DEF Sp!Enter, Sp!Kill, Sp!exitSeen, Sp!killGivesUp, Sp!KillGroup
<1> QED BY <1>1, <1>2, <1>3, <1>4, <1>5 DEF Next, Sp!Next, vars, guardVars

\* Nothing is checked or reached before the worker has its scope, and a campaign that leaves
\* the host comes that far only once its authorization is audited.  What was checked was
\* covered by the rules of the worker, which do not change any more.
ScopeInv ==
    /\ Sc!TypeOK
    /\ Sc!ScopeIsEnforced
    /\ scState # "running" => scReached = {} /\ scChecked.how = "none"
    /\ scState \in {"authorized", "running"} /\ scRemote => "authz.record" \in scAudit
    /\ scChecked.how \in {"address", "name"} =>
           \A a \in scChecked.addrs : Sc!Covered(a, scChecked.port)

LEMMA CheckIsCover ==
    ASSUME NEW a, NEW port, Sc!Check(a, port)
    PROVE  Sc!Covered(a, port)
BY DEF Sc!Check, Sc!Covered, Sc!contains, Sc!portAllowed, Sc!lastAddr

\* A check lets through what is covered.
LEMMA CheckKeepsScope == ScopeInv /\ Sc!CheckAddr => ScopeInv'
<1> SUFFICES ASSUME ScopeInv, Sc!CheckAddr PROVE ScopeInv'
  OBVIOUS
<1>1. PICK how \in {"address", "name"}, a \in Sc!Addresses, port \in ScPorts :
          LET as == IF how = "name" THEN scName ELSE {a}
          IN  scChecked' = IF \A x \in as : Sc!Check(x, port)
                           THEN [how |-> how, addrs |-> as, port |-> port]
                           ELSE [Sc!Unchecked EXCEPT !.how = "refused"]
  BY DEF Sc!CheckAddr
<1>2. /\ scState = "running" /\ scReached = {}
      /\ UNCHANGED <<scName, Sc!buildVars, scAudit, scReached>>
  BY DEF Sc!CheckAddr
<1>3. UNCHANGED <<scRules, scWorker, scLoop, scRemote, scState, scAudit, scReached>>
  BY <1>2 DEF Sc!buildVars
<1> DEFINE as == IF how = "name" THEN scName ELSE {a}
<1>4. CASE \A x \in as : Sc!Check(x, port)
  <2>1. scChecked'.how = how /\ scChecked'.addrs = as /\ scChecked'.port = port
    BY <1>1, <1>4
  <2>2. \A x \in as : Sc!Covered(x, port)
    BY <1>4, CheckIsCover
  <2>3. \A x \in as : Sc!Covered(x, port)'
    BY <1>3, <2>2 DEF Sc!Covered, Sc!lastAddr
  <2> HIDE DEF as
  <2> QED BY <1>2, <1>3, <2>1, <2>3 DEF ScopeInv, Sc!TypeOK, Sc!ScopeIsEnforced, Sc!Covered
<1>5. CASE ~ \A x \in as : Sc!Check(x, port)
  <2>1. scChecked'.how = "refused"
    BY <1>1, <1>5 DEF Sc!Unchecked
  <2> QED BY <1>2, <1>3, <2>1 DEF ScopeInv, Sc!TypeOK, Sc!ScopeIsEnforced
<1> QED BY <1>4, <1>5

\* What is connected to was checked, or came to the name after the check.
LEMMA DialKeepsScope == ScopeInv /\ (Sc!DialContext \/ Sc!DialControl) => ScopeInv'
<1> SUFFICES ASSUME ScopeInv, Sc!DialContext \/ Sc!DialControl PROVE ScopeInv'
  OBVIOUS
<1>0. /\ UNCHANGED <<scRules, scWorker, scLoop, scRemote, scState, scAudit>>
      /\ scState = "running"
  BY DEF ScopeInv, Sc!DialContext, Sc!DialControl, Sc!buildVars
<1>1. CASE Sc!DialContext
  <2>1. PICK tried : scReached' = {[how |-> scChecked.how, addr |-> a, port |-> scChecked.port,
                                    moved |-> a \notin scChecked.addrs] : a \in tried} /\
                     tried \subseteq (IF scChecked.how = "name" THEN scName ELSE scChecked.addrs)
    BY <1>1 DEF Sc!DialContext
  <2>2. scChecked.how \in {"address", "name"} /\ scChecked' = Sc!Unchecked
    BY <1>1 DEF Sc!DialContext
  <2>3. ASSUME NEW d \in scReached'
        PROVE  /\ d.how # "control"
               /\ Sc!Covered(d.addr, d.port) \/ (d.how = "name" /\ d.moved)
    <3>1. PICK a \in tried : d = [how |-> scChecked.how, addr |-> a, port |-> scChecked.port,
                                  moved |-> a \notin scChecked.addrs]
      BY <2>1, <2>3
    <3>2. d.how = scChecked.how /\ d.addr = a /\ d.port = scChecked.port
      BY <3>1
    <3>3. d.moved = (a \notin scChecked.addrs)
      BY <3>1
    <3>4. CASE a \in scChecked.addrs
      BY <2>2, <3>2, <3>4 DEF ScopeInv
    <3>5. CASE a \notin scChecked.addrs
      <4>1. d.moved
        BY <3>3, <3>5
      <4>2. scChecked.how = "name"
        BY <2>1, <2>2, <3>5
      <4> QED BY <2>2, <3>2, <4>1, <4>2
    <3> QED BY <3>4, <3>5
  <2>4. scChecked'.how = "none"
    BY <2>2 DEF Sc!Unchecked
  <2>5. \A d \in scReached' : Sc!Covered(d.addr, d.port)' \/ (d.how = "name" /\ d.moved)
    BY <1>0, <2>3 DEF Sc!Covered, Sc!lastAddr
  <2> QED BY <1>0, <2>3, <2>4, <2>5 DEF ScopeInv, Sc!TypeOK, Sc!ScopeIsEnforced
<1>2. CASE Sc!DialControl
  <2>1. PICK a \in ScLoopback, port \in ScPorts :
            scReached' = {[how |-> "control", addr |-> a, port |-> port, moved |-> FALSE]}
    BY <1>2 DEF Sc!DialControl
  <2>2. scChecked' = scChecked /\ scChecked = Sc!Unchecked
    BY <1>2 DEF Sc!DialControl
  <2>3. \A d \in scReached' : d.how = "control" /\ d.addr \in ScLoopback
    BY <2>1
  <2>4. scChecked.how = "none"
    BY <2>2 DEF Sc!Unchecked
  <2> QED BY <1>0, <2>2, <2>3, <2>4 DEF ScopeInv, Sc!TypeOK, Sc!ScopeIsEnforced
<1> QED BY <1>1, <1>2

\* The steps before anything is checked.
LEMMA BuildKeepsScope ==
    ScopeInv /\ (Sc!Rebind \/ Sc!Allow \/ Sc!Authorize \/ Sc!NewScopeFrom) => ScopeInv'
<1> SUFFICES ASSUME ScopeInv, Sc!Rebind \/ Sc!Allow \/ Sc!Authorize \/ Sc!NewScopeFrom
             PROVE  ScopeInv'
  OBVIOUS
<1>1. UNCHANGED <<scLoop, scRemote, scChecked, scReached>>
  BY DEF Sc!Rebind, Sc!Allow, Sc!Authorize, Sc!NewScopeFrom, Sc!buildVars
<1>2. CASE Sc!Rebind
  BY <1>1, <1>2 DEF Sc!Rebind, Sc!buildVars, ScopeInv, Sc!TypeOK, Sc!ScopeIsEnforced, Sc!Covered,
                    Sc!lastAddr
<1>3. CASE ~Sc!Rebind
  <2>1. scState \in {"building", "authorized"} /\ scReached = {} /\ scChecked.how = "none"
    BY <1>3 DEF ScopeInv, Sc!Allow, Sc!Authorize, Sc!NewScopeFrom
  <2>2. /\ Sc!TypeOK'
        /\ scState' \in {"authorized", "running"} /\ scRemote' => "authz.record" \in scAudit'
    <3>1. CASE Sc!Allow
      BY <3>1 DEF Sc!Allow, ScopeInv, Sc!TypeOK
    <3>2. CASE Sc!Authorize
      BY <3>2 DEF Sc!Authorize, ScopeInv, Sc!TypeOK
    <3>3. CASE Sc!NewScopeFrom
      <4>1. scState' \in {"running", "refused"} /\ scState = "authorized"
            /\ UNCHANGED <<scRemote, scAudit, scChecked>>
        BY <3>3 DEF Sc!NewScopeFrom
      <4> QED BY <4>1 DEF ScopeInv, Sc!TypeOK
    <3> QED BY <1>3, <3>1, <3>2, <3>3
  <2> QED BY <1>1, <2>1, <2>2 DEF ScopeInv, Sc!ScopeIsEnforced
<1> QED BY <1>2, <1>3

LEMMA StepScopeInv == ScopeInv /\ [Next]_vars => ScopeInv'
<1> SUFFICES ASSUME ScopeInv, [Next]_vars PROVE ScopeInv'
  OBVIOUS
<1>1. CASE UNCHANGED scVars
  BY <1>1 DEF scVars, ScopeInv, Sc!TypeOK, Sc!ScopeIsEnforced, Sc!Covered, Sc!lastAddr
<1>2. CASE Sc!Next
  BY <1>2, BuildKeepsScope, CheckKeepsScope, DialKeepsScope DEF Sc!Next
<1> QED BY <1>1, <1>2 DEF Next, vars, guardVars

\* Nothing is reached but what a rule of the worker, with its ports, or the loopback allowance
\* covers, a control channel on this host, and an address a name got after its check; and
\* whoever leaves the host does so under an audited authorization.
THEOREM ScopeCorrect == Spec => []ScopeIsEnforced
<1>1. Init => ScopeInv /\ Sp!TypeOK
  BY DEF Init, Sp!Init, Sp!TypeOK, Sp!NoResult, Sc!Init, Sc!Unchecked, ScopeInv, Sc!TypeOK,
         Sc!ScopeIsEnforced
<1>2. ScopeInv /\ Sp!TypeOK => ScopeIsEnforced
  BY DEF ScopeInv, ScopeIsEnforced
<1> QED BY <1>1, <1>2, SpawnerTypes, StepScopeInv, PTL DEF Spec

-----------------------------------------------------------------------------
(* The recording proxy. *)

RecorderInv ==
    /\ Rc!TypeOK
    /\ Rc!CaptureIsComplete
    /\ rcAsked \in Nat /\ rcNow \in [RcConns -> 0 .. rcAsked]
    /\ \A c \in RcConns :
         \* a request is served by number, and its answer is recorded before it is passed on
         /\ rcAt[c] \in {"forward", "innerforward", "write", "innerwrite"} => rcNow[c] >= 1
         /\ rcAt[c] \in {"write", "innerwrite"} => rcNow[c] \in rcExchanges
         \* a connection that is not served has let go of everything
         /\ rcAt[c] \in {"new", "ended"} => c \notin rcOpen /\ c \notin rcTracked
         /\ rcAt[c] = "accepted" => c \notin rcTracked
    /\ rcClose = "done" => rcServe = "ended" /\ \A c \in RcConns : rcAt[c] \in {"new", "ended"}

LEMMA StepRecorderInv == RecorderInv /\ [Next]_vars => RecorderInv'
<1> SUFFICES ASSUME RecorderInv, [Next]_vars PROVE RecorderInv'
  OBVIOUS
<1> USE DEF RecorderInv, Rc!TypeOK, Rc!CaptureIsComplete
<1>1. CASE UNCHANGED rcVars
  BY <1>1 DEF rcVars
<1>2. ASSUME NEW c \in RcConns, Rc!serve(c) PROVE RecorderInv'
  BY <1>2 DEF Rc!serve, Rc!Goto, Rc!bookVars, Rc!closeVars
<1>3. ASSUME NEW c \in RcConns, Rc!track(c) PROVE RecorderInv'
  BY <1>3 DEF Rc!track, Rc!Goto, Rc!bookVars, Rc!closeVars
<1>4. ASSUME NEW c \in RcConns, Rc!handle(c) PROVE RecorderInv'
  BY <1>4 DEF Rc!handle, Rc!Goto, Rc!loopVars, Rc!closeVars
<1>5. ASSUME NEW c \in RcConns, Rc!readFails(c) \/ Rc!clientFails(c) \/ Rc!tunnelEnds(c)
      PROVE  RecorderInv'
  BY <1>5 DEF Rc!readFails, Rc!clientFails, Rc!tunnelEnds, Rc!leaves, Rc!Goto, Rc!loopVars,
              Rc!closeVars, Rc!bookVars
<1>6. ASSUME NEW c \in RcConns, Rc!forward(c) PROVE RecorderInv'
  BY <1>6 DEF Rc!forward, Rc!Goto, Rc!inner, Rc!loopVars, Rc!closeVars
<1>7. ASSUME NEW c \in RcConns, Rc!write(c) PROVE RecorderInv'
  BY <1>7 DEF Rc!write, Rc!Goto, Rc!inner, Rc!loopVars, Rc!closeVars
<1>8. ASSUME NEW c \in RcConns, Rc!intercept(c) \/ Rc!dial(c) PROVE RecorderInv'
  BY <1>8 DEF Rc!intercept, Rc!dial, Rc!Goto, Rc!loopVars, Rc!closeVars, Rc!bookVars
<1>9. ASSUME NEW c \in RcConns, Rc!tunnel(c) PROVE RecorderInv'
  BY <1>9 DEF Rc!tunnel, Rc!Goto, Rc!loopVars, Rc!closeVars
<1>10. CASE Rc!Close \/ Rc!closeConns
  BY <1>10 DEF Rc!Close, Rc!closeConns, Rc!loopVars, Rc!bookVars
<1>11. CASE Rc!wait
  BY <1>11 DEF Rc!wait, Rc!loopVars, Rc!bookVars
<1> QED BY <1>1, <1>2, <1>3, <1>4, <1>5, <1>6, <1>7, <1>8, <1>9, <1>10, <1>11
        DEF Next, Rc!Next, vars, guardVars

\* The capture holds every exchange a client saw, every connection that was passed through
\* unread is counted, and after Close nothing is open.
THEOREM CapturesCorrect == Spec => []CaptureIsComplete
<1>1. Init => RecorderInv
  BY DEF Init, Rc!Init, RecorderInv, Rc!TypeOK, Rc!CaptureIsComplete
<1>2. RecorderInv => CaptureIsComplete
  BY DEF RecorderInv, CaptureIsComplete
<1> QED BY <1>1, <1>2, StepRecorderInv, PTL DEF Spec

-----------------------------------------------------------------------------
(* The protocol of an extension.  The hypothesis NamesAreApart is needed and *)
(* nothing in the code sees to it: the run GuardNames is without it.         *)

Keeps == {"keep", "drop"}
Request ==
    [op : {"judge", "other", "commit"}, name : Pl!PlNames, keep : Keeps \cup {"none"}, id : Nat \ {0}]

PluginTypes ==
    /\ Pl!TypeOK
    /\ plId \in Nat /\ plFailed \in BOOLEAN /\ plAlive \in BOOLEAN /\ plUnsettled = FALSE
    /\ plFor \in PlFeedbacks \cup {"none", "closing"}
    /\ plDecided \in [PlFeedbacks -> Seq(Keeps)] /\ plCommits \in [PlFeedbacks -> Seq(Keeps)]
    /\ plReply \in [id : Nat, error : BOOLEAN]
    /\ plFailed = TRUE => plAlive = FALSE
    /\ \A n \in PlOthers : plPending[n] = "none"

\* The request in flight is the last one, and is for whom the engine waits.
RequestIsLast ==
    /\ plPhase = "calling" =>
         /\ plRequest \in Request /\ plRequest.id = plId
         /\ plReply.id \in {0, plId, plId + 1}
         /\ plPending[plRequest.name] = "none"
         /\ plRequest.op = "judge" => plFor = plRequest.name /\ plFor \in PlFeedbacks
         /\ plRequest.op = "other" => plFor = "none" /\ plRequest.name \in PlOthers
         /\ plRequest.op = "commit" => plFor = "closing"
    /\ plPhase # "calling" => plRequest = Pl!NoRequest /\ plReply = Pl!NoReply
    /\ plPhase = "undecided" => plFor \in PlFeedbacks

\* What the plugin is still to be told of a feedback: what is kept for the next call, or
\* what a call took along and the plugin has not handled.
Owed(f) ==
    IF plPending[f] # "none" THEN plPending[f]
    ELSE IF plPhase = "calling" /\ plReply.id # plId /\ plRequest.name = f THEN plRequest.keep
    ELSE "none"

\* A judgement that was made and not decided.
Undecided(f) ==
    /\ plFor = f
    /\ plPhase = "undecided" \/ (plPhase = "calling" /\ plReply.id = plId /\ plReply.error = FALSE)

\* Of a plugin that has not failed: it was told everything but what is owed, and has made
\* as many judgements as there are decisions, but for the one being made.
Balance ==
    plFailed = FALSE =>
        /\ \A f \in PlFeedbacks :
             /\ plDecided[f] = IF Owed(f) = "none" THEN plCommits[f] ELSE Append(plCommits[f], Owed(f))
             /\ plJudged[f] = Len(plDecided[f]) + IF Undecided(f) THEN 1 ELSE 0
        /\ plPhase = "undecided" => plPending[plFor] = "none"
        /\ plPhase = "calling" /\ plRequest.op = "judge" /\ plReply.id # plId =>
               plJudged[plFor] < PlJudgements
        /\ plPhase = "closed" => \A f \in PlFeedbacks : plPending[f] = "none"

\* Of every plugin, also of one that is killed while it is owed something.
ToldInOrder ==
    \A f \in PlFeedbacks :
        /\ Len(plCommits[f]) <= Len(plDecided[f])
        /\ \A i \in 1 .. Len(plCommits[f]) : plCommits[f][i] = plDecided[f][i]

PluginInv == PluginTypes /\ RequestIsLast /\ Balance /\ ToldInOrder

LEMMA PluginIsTold == PluginInv => SettlementArrives
<1> SUFFICES ASSUME PluginInv PROVE SettlementArrives
  OBVIOUS
<1>1. ASSUME NEW f \in PlFeedbacks PROVE Pl!IsPrefix(plCommits[f], plDecided[f])
  <2>1. PICK s, t : s = plCommits[f] /\ t = plDecided[f]
    OBVIOUS
  <2>2. s \in Seq(Keeps) /\ t \in Seq(Keeps) /\ Len(s) <= Len(t) /\ \A i \in 1 .. Len(s) : s[i] = t[i]
    BY <2>1 DEF PluginInv, PluginTypes, ToldInOrder
  <2>3. SubSeq(s, 1, Len(s)) = SubSeq(t, 1, Len(s))
    BY <2>2
  <2> QED BY <2>1, <2>2, <2>3 DEF Pl!IsPrefix
<1>2. plPhase = "closed" /\ plFailed = FALSE => plCommits = plDecided
  <2> SUFFICES ASSUME plPhase = "closed", plFailed = FALSE PROVE plCommits = plDecided
    OBVIOUS
  <2>1. \A f \in PlFeedbacks : Owed(f) = "none"
    BY DEF PluginInv, Balance, Owed
  <2> QED BY <2>1 DEF PluginInv, PluginTypes, Balance
<1> QED BY <1>1, <1>2 DEF PluginInv, PluginTypes, SettlementArrives, Pl!SettlementArrives

LEMMA InitPluginInv == Init => PluginInv
<1> SUFFICES ASSUME Pl!Init PROVE PluginInv
  BY DEF Init
<1>1. PluginTypes
  <2>1. Pl!TypeOK
    BY GuardAssumption DEF Pl!Init, Pl!TypeOK
  <2>2. plDecided \in [PlFeedbacks -> Seq(Keeps)] /\ plCommits \in [PlFeedbacks -> Seq(Keeps)]
    BY DEF Pl!Init
  <2>3. plReply \in [id : Nat, error : BOOLEAN]
    BY DEF Pl!Init, Pl!NoReply
  <2> QED BY <2>1, <2>2, <2>3 DEF Pl!Init, PluginTypes, Pl!PlNames
<1>2. RequestIsLast
  BY DEF Pl!Init, RequestIsLast
<1>3. \A f \in PlFeedbacks : Owed(f) = "none" /\ ~Undecided(f)
  BY GuardAssumption DEF Pl!Init, Owed, Undecided, Pl!PlNames
<1>4. Balance
  BY <1>3 DEF Pl!Init, Balance
<1>5. ToldInOrder
  BY DEF Pl!Init, ToldInOrder
<1> QED BY <1>1, <1>2, <1>4, <1>5 DEF PluginInv

\* A call takes along what is owed to whom it calls.
LEMMA CallKeeps ==
    ASSUME PluginInv, NEW op \in {"judge", "other", "commit"}, NEW n \in Pl!PlNames, Pl!call(op, n),
           plPhase \in {"idle", "ending"}, plPhase' = "calling",
           UNCHANGED <<plFailed, plReply, plDecided, plCommits, plJudged, plUnsettled, plAlive>>,
           op = "judge" => plFor' = n /\ n \in PlFeedbacks /\ plJudged[n] < PlJudgements,
           op = "other" => plFor' = "none" /\ n \in PlOthers,
           op = "commit" => plFor' = "closing"
    PROVE  PluginInv'
<1>1. PluginTypes /\ plReply = Pl!NoReply /\ plReply.id = 0 /\ plReply.error = FALSE
  BY DEF PluginInv, RequestIsLast, Pl!NoReply
<1>2. /\ plId' = plId + 1
      /\ plRequest' = [op |-> op, name |-> n, keep |-> plPending[n], id |-> plId + 1]
      /\ plPending' = [plPending EXCEPT ![n] = "none"]
      /\ plPending[n] \in Keeps \cup {"none"}
  BY <1>1 DEF Pl!call, Pl!exchange, PluginTypes, Pl!TypeOK, Keeps
<1>3. plId' \in Nat \ {0} /\ plId \in Nat
  BY <1>1, <1>2 DEF PluginTypes
<1>4. plRequest' \in Request /\ plRequest'.id = plId' /\ plRequest'.name = n /\ plRequest'.op = op
      /\ plRequest'.keep = plPending[n]
  BY <1>2, <1>3 DEF Request
<1>5. PluginTypes'
  <2>1. plFor' \in PlFeedbacks \cup {"none", "closing"}
    OBVIOUS
  <2>2. plPending' \in [Pl!PlNames -> {"none", "keep", "drop"}]
        /\ \A m \in PlOthers : plPending'[m] = "none"
    BY <1>1, <1>2 DEF PluginTypes, Pl!TypeOK, Pl!PlNames
  <2> QED BY <1>1, <1>3, <2>1, <2>2 DEF PluginTypes, Pl!TypeOK, Pl!PlNames
<1>6. RequestIsLast'
  BY <1>1, <1>2, <1>4 DEF RequestIsLast, PluginTypes, Pl!TypeOK
<1>7. \A f \in PlFeedbacks : Owed(f)' = Owed(f)
  BY <1>1, <1>2, <1>3, <1>4 DEF Owed, PluginTypes, Pl!TypeOK, Pl!PlNames
<1>8. \A f \in PlFeedbacks : ~Undecided(f) /\ ~Undecided(f)'
  BY <1>1, <1>3 DEF Undecided
<1>9. Balance'
  BY <1>4, <1>7, <1>8 DEF PluginInv, Balance
<1>10. ToldInOrder'
  BY DEF PluginInv, ToldInOrder
<1> QED BY <1>5, <1>6, <1>9, <1>10 DEF PluginInv

LEMMA HostCalls ==
    ASSUME PluginInv,
           \/ \E f \in PlFeedbacks : Pl!Judge(f)
           \/ \E n \in PlOthers : Pl!CallOther(n)
           \/ Pl!Close
    PROVE  PluginInv'
<1>1. ASSUME NEW f \in PlFeedbacks, Pl!Judge(f) PROVE PluginInv'
  BY <1>1, CallKeeps DEF Pl!Judge, Pl!PlNames
<1>2. ASSUME NEW n \in PlOthers, Pl!CallOther(n) PROVE PluginInv'
  BY <1>2, CallKeeps DEF Pl!CallOther, Pl!PlNames
<1>3. CASE Pl!Close /\ plPhase' = "calling"
  <2>1. PICK n \in Pl!PlNames : plPending[n] # "none" /\ Pl!call("commit", n)
    BY <1>3 DEF Pl!Close
  <2>2. /\ plFor' = "closing" /\ plPhase \in {"idle", "ending"}
        /\ UNCHANGED <<plFailed, plReply, plDecided, plCommits, plJudged, plUnsettled, plAlive>>
    BY <1>3 DEF Pl!Close
  <2> QED BY <1>3, <2>1, <2>2, CallKeeps
<1>4. CASE Pl!Close /\ plPhase' # "calling"
  <2>1. /\ plFailed = TRUE \/ \A n \in Pl!PlNames : plPending[n] = "none"
        /\ plPhase' = "closed" /\ plAlive' = FALSE
        /\ plPhase \in {"idle", "ending"}
        /\ UNCHANGED <<plFailed, plPending, plId, plRequest, plReply, plFor, plDecided, plCommits,
                       plJudged, plUnsettled>>
    BY <1>4 DEF Pl!Close, PluginInv, PluginTypes
  <2>2. PluginTypes' /\ ToldInOrder'
    BY <2>1 DEF PluginInv, PluginTypes, Pl!TypeOK, ToldInOrder, Pl!PlNames
  <2>5. RequestIsLast'
    BY <2>1 DEF PluginInv, RequestIsLast, Pl!NoRequest, Pl!NoReply
  <2>3. \A f \in PlFeedbacks : Owed(f)' = Owed(f) /\ ~Undecided(f) /\ ~Undecided(f)'
    BY <2>1 DEF Owed, Undecided
  <2>4. Balance'
    BY <2>1, <2>3 DEF PluginInv, Balance, Pl!PlNames
  <2> QED BY <2>2, <2>4, <2>5 DEF PluginInv
<1> QED BY <1>1, <1>2, <1>3, <1>4

\* What a call that came back leaves for the engine to decide.
LEMMA ReceiveKeeps == ASSUME PluginInv, Pl!Receive PROVE PluginInv'
<1>1. /\ plPhase = "calling" /\ plReply' = Pl!NoReply /\ plRequest' = Pl!NoRequest
      /\ UNCHANGED <<plPending, plId, plFor, plDecided, plCommits, plJudged, plUnsettled>>
  BY DEF Pl!Receive
<1>2. PluginTypes /\ RequestIsLast /\ plRequest \in Request /\ plRequest.id = plId /\ plId \in Nat \ {0}
  BY <1>1 DEF PluginInv, RequestIsLast, Request
<1>3. plFailed' \in BOOLEAN /\ plAlive' \in BOOLEAN /\ (plFailed' = TRUE => plAlive' = FALSE)
      /\ (plFailed' = FALSE => plFailed = FALSE)
  BY <1>2 DEF Pl!Receive, Pl!fail, PluginTypes
<1>4. plPhase' \in {"ending", "undecided", "idle"} /\ (plPhase' = "undecided" => plFor \in PlFeedbacks)
  BY DEF Pl!Receive
<1>5. PluginTypes'
  <2>1. plReply' \in [id : Nat, error : BOOLEAN]
    BY <1>1 DEF Pl!NoReply
  <2> QED BY <1>1, <1>2, <1>3, <1>4, <2>1 DEF PluginTypes, Pl!TypeOK, Pl!PlNames
<1>6. RequestIsLast'
  BY <1>1, <1>4 DEF RequestIsLast, Pl!NoRequest, Pl!NoReply
<1>7. ToldInOrder'
  BY <1>1 DEF PluginInv, ToldInOrder
<1>8. ASSUME plFailed' = FALSE PROVE Balance'
  <2>1. /\ plReply.id = plId
        /\ plPhase' = "undecided" <=> plFor \in PlFeedbacks /\ plReply.error = FALSE
    <3>1. /\ plReply.id = plId
          /\ plPhase' = IF plReply.error \/ plFor = "closing" THEN "ending"
                        ELSE IF plFor \in PlFeedbacks THEN "undecided" ELSE "idle"
      <4>1. ~Pl!fail
        BY <1>8 DEF Pl!fail
      <4> QED BY ONLY Pl!Receive, <4>1, Zenon DEF Pl!Receive
    <3>2. plReply.error \in BOOLEAN /\ "closing" \notin PlFeedbacks
      BY <1>2, GuardAssumption DEF PluginTypes
    <3>3. plReply.error => plPhase' = "ending"
      BY ONLY <3>1
    <3>4. ~plReply.error /\ plFor \in PlFeedbacks => plPhase' = "undecided"
      BY ONLY <3>1, <3>2
    <3>5. ~plReply.error /\ plFor \notin PlFeedbacks => plPhase' \in {"idle", "ending"}
      BY ONLY <3>1
    <3>6. plReply.error = TRUE \/ plReply.error = FALSE
      BY ONLY <3>2
    <3>7. CASE plReply.error = TRUE
      BY <3>1, <3>3, <3>7
    <3>8. CASE plReply.error = FALSE
      BY <3>1, <3>4, <3>5, <3>8
    <3> QED BY ONLY <3>6, <3>7, <3>8
  <2>2. plFailed = FALSE
    BY <1>3, <1>8
  <2>3. \A f \in PlFeedbacks : Owed(f)' = Owed(f)
    BY <1>1, <1>4, <2>1 DEF Owed
  <2>4. ASSUME NEW f \in PlFeedbacks PROVE Undecided(f)' <=> Undecided(f)
    BY <1>1, <1>4, <2>1, <2>4 DEF Undecided
  <2>5. plPhase' = "undecided" => plPending[plFor] = "none"
    <3> SUFFICES ASSUME plPhase' = "undecided" PROVE plPending[plFor] = "none"
      OBVIOUS
    <3>1. plFor \in PlFeedbacks
      BY <2>1
    <3>2. plRequest.op = "judge"
      BY <1>1, <1>2, <3>1, GuardAssumption DEF RequestIsLast, Request
    <3> QED BY <1>1, <1>2, <3>2 DEF RequestIsLast
  <2>6. \A f \in PlFeedbacks :
             /\ plDecided[f] = IF Owed(f) = "none" THEN plCommits[f] ELSE Append(plCommits[f], Owed(f))
             /\ plJudged[f] = Len(plDecided[f]) + IF Undecided(f) THEN 1 ELSE 0
    BY <2>2 DEF PluginInv, Balance
  <2> QED BY <1>1, <1>4, <2>3, <2>4, <2>5, <2>6 DEF Balance
<1>9. Balance'
  BY <1>3, <1>8 DEF Balance
<1> QED BY <1>5, <1>6, <1>7, <1>9 DEF PluginInv

LEMMA TimeoutKeeps == ASSUME PluginInv, Pl!Timeout PROVE PluginInv'
<1>1. /\ plFailed' = TRUE /\ plAlive' = FALSE /\ plPhase = "calling"
      /\ UNCHANGED <<plPending, plId, plRequest, plReply, plPhase, plFor, plDecided, plCommits,
                     plJudged, plUnsettled>>
  BY DEF Pl!Timeout, Pl!fail
<1>2. PluginTypes' /\ ToldInOrder'
  BY <1>1 DEF PluginInv, PluginTypes, Pl!TypeOK, ToldInOrder, Pl!PlNames
<1>3. RequestIsLast'
  BY <1>1 DEF PluginInv, RequestIsLast, Request, Pl!PlNames
<1>4. Balance'
  BY <1>1 DEF Balance
<1> QED BY <1>2, <1>3, <1>4 DEF PluginInv

\* The plugin dies with the settlement that it was sent, or answers out of turn.
LEMMA MisbehaveKeeps == ASSUME PluginInv, Pl!Misbehave PROVE PluginInv'
<1>1. /\ plRequest # Pl!NoRequest /\ plReply = Pl!NoReply /\ plReply.id = 0
      /\ UNCHANGED <<plFailed, plPending, plId, plRequest, plPhase, plFor, plDecided, plCommits,
                     plJudged, plUnsettled>>
  BY DEF Pl!Misbehave, Pl!NoReply
<1>9. plAlive = TRUE /\ plAlive' \in BOOLEAN
  <2>1. plAlive \in BOOLEAN /\ plAlive
    BY DEF Pl!Misbehave, PluginInv, PluginTypes
  <2>2. plAlive' = FALSE \/ plAlive' = plAlive
    BY DEF Pl!Misbehave
  <2> QED BY ONLY <2>1, <2>2
<1>2. plPhase = "calling" /\ plRequest \in Request /\ plRequest.id = plId /\ plId \in Nat \ {0}
      /\ plFailed = FALSE
  BY <1>1, <1>9 DEF PluginInv, PluginTypes, RequestIsLast, Request
<1>3. plReply' = plReply \/ plReply' = [id |-> plId + 1, error |-> FALSE]
  BY <1>2 DEF Pl!Misbehave
<1>4. plReply' \in [id : Nat, error : BOOLEAN] /\ plReply'.id \in {0, plId + 1} /\ plReply'.id # plId
  <2>1. CASE plReply' = plReply
    BY <1>1, <1>2, <2>1 DEF PluginInv, PluginTypes
  <2>2. CASE plReply' = [id |-> plId + 1, error |-> FALSE]
    BY <1>2, <2>2
  <2> QED BY <1>3, <2>1, <2>2
<1>5. PluginTypes' /\ ToldInOrder'
  BY <1>1, <1>2, <1>4, <1>9 DEF PluginInv, PluginTypes, Pl!TypeOK, ToldInOrder, Pl!PlNames
<1>6. RequestIsLast'
  BY <1>1, <1>2, <1>4 DEF PluginInv, RequestIsLast, Request, Pl!PlNames
<1>7. \A f \in PlFeedbacks : Owed(f)' = Owed(f) /\ ~Undecided(f) /\ ~Undecided(f)'
  BY <1>1, <1>2, <1>4 DEF Owed, Undecided
<1>8. Balance'
  BY <1>1, <1>2, <1>7 DEF PluginInv, Balance
<1> QED BY <1>5, <1>6, <1>8 DEF PluginInv

\* What the engine decided is owed from then on, unless the plugin has failed.
LEMMA SettleKeeps ==
    ASSUME PluginInv, Pl!NamesAreApart, NEW keep \in Keeps, Pl!settle(keep)
    PROVE  PluginInv'
<1>1. /\ plPhase = "undecided" /\ plPhase' = "idle"
      /\ plDecided' = [plDecided EXCEPT ![plFor] = Append(@, keep)]
      /\ UNCHANGED <<plFailed, plId, plRequest, plReply, plFor, plCommits, plJudged, plUnsettled,
                     plAlive>>
  BY DEF Pl!settle
<1>2. PluginTypes /\ plFor \in PlFeedbacks /\ plFor \notin PlOthers /\ keep # "none"
      /\ plRequest = Pl!NoRequest /\ plReply = Pl!NoReply
  BY <1>1 DEF PluginInv, RequestIsLast, Pl!NamesAreApart, Keeps
<1>3. plPending' = IF plFailed THEN plPending ELSE [plPending EXCEPT ![plFor] = keep]
  BY ONLY Pl!settle(keep), Zenon DEF Pl!settle
<1>4. \/ plFailed = TRUE /\ plPending' = plPending
      \/ plFailed = FALSE /\ plPending' = [plPending EXCEPT ![plFor] = keep]
  BY <1>2, <1>3 DEF PluginTypes
<1>5. plPending' \in [Pl!PlNames -> {"none", "keep", "drop"}]
      /\ \A m \in PlOthers : plPending'[m] = "none"
  <2>1. keep \in {"none", "keep", "drop"} /\ plFor \in Pl!PlNames
    BY <1>2 DEF Keeps, Pl!PlNames
  <2> QED BY <1>2, <1>4, <2>1 DEF PluginTypes, Pl!TypeOK, Pl!PlNames
<1>6. plDecided' \in [PlFeedbacks -> Seq(Keeps)]
  BY <1>1, <1>2 DEF PluginTypes
<1>7. PluginTypes'
  BY <1>1, <1>2, <1>5, <1>6 DEF PluginTypes, Pl!TypeOK
<1>8. RequestIsLast'
  BY <1>1, <1>2 DEF RequestIsLast
<1>9. ToldInOrder'
  <2> SUFFICES ASSUME NEW f \in PlFeedbacks
               PROVE  /\ Len(plCommits[f]) <= Len(plDecided'[f])
                      /\ \A i \in 1 .. Len(plCommits[f]) : plCommits[f][i] = plDecided'[f][i]
    BY <1>1 DEF ToldInOrder
  <2>1. plDecided'[f] = plDecided[f] \/ plDecided'[f] = Append(plDecided[f], keep)
    BY <1>1, <1>2 DEF PluginTypes
  <2>2. /\ plCommits[f] \in Seq(Keeps) /\ plDecided[f] \in Seq(Keeps)
        /\ Len(plCommits[f]) <= Len(plDecided[f])
        /\ \A i \in 1 .. Len(plCommits[f]) : plCommits[f][i] = plDecided[f][i]
    BY <1>2 DEF PluginInv, PluginTypes, ToldInOrder
  <2>3. ASSUME NEW s \in Seq(Keeps), NEW t \in Seq(Keeps), Len(s) <= Len(t),
               \A i \in 1 .. Len(s) : s[i] = t[i]
        PROVE  Len(s) <= Len(Append(t, keep)) /\ \A i \in 1 .. Len(s) : s[i] = Append(t, keep)[i]
    BY <2>3
  <2> QED BY <2>1, <2>2, <2>3
<1>10. ASSUME plFailed = FALSE PROVE Balance'
  <2>1. plPending' = [plPending EXCEPT ![plFor] = keep] /\ plPending[plFor] = "none"
    BY <1>1, <1>4, <1>10 DEF PluginInv, Balance
  <2>2. Owed(plFor) = "none" /\ Undecided(plFor) /\ plDecided[plFor] = plCommits[plFor]
        /\ plJudged[plFor] = Len(plDecided[plFor]) + 1
    BY <1>1, <1>2, <1>10, <2>1 DEF PluginInv, Balance, Owed, Undecided
  <2>3. plPending'[plFor] = keep /\ plDecided'[plFor] = Append(plCommits[plFor], keep)
    BY <1>1, <1>2, <2>1, <2>2 DEF PluginTypes, Pl!TypeOK, Pl!PlNames
  <2>4. ASSUME NEW f \in PlFeedbacks
        PROVE  /\ plDecided'[f] = IF Owed(f)' = "none" THEN plCommits[f]
                                  ELSE Append(plCommits[f], Owed(f)')
               /\ plJudged[f] = Len(plDecided'[f]) + IF Undecided(f)' THEN 1 ELSE 0
    <3>1. ~Undecided(f)'
      BY <1>1 DEF Undecided
    <3>2. CASE f = plFor
      <4>1. Owed(f)' = keep
        BY <1>2, <2>3, <3>2, <1>1 DEF Owed
      <4>2. plDecided[f] \in Seq(Keeps) /\ Len(Append(plDecided[f], keep)) = Len(plDecided[f]) + 1
        BY <1>2 DEF PluginTypes
      <4> QED BY <1>2, <2>2, <2>3, <3>1, <3>2, <4>1, <4>2
    <3>3. CASE f # plFor
      <4>1. plDecided'[f] = plDecided[f] /\ plPending'[f] = plPending[f]
        BY <1>1, <1>2, <2>1, <3>3 DEF PluginTypes, Pl!TypeOK, Pl!PlNames
      <4>2. Owed(f)' = Owed(f) /\ ~Undecided(f)
        BY <1>1, <3>3, <4>1 DEF Owed, Undecided
      <4> QED BY <1>10, <3>1, <4>1, <4>2 DEF PluginInv, Balance
    <3> QED BY <3>2, <3>3
  <2> QED BY <1>1, <2>4 DEF Balance
<1>11. Balance'
  BY <1>1, <1>2, <1>10 DEF Balance, PluginTypes
<1> QED BY <1>7, <1>8, <1>9, <1>11 DEF PluginInv

\* The plugin is told what it is owed before it judges again.
LEMMA ServeKeeps ==
    ASSUME PluginInv, Pl!NamesAreApart, Pl!Serve
    PROVE  PluginInv'
<1>1. /\ plRequest # Pl!NoRequest /\ plReply = Pl!NoReply /\ plReply.id = 0
      /\ UNCHANGED <<plFailed, plPending, plId, plRequest, plPhase, plFor, plDecided, plAlive>>
  BY DEF Pl!Serve, Pl!NoReply
<1>2. /\ PluginTypes /\ RequestIsLast /\ Balance /\ ToldInOrder
      /\ plPhase = "calling" /\ plRequest \in Request /\ plRequest.id = plId
      /\ plId \in Nat \ {0}
  BY <1>1 DEF PluginInv, RequestIsLast, Request
<1>3. plFailed = FALSE
  <2>1. plAlive
    BY DEF Pl!Serve
  <2> QED BY <1>2, <2>1 DEF PluginTypes
<1> DEFINE op == plRequest.op
           n == plRequest.name
           k == plRequest.keep
<1>4. /\ op \in {"judge", "other", "commit"} /\ n \in Pl!PlNames /\ k \in Keeps \cup {"none"}
      /\ plPending[n] = "none" /\ plReply.id # plId
      /\ op = "judge" => plFor = n /\ n \in PlFeedbacks
      /\ op = "other" => plFor = "none" /\ n \notin PlFeedbacks
      /\ op = "commit" => plFor = "closing"
  BY <1>1, <1>2 DEF RequestIsLast, Request, Pl!NamesAreApart
<1>5. PICK error \in BOOLEAN :
        /\ plReply' = [id |-> plId, error |-> error]
        /\ plJudged' = IF op = "judge" /\ ~error THEN [plJudged EXCEPT ![n] = @ + 1] ELSE plJudged
  <2>1. \E error \in IF plRequest.op = "commit" THEN {FALSE} ELSE BOOLEAN :
          /\ plReply' = [id |-> plRequest.id, error |-> error]
          /\ plJudged' = IF plRequest.op = "judge" /\ ~error
                         THEN [plJudged EXCEPT ![plRequest.name] = @ + 1] ELSE plJudged
    BY ONLY Pl!Serve, Zenon DEF Pl!Serve
  <2>2. plRequest.id = plId
    BY <1>2
  <2>3. ASSUME NEW e \in IF plRequest.op = "commit" THEN {FALSE} ELSE BOOLEAN PROVE e \in BOOLEAN
    BY ONLY <2>3
  <2> QED BY ONLY <2>1, <2>2, <2>3
<1>6. plReply' \in [id : Nat, error : BOOLEAN] /\ plReply'.id = plId /\ plReply'.error = error
  BY <1>2, <1>5
<1>7. \/ /\ op \in {"judge", "commit"} /\ k \in Keeps /\ n \in PlFeedbacks
         /\ plCommits' = [plCommits EXCEPT ![n] = Append(@, k)]
      \/ /\ k = "none" \/ n \notin PlFeedbacks
         /\ plCommits' = plCommits
  <2>1. plCommits' = IF op \in {"judge", "commit"} /\ k # "none" /\ n \in PlFeedbacks
                     THEN [plCommits EXCEPT ![n] = Append(@, k)] ELSE plCommits
    BY DEF Pl!Serve, Pl!pluginSettle
  <2> HIDE DEF op, n, k
  <2>2. CASE op \in {"judge", "commit"} /\ k # "none" /\ n \in PlFeedbacks
    BY <1>4, <2>1, <2>2
  <2>3. CASE ~ (op \in {"judge", "commit"} /\ k # "none" /\ n \in PlFeedbacks)
    BY <1>4, <2>1, <2>3
  <2> QED BY <2>2, <2>3
<1> HIDE DEF op, n, k
\* Every feedback has been told all that was decided.
<1>8. ASSUME NEW f \in PlFeedbacks
      PROVE  /\ plDecided[f] = IF Owed(f)' = "none" THEN plCommits'[f]
                               ELSE Append(plCommits'[f], Owed(f)')
             /\ f = n => plCommits'[f] = plDecided[f]
             /\ plCommits'[f] = plCommits[f] \/ plCommits'[f] = plDecided[f]
             /\ plCommits'[f] \in Seq(Keeps)
  <2>1. plDecided[f] = IF Owed(f) = "none" THEN plCommits[f] ELSE Append(plCommits[f], Owed(f))
    BY <1>2, <1>3 DEF Balance
  <2>2. plDecided[f] \in Seq(Keeps) /\ plCommits[f] \in Seq(Keeps)
    BY <1>2 DEF PluginTypes
  <2>3. Owed(f)' = plPending[f]
    BY <1>1, <1>6 DEF Owed
  <2>4. CASE f # n
    <3>1. plCommits'[f] = plCommits[f]
      BY <1>2, <1>7, <2>4 DEF PluginTypes
    <3>2. Owed(f) = plPending[f]
      BY <2>4 DEF Owed, n
    <3> QED BY <2>1, <2>2, <2>3, <2>4, <3>1, <3>2
  <2>5. CASE f = n
    <3>1. Owed(f) = k /\ Owed(f)' = "none"
      BY <1>2, <1>4, <2>3, <2>5 DEF Owed, n, k
    <3>2. plCommits'[f] = plDecided[f]
      <4>1. CASE k = "none"
        BY <1>7, <2>1, <3>1, <4>1 DEF Keeps
      <4>2. CASE k # "none"
        <5>1. plCommits' = [plCommits EXCEPT ![n] = Append(@, k)]
          BY <1>7, <2>5, <4>2
        <5>2. plCommits'[n] = Append(plCommits[n], k)
          BY <1>2, <2>5, <5>1 DEF PluginTypes
        <5> QED BY <2>1, <2>5, <3>1, <4>2, <5>2
      <4> QED BY <4>1, <4>2
    <3> QED BY <2>2, <3>1, <3>2
  <2> QED BY <2>4, <2>5
<1>9. plCommits' \in [PlFeedbacks -> Seq(Keeps)]
  <2>1. plCommits' = [f \in PlFeedbacks |-> plCommits'[f]]
    BY <1>2, <1>7 DEF PluginTypes
  <2> QED BY <1>8, <2>1
\* A judgement that was made is undecided.
<1>10. ASSUME NEW f \in PlFeedbacks
       PROVE  /\ ~Undecided(f)
              /\ Undecided(f)' <=> op = "judge" /\ f = n /\ error = FALSE
  BY <1>1, <1>2, <1>4, <1>6, GuardAssumption DEF Undecided
<1>11. op = "judge" => n \in PlFeedbacks /\ plJudged[n] < PlJudgements /\ plJudged[n] = Len(plDecided[n])
  <2> SUFFICES ASSUME op = "judge"
               PROVE  n \in PlFeedbacks /\ plJudged[n] < PlJudgements /\ plJudged[n] = Len(plDecided[n])
    OBVIOUS
  <2>1. n \in PlFeedbacks /\ plFor = n
    BY <1>4
  <2>2. plJudged[n] = Len(plDecided[n]) + IF Undecided(n) THEN 1 ELSE 0
    BY <1>2, <1>3, <2>1 DEF Balance
  <2>3. plDecided[n] \in Seq(Keeps) /\ Len(plDecided[n]) \in Nat
    BY <1>2, <2>1 DEF PluginTypes
  <2>4. plJudged[n] < PlJudgements
    BY <1>2, <1>3, <1>4, <2>1 DEF Balance, op
  <2>5. plJudged[n] = Len(plDecided[n]) + 0
    BY ONLY <1>10, <2>1, <2>2, Zenon
  <2> QED BY <2>1, <2>3, <2>4, <2>5
<1>12. /\ plJudged' \in [PlFeedbacks -> 0 .. PlJudgements]
       /\ \A f \in PlFeedbacks :
            plJudged'[f] = plJudged[f] + IF op = "judge" /\ f = n /\ error = FALSE THEN 1 ELSE 0
  <2>1. plJudged \in [PlFeedbacks -> 0 .. PlJudgements] /\ PlJudgements \in Nat
    BY <1>2, GuardAssumption DEF PluginTypes, Pl!TypeOK
  <2>2. CASE op = "judge" /\ error = FALSE
    <3>1. plJudged' = [plJudged EXCEPT ![n] = @ + 1]
      BY ONLY <1>5, <2>2
    <3> QED BY <1>11, <2>1, <2>2, <3>1
  <2>3. CASE ~(op = "judge" /\ error = FALSE)
    <3>1. plJudged' = plJudged
      BY ONLY <1>5, <2>3
    <3> QED BY <2>1, <2>3, <3>1
  <2> QED BY <2>2, <2>3
<1>13. plUnsettled' = FALSE
  <2>1. plUnsettled' = \/ plUnsettled
                       \/ op = "judge" /\ Len(plCommits'[n]) < plJudged[n]
    BY DEF Pl!Serve, op, n
  <2>2. plUnsettled = FALSE
    BY <1>2 DEF PluginTypes
  <2>3. ~(op = "judge" /\ Len(plCommits'[n]) < plJudged[n])
    <3> SUFFICES ASSUME op = "judge" PROVE ~(Len(plCommits'[n]) < plJudged[n])
      OBVIOUS
    <3>1. plCommits'[n] = plDecided[n] /\ plCommits'[n] \in Seq(Keeps)
      BY <1>8, <1>11
    <3> QED BY <1>11, <3>1
  <2> QED BY ONLY <2>1, <2>2, <2>3
<1>14. PluginTypes'
  BY <1>1, <1>2, <1>6, <1>9, <1>12, <1>13 DEF PluginTypes, Pl!TypeOK, Pl!PlNames
<1>15. RequestIsLast'
  BY <1>1, <1>2, <1>6 DEF RequestIsLast, Request, Pl!PlNames
<1>16. Balance'
  <2>1. ASSUME NEW f \in PlFeedbacks
        PROVE  plJudged'[f] = Len(plDecided[f]) + IF Undecided(f)' THEN 1 ELSE 0
    <3>1. plJudged[f] = Len(plDecided[f]) + IF Undecided(f) THEN 1 ELSE 0
      BY <1>2, <1>3 DEF Balance
    <3>2. plDecided[f] \in Seq(Keeps) /\ Len(plDecided[f]) \in Nat
      BY <1>2 DEF PluginTypes
    <3>3. plJudged[f] = Len(plDecided[f]) + 0
      BY ONLY <1>10, <3>1, Zenon
    <3>4. plJudged'[f] = Len(plDecided[f]) + IF op = "judge" /\ f = n /\ error = FALSE THEN 1 ELSE 0
      <4>1. PICK l \in Nat : l = Len(plDecided[f])
        BY <3>2
      <4>2. plJudged[f] = l
        BY <3>3, <4>1
      <4> QED BY <1>12, <4>1, <4>2
    <3>5. CASE Undecided(f)'
      BY ONLY <1>10, <3>4, <3>5, Zenon
    <3>6. CASE ~Undecided(f)'
      BY ONLY <1>10, <3>4, <3>6, Zenon
    <3> QED BY ONLY <3>5, <3>6
  <2> QED BY <1>1, <1>2, <1>6, <1>8, <2>1 DEF Balance
<1>17. ToldInOrder'
  <2> SUFFICES ASSUME NEW f \in PlFeedbacks
               PROVE  /\ Len(plCommits'[f]) <= Len(plDecided[f])
                      /\ \A i \in 1 .. Len(plCommits'[f]) : plCommits'[f][i] = plDecided[f][i]
    BY <1>1 DEF ToldInOrder
  <2>1. /\ Len(plCommits[f]) <= Len(plDecided[f])
        /\ \A i \in 1 .. Len(plCommits[f]) : plCommits[f][i] = plDecided[f][i]
        /\ plDecided[f] \in Seq(Keeps)
    BY <1>2 DEF ToldInOrder, PluginTypes
  <2>2. CASE plCommits'[f] = plCommits[f]
    BY ONLY <2>1, <2>2
  <2>3. CASE plCommits'[f] = plDecided[f]
    <3>1. PICK s \in Seq(Keeps) : s = plDecided[f]
      BY <2>1
    <3>2. Len(s) <= Len(s)
      OBVIOUS
    <3> QED BY ONLY <2>3, <3>1, <3>2
  <2> QED BY <1>8, <2>2, <2>3
<1> QED BY <1>14, <1>15, <1>16, <1>17 DEF PluginInv

LEMMA StepPluginInv == Pl!NamesAreApart /\ PluginInv /\ [Next]_vars => PluginInv'
<1> SUFFICES ASSUME Pl!NamesAreApart, PluginInv, [Next]_vars PROVE PluginInv'
  OBVIOUS
<1>1. CASE UNCHANGED plVars
  <2>1. UNCHANGED <<plFailed, plPending, plId, plRequest, plReply, plPhase, plFor, plDecided,
                    plCommits, plJudged, plUnsettled, plAlive>>
    BY <1>1 DEF plVars
  <2>2. \A f \in PlFeedbacks : Owed(f)' = Owed(f) /\ (Undecided(f)' <=> Undecided(f))
    BY <2>1 DEF Owed, Undecided
  <2>3. PluginTypes' /\ ToldInOrder'
    BY <2>1 DEF PluginInv, PluginTypes, Pl!TypeOK, ToldInOrder, Pl!PlNames
  <2>4. RequestIsLast'
    BY <2>1 DEF PluginInv, RequestIsLast, Request, Pl!PlNames
  <2>5. Balance'
    BY <2>1, <2>2 DEF PluginInv, Balance
  <2> QED BY <2>3, <2>4, <2>5 DEF PluginInv
<1>2. ASSUME NEW keep \in {"keep", "drop"}, Pl!settle(keep) PROVE PluginInv'
  BY <1>2, SettleKeeps DEF Keeps
<1>3. CASE Pl!Next
  BY <1>2, <1>3, HostCalls, ReceiveKeeps, TimeoutKeeps, MisbehaveKeeps, ServeKeeps DEF Pl!Next
<1> QED BY <1>1, <1>3 DEF Next, vars, guardVars

\* A plugin is told the engine's decisions in their order, each before it judges again, and
\* when it was closed without having failed all of them.
THEOREM SettlementsCorrect == Pl!NamesAreApart => (Spec => []SettlementArrives)
<1> SUFFICES ASSUME Pl!NamesAreApart PROVE Spec => []SettlementArrives
  OBVIOUS
<1>1. PluginInv /\ [Next]_vars => PluginInv'
  BY StepPluginInv
<1> QED BY <1>1, InitPluginInv, PluginIsTold, PTL DEF Spec

-----------------------------------------------------------------------------
(* The connection to a browser. *)

CdFrames ==
    [op : {"ping", "close", "oversized", "event"}, fin : {TRUE}, of : CdCalls \cup {"ping", "close", "event"}]
        \cup [op : {"text", "continuation"}, fin : BOOLEAN, of : CdCalls]

\* What a channel holds is the reply to its own command or word of the end, and a command that
\* has not come back is registered unless its channel holds something.
ConnInv ==
    /\ Cd!TypeOK
    /\ cdIn \in Seq(CdFrames) /\ cdAsked \subseteq CdCalls /\ cdClosed \in BOOLEAN
    /\ \A c \in CdCalls :
         /\ cdChan[c] \in {c, "none", "closed"}
         /\ cdAnswer[c] \in {c, "none", "error", "timeout"}
         /\ cdCall[c] \in {"lock", "writing", "waiting"} => c \in cdPending \/ cdChan[c] # "none"
    /\ cdReader = "ended" => cdClosed = TRUE /\ cdPending = {}

\* The reader gives up: who is registered is told.
LEMMA FailTells ==
    ASSUME ConnInv, Cd!fail
    PROVE  /\ cdChan' \in [CdCalls -> CdCalls \cup {"none", "closed"}]
           /\ cdPending' = {} /\ cdClosed' = TRUE /\ cdReader' = "ended"
           /\ \A c \in CdCalls :
                /\ cdChan'[c] \in {c, "none", "closed"}
                /\ c \in cdPending \/ cdChan[c] # "none" => cdChan'[c] # "none"
<1>1. cdChan' = [c \in CdCalls |-> IF c \in cdPending THEN "closed" ELSE cdChan[c]]
  BY DEF Cd!fail
<1>2. cdPending' = {} /\ cdClosed' = TRUE /\ cdReader' = "ended"
  BY DEF Cd!fail
<1> QED BY <1>1, <1>2 DEF ConnInv, Cd!TypeOK, Cd!NoReply

\* A reply is for the command it names.
LEMMA DispatchTells ==
    ASSUME ConnInv, NEW of, Cd!dispatch(of)
    PROVE  /\ cdChan' \in [CdCalls -> CdCalls \cup {"none", "closed"}]
           /\ cdPending' \subseteq cdPending
           /\ \A c \in CdCalls :
                /\ cdChan'[c] \in {c, "none", "closed"}
                /\ c \in cdPending \/ cdChan[c] # "none" => c \in cdPending' \/ cdChan'[c] # "none"
<1>1. cdChan' = [c \in CdCalls |-> IF c = of /\ c \in cdPending THEN of ELSE cdChan[c]]
      /\ cdPending' = cdPending \ {of}
  BY DEF Cd!dispatch
<1> QED BY <1>1, GuardAssumption DEF ConnInv, Cd!TypeOK, Cd!NoReply

LEMMA CallsKeepConn ==
    ASSUME ConnInv, NEW c \in CdCalls, Cd!calling(c) \/ Cd!callTimeout(c)
    PROVE  ConnInv'
<1> USE DEF ConnInv, Cd!TypeOK, Cd!NoReply
<1>1. CASE Cd!Call(c)
  BY <1>1 DEF Cd!Call, Cd!Returns, Cd!wireVars, Cd!readVars
<1>2. CASE Cd!WriteText(c)
  BY <1>2 DEF Cd!WriteText, Cd!wireVars, Cd!readVars
<1>3. CASE Cd!writeFrame(c)
  BY <1>3 DEF Cd!writeFrame, Cd!forget, Cd!Returns, Cd!readVars
<1>4. CASE Cd!receive(c)
  BY <1>4 DEF Cd!receive, Cd!Returns, Cd!wireVars, Cd!readVars
<1>5. CASE Cd!callTimeout(c)
  BY <1>5 DEF Cd!callTimeout, Cd!forget, Cd!Returns, Cd!wireVars, Cd!readVars
<1> QED BY <1>1, <1>2, <1>3, <1>4, <1>5 DEF Cd!calling

LEMMA BrowserKeepsConn == ASSUME ConnInv, Cd!browser PROVE ConnInv'
<1>1. UNCHANGED <<cdCall, cdAnswer, cdPending, cdChan, cdLock, cdMsg, cdReader, cdClosed, cdSocket>>
  BY DEF Cd!browser, Cd!callVars, Cd!readVars
<1>2. cdIn' \in Seq(CdFrames) /\ cdAsked' \subseteq CdCalls /\ cdBrowser' \in {"reading", "stuck", "dead"}
  <2>1. ASSUME NEW c \in cdAsked,
               \/ Cd!Send(<<Cd!Frame("text", TRUE, c)>>)
               \/ Cd!Send(<<Cd!Frame("text", FALSE, c), Cd!Frame("ping", TRUE, c),
                            Cd!Frame("continuation", TRUE, c)>>)
               \/ Cd!Send(<<Cd!Frame("oversized", TRUE, c)>>)
        PROVE  cdIn' \in Seq(CdFrames)
    <3>1. /\ Cd!Frame("text", TRUE, c) \in CdFrames /\ Cd!Frame("text", FALSE, c) \in CdFrames
          /\ Cd!Frame("ping", TRUE, c) \in CdFrames /\ Cd!Frame("continuation", TRUE, c) \in CdFrames
          /\ Cd!Frame("oversized", TRUE, c) \in CdFrames
      BY DEF Cd!Frame, CdFrames, ConnInv
    <3>2. PICK g1 \in CdFrames, g2 \in CdFrames, g3 \in CdFrames, g4 \in CdFrames, g5 \in CdFrames :
            /\ g1 = Cd!Frame("text", TRUE, c) /\ g2 = Cd!Frame("text", FALSE, c)
            /\ g3 = Cd!Frame("ping", TRUE, c) /\ g4 = Cd!Frame("continuation", TRUE, c)
            /\ g5 = Cd!Frame("oversized", TRUE, c)
      BY ONLY <3>1, Zenon
    <3>3. cdIn' = cdIn \o <<g1>> \/ cdIn' = cdIn \o <<g2, g3, g4>> \/ cdIn' = cdIn \o <<g5>>
      BY <2>1, <3>2 DEF Cd!Send
    <3>4. cdIn \in Seq(CdFrames)
      BY DEF ConnInv
    <3>5. \A i, s \in Seq(CdFrames) : i \o s \in Seq(CdFrames)
      OBVIOUS
    <3>6. <<g1>> \in Seq(CdFrames) /\ <<g2, g3, g4>> \in Seq(CdFrames) /\ <<g5>> \in Seq(CdFrames)
      OBVIOUS
    <3> QED BY ONLY <3>3, <3>4, <3>5, <3>6, Zenon
  <2>2. ASSUME NEW op \in {"event", "ping", "close"}, Cd!Send(<<Cd!Frame(op, TRUE, op)>>)
        PROVE  cdIn' \in Seq(CdFrames)
    <3>1. Cd!Frame(op, TRUE, op) \in CdFrames
      BY DEF Cd!Frame, CdFrames
    <3>2. PICK g \in CdFrames : g = Cd!Frame(op, TRUE, op)
      BY <3>1
    <3>3. cdIn' = cdIn \o <<g>>
      BY <2>2, <3>2 DEF Cd!Send
    <3> QED BY <3>3 DEF ConnInv
  <2> QED BY <2>1, <2>2 DEF Cd!browser, ConnInv, Cd!TypeOK
<1> QED BY <1>1, <1>2 DEF ConnInv, Cd!TypeOK

LEMMA ReaderKeepsConn == ASSUME ConnInv, Cd!reading PROVE ConnInv'
<1>1. CASE Cd!readFrame
  <2>1. /\ cdIn' = Tail(cdIn) /\ Head(cdIn) \in CdFrames /\ cdIn' \in Seq(CdFrames)
        /\ UNCHANGED <<cdCall, cdAnswer, cdLock, cdAsked, cdBrowser, cdPinged, cdSocket, cdStop>>
    BY <1>1 DEF Cd!readFrame, ConnInv
  <2>2. cdReader = "read" /\ cdIn # <<>>
    BY <1>1 DEF Cd!readFrame
  <2> DEFINE f == Head(cdIn)
  <2>3. CASE f.op = "ping"
    <3>1. cdReader' = "pong" /\ UNCHANGED <<cdMsg, cdPending, cdChan, cdClosed>>
      BY <1>1, <2>3 DEF Cd!readFrame
    <3> QED BY <2>1, <3>1 DEF ConnInv, Cd!TypeOK
  <2>4. CASE f.op \in {"close", "oversized"}
    <3>1. Cd!fail
      BY <1>1, <2>4 DEF Cd!readFrame
    <3> QED BY <2>1, <3>1, FailTells DEF ConnInv, Cd!TypeOK
  <2>5. CASE f.op = "event"
    <3>1. f.fin
      BY <2>1, <2>5 DEF CdFrames
    <3>2. UNCHANGED <<cdMsg, cdReader, cdPending, cdChan, cdClosed>>
      BY <1>1, <2>5, <3>1 DEF Cd!readFrame
    <3> QED BY <2>1, <3>2 DEF ConnInv, Cd!TypeOK
  <2>6. CASE f.op \in {"text", "continuation"}
    <3>1. /\ IF f.fin THEN Cd!dispatch(f.of) ELSE UNCHANGED <<cdPending, cdChan>>
          /\ UNCHANGED <<cdReader, cdClosed>>
      BY <1>1, <2>6 DEF Cd!readFrame
    <3>2. CASE f.fin
      <4>1. Cd!dispatch(f.of)
        BY <3>1, <3>2
      <4>2. PICK of : of = f.of
        OBVIOUS
      <4>3. Cd!dispatch(of)
        BY <4>1, <4>2
      <4>4. /\ cdChan' \in [CdCalls -> CdCalls \cup {"none", "closed"}]
            /\ cdPending' \subseteq cdPending
            /\ \A c \in CdCalls :
                 /\ cdChan'[c] \in {c, "none", "closed"}
                 /\ c \in cdPending \/ cdChan[c] # "none" => c \in cdPending' \/ cdChan'[c] # "none"
        BY <4>3, DispatchTells
      <4>5. Cd!TypeOK'
        BY <2>1, <3>1, <4>4 DEF ConnInv, Cd!TypeOK, Cd!NoReply
      <4>6. \A c \in CdCalls :
              /\ cdAnswer'[c] \in {c, "none", "error", "timeout"}
              /\ cdCall'[c] \in {"lock", "writing", "waiting"} => c \in cdPending' \/ cdChan'[c] # "none"
        BY <2>1, <4>4 DEF ConnInv
      <4>7. cdReader' # "ended" /\ cdClosed' \in BOOLEAN /\ cdAsked' \subseteq CdCalls
        BY <2>1, <2>2, <3>1 DEF ConnInv
      <4> QED BY <2>1, <4>4, <4>5, <4>6, <4>7 DEF ConnInv
    <3>3. CASE ~f.fin
      BY <2>1, <3>1, <3>3 DEF ConnInv, Cd!TypeOK
    <3> QED BY <3>2, <3>3
  <2> QED BY <2>1, <2>3, <2>4, <2>5, <2>6 DEF CdFrames
<1>2. CASE Cd!readFails
  BY <1>2, FailTells DEF Cd!readFails, Cd!wireVars, ConnInv, Cd!TypeOK
<1>3. CASE Cd!pongLock
  BY <1>3 DEF Cd!pongLock, Cd!callVars, Cd!wireVars, ConnInv, Cd!TypeOK
<1>4. CASE Cd!pong
  <2>1. UNCHANGED <<cdCall, cdAnswer, cdIn, cdAsked, cdBrowser, cdSocket>> /\ cdLock' = CdNobody
    BY <1>4 DEF Cd!pong, Cd!wireVars
  <2>2. CASE cdReader' = "read" /\ UNCHANGED <<cdChan, cdPending, cdClosed>>
    BY <2>1, <2>2 DEF ConnInv, Cd!TypeOK
  <2>3. CASE Cd!fail
    BY <2>1, <2>3, FailTells DEF ConnInv, Cd!TypeOK
  <2> QED BY <1>4, <2>2, <2>3 DEF Cd!pong
<1> QED BY <1>1, <1>2, <1>3, <1>4 DEF Cd!reading

LEMMA StepConnInv == ConnInv /\ [Next]_vars => ConnInv'
<1> SUFFICES ASSUME ConnInv, [Next]_vars PROVE ConnInv'
  OBVIOUS
<1>1. CASE UNCHANGED cdVars
  BY <1>1 DEF cdVars, ConnInv, Cd!TypeOK
<1>2. CASE Cd!browserKilled \/ Cd!stop \/ Cd!stopStep
  BY <1>2 DEF Cd!browserKilled, Cd!stop, Cd!stopStep, Cd!stopCancel, Cd!connClose, Cd!wsCloseLock,
              Cd!wsClose, Cd!stopKill, Cd!callVars, Cd!wireVars, Cd!readVars, ConnInv, Cd!TypeOK
<1>3. CASE Cd!Next
  BY <1>2, <1>3, CallsKeepConn, BrowserKeepsConn, ReaderKeepsConn DEF Cd!Next
<1> QED BY <1>1, <1>3 DEF Next, vars, uiTargetVars

\* A command gets the reply to itself or an error, whatever timed out before it, and none is
\* left waiting on a connection that has failed.
THEOREM RepliesCorrect == UiSpec => []ReplyIsOwn
<1>1. Init => ConnInv
  <2> SUFFICES ASSUME Cd!Init PROVE ConnInv
    BY DEF Init
  <2>1. Cd!TypeOK
    BY DEF Cd!Init, Cd!TypeOK, Cd!NoReply
  <2>2. cdIn \in Seq(CdFrames)
    BY DEF Cd!Init
  <2> QED BY <2>1, <2>2 DEF Cd!Init, ConnInv, Cd!NoReply
<1>2. ConnInv => ReplyIsOwn
  BY DEF ConnInv, ReplyIsOwn, Cd!TypeOK, Cd!ReplyIsOwn, Cd!NoReply, Cd!Waiting
<1> QED BY <1>1, <1>2, StepConnInv, PTL DEF UiSpec

-----------------------------------------------------------------------------
(* The sequences of the driver. *)

UiTypes ==
    /\ Ui!TypeOK
    /\ uiMade \in Nat /\ uiPages \in Nat /\ uiPage = uiPages
    /\ uiLate \in BOOLEAN

\* Who runs: nobody before a launch, what was launched until it is ready, and the program of
\* the session after that.
RunsAlone ==
    /\ uiPhase \in {"new", "launch", "closed"} => uiUp = {}
    /\ uiPhase \in {"firstawait", "await"} => uiUp \subseteq {uiMade} /\ uiCur # uiMade
    /\ uiPhase \notin {"new", "launch", "closed", "firstawait", "await"} => uiUp \subseteq {uiCur}
    /\ uiPhase = "await" => uiMade \in uiUp \cup uiDead

\* While the program runs, no page is open but that of the session, and the one that it
\* replaces until that is closed; what events there were came from these two.
PagesAreOwn ==
    /\ uiProblems \subseteq {uiPage, uiPage - 1}
    /\ uiCur \in uiUp => uiOpen \subseteq {uiPage, uiPage - 1}
    /\ uiCur \in uiUp /\ uiPhase # "oldpage" /\ ~(uiPhase = "navigate" /\ uiLate = TRUE) =>
           uiOpen \subseteq {uiPage}

\* Nothing is judged before the events are over, and then it is the program that the sequence
\* began with; an exit that the last event waited for is recorded.
Judged ==
    /\ uiPhase \notin {"idle", "failed", "closed"} => uiVerdict.kind = "none"
    /\ uiPhase \in {"oldpage", "navigate", "load", "first", "events", "settle"} =>
           uiCur \in uiUp \cup uiDead
    /\ uiPhase \in {"first", "events", "settle"} => uiBegan = uiCur
    /\ uiPhase \notin {"events", "settle", "idle", "failed", "closed"} => uiGone = "no"
    /\ uiGone = "waited" => uiKind = "tui"
    /\ uiPhase \in {"events", "settle"} /\ uiGone = "waited" =>
           uiCur \in uiReaped \cap uiDead

DriverInv == UiTypes /\ Ui!ProgramsAreOwned /\ Ui!SequenceIsOwn /\ RunsAlone /\ PagesAreOwn /\ Judged

LEMMA ProgramsKeep ==
    ASSUME DriverInv, NEW g, Ui!Die(g) \/ Ui!watch(g) \/ Ui!onEvent(g)
    PROVE  DriverInv'
<1> USE DEF DriverInv, UiTypes, Ui!TypeOK, Ui!ProgramsAreOwned, Ui!SequenceIsOwn, RunsAlone,
            PagesAreOwn, Judged, Ui!runVars, Ui!pageVars, Ui!progVars, Ui!Goto
<1>1. CASE Ui!Die(g)
  BY <1>1 DEF Ui!Die
<1>2. CASE Ui!watch(g)
  BY <1>2 DEF Ui!watch
<1>3. CASE Ui!onEvent(g)
  BY <1>3 DEF Ui!onEvent
<1> QED BY <1>1, <1>2, <1>3

LEMMA LaunchKeeps ==
    ASSUME DriverInv,
           \/ Ui!launch \/ Ui!launched \/ Ui!launchFails \/ Ui!startFails \/ Ui!spawnFails
    PROVE  DriverInv'
<1> USE DEF DriverInv, UiTypes, Ui!TypeOK, Ui!ProgramsAreOwned, Ui!SequenceIsOwn, RunsAlone,
            PagesAreOwn, Judged, Ui!runVars, Ui!pageVars, Ui!progVars, Ui!Goto
<1>1. CASE Ui!launch
  BY <1>1 DEF Ui!launch
<1>2. CASE Ui!launched
  BY <1>2 DEF Ui!launched
<1>3. CASE Ui!launchFails
  BY <1>3 DEF Ui!launchFails, Ui!killed, Ui!resetFailed, Ui!NoVerdict
<1>4. CASE Ui!startFails
  BY <1>4 DEF Ui!startFails, Ui!killed
<1>5. CASE Ui!spawnFails
  BY <1>5 DEF Ui!spawnFails, Ui!resetFailed, Ui!NoVerdict
<1> QED BY <1>1, <1>2, <1>3, <1>4, <1>5

LEMMA ResetKeeps == ASSUME DriverInv, Ui!reset PROVE DriverInv'
<1> USE DEF DriverInv, UiTypes, Ui!TypeOK, Ui!ProgramsAreOwned, Ui!SequenceIsOwn, RunsAlone,
            PagesAreOwn, Judged, Ui!runVars, Ui!pageVars, Ui!progVars, Ui!Goto
<1>1. CASE Ui!restart
  BY <1>1 DEF Ui!restart, Ui!killed
<1>6. CASE Ui!relaunch
  BY <1>6 DEF Ui!relaunch, Ui!killed
<1>7. CASE Ui!newPageFails
  BY <1>7 DEF Ui!newPageFails, Ui!killed
<1>2. CASE Ui!newPage
  BY <1>2 DEF Ui!newPage
<1>3. CASE Ui!closeOld
  <2>1. \/ uiLate = FALSE /\ uiOpen' = uiOpen \ {uiPage - 1}
        \/ (uiCur \notin uiUp \/ uiLate = TRUE) /\ uiOpen' = uiOpen
    BY <1>3 DEF Ui!closeOld
  <2>2. /\ uiPhase = "oldpage" /\ uiPhase' = "navigate"
        /\ UNCHANGED <<Ui!runVars, uiMade, uiUp, uiDead, uiReaped, uiCur, uiPages, uiPage, uiProblems,
                       uiLoaded>>
    BY <1>3 DEF Ui!closeOld
  <2>3. uiPage \in uiOpen' \cup {0} /\ (uiCur \in uiUp => uiOpen' \subseteq {uiPage, uiPage - 1})
        /\ (uiCur \in uiUp /\ uiLate = FALSE => uiOpen' \subseteq {uiPage})
    <3>1. uiPage \in Nat /\ uiPage # uiPage - 1 /\ uiPage \in uiOpen \cup {0} /\ uiLate \in BOOLEAN
          /\ (uiCur \in uiUp => uiOpen \subseteq {uiPage, uiPage - 1})
      OBVIOUS
    <3>2. CASE uiLate = FALSE /\ uiOpen' = uiOpen \ {uiPage - 1}
      BY ONLY <3>1, <3>2
    <3>3. CASE (uiCur \notin uiUp \/ uiLate = TRUE) /\ uiOpen' = uiOpen
      BY ONLY <3>1, <3>3
    <3> QED BY ONLY <2>1, <3>2, <3>3
  <2> QED BY <2>2, <2>3
<1>4. CASE Ui!navigate
  BY <1>4 DEF Ui!navigate
<1>5. CASE Ui!waitLoad
  BY <1>5 DEF Ui!waitLoad
<1> QED BY <1>1, <1>2, <1>3, <1>4, <1>5, <1>6, <1>7 DEF Ui!reset

LEMMA RunKeeps ==
    ASSUME DriverInv,
           \/ Ui!expire \/ Ui!Run \/ Ui!begin \/ Ui!Send \/ Ui!skip \/ Ui!sendFails \/ Ui!settle
           \/ Ui!finish \/ Ui!Close
    PROVE  DriverInv'
<1> USE DEF DriverInv, UiTypes, Ui!TypeOK, Ui!ProgramsAreOwned, Ui!SequenceIsOwn, RunsAlone,
            PagesAreOwn, Judged, Ui!runVars, Ui!pageVars, Ui!progVars, Ui!Goto
<1>1. CASE Ui!expire
  BY <1>1 DEF Ui!expire
<1>2. CASE Ui!Run
  BY <1>2 DEF Ui!Run, Ui!NoVerdict
<1>3. CASE Ui!begin
  BY <1>3 DEF Ui!begin
<1>4. CASE Ui!Send
  BY <1>4 DEF Ui!Send
<1>9. CASE Ui!skip
  BY <1>9 DEF Ui!skip
<1>5. CASE Ui!sendFails
  <2>1. uiVerdict'.kind = "error"
    BY <1>5 DEF Ui!sendFails, Ui!NoVerdict
  <2>2. /\ uiPhase = "events" /\ uiPhase' = "failed"
        /\ UNCHANGED <<uiKind, uiSeq, uiLate, uiLeft, uiGone, uiBegan, uiMade, uiUp, uiDead, uiReaped,
                       uiCur, uiPages, uiPage, uiOpen, uiProblems, uiLoaded>>
    BY <1>5 DEF Ui!sendFails
  <2>3. UiTypes' /\ RunsAlone' /\ PagesAreOwn' /\ Ui!ProgramsAreOwned'
    BY <2>2
  <2>4. uiGone # "waited"
    BY <1>5, <2>2 DEF Ui!sendFails
  <2>5. Judged'
    BY <2>1, <2>2
  <2>6. Ui!SequenceIsOwn'
    BY <2>1, <2>2, <2>4
  <2> QED BY <2>3, <2>5, <2>6
<1>6. CASE Ui!settle
  <2>1. /\ uiPhase = "settle" /\ uiPhase' = "events"
        /\ UNCHANGED <<uiKind, uiSeq, uiLate, uiLeft, uiBegan, uiVerdict, uiMade, uiUp, uiDead, uiReaped,
                       uiCur, uiPages, uiPage, uiOpen, uiProblems, uiLoaded>>
    BY <1>6 DEF Ui!settle, Ui!settled
  <2>2. uiGone' = "waited" => uiKind = "tui" /\ uiCur \in uiReaped \ uiUp
    BY <1>6 DEF Ui!settle, Ui!settled, Ui!Died
  <2>3. UiTypes' /\ RunsAlone' /\ PagesAreOwn' /\ Ui!ProgramsAreOwned' /\ Ui!SequenceIsOwn'
    BY <2>1
  <2>4. Judged'
    BY <2>1, <2>2
  <2> QED BY <2>3, <2>4
<1>7. CASE Ui!finish
  BY <1>7 DEF Ui!finish, Ui!judge
<1>8. CASE Ui!Close
  BY <1>8 DEF Ui!Close, Ui!killed
<1> QED BY <1>1, <1>2, <1>3, <1>4, <1>5, <1>6, <1>7, <1>8, <1>9

LEMMA StepDriverInv == DriverInv /\ [Next]_vars => DriverInv'
<1> SUFFICES ASSUME DriverInv, [Next]_vars PROVE DriverInv'
  OBVIOUS
<1>1. CASE UNCHANGED uiVars
  BY <1>1 DEF uiVars, DriverInv, UiTypes, Ui!TypeOK, Ui!ProgramsAreOwned, Ui!SequenceIsOwn, RunsAlone,
              PagesAreOwn, Judged
<1>2. CASE Ui!Next
  BY <1>2, ProgramsKeep, LaunchKeeps, ResetKeeps, RunKeeps DEF Ui!Next
<1> QED BY <1>1, <1>2 DEF Next, vars, uiTargetVars

\* A sequence is judged by what happened in it, and no program outlives the session that it
\* was started for.
THEOREM SequencesCorrect == UiSpec => []SequenceIsOwn
<1>1. Init => DriverInv
  <2> SUFFICES ASSUME Ui!Init PROVE DriverInv
    BY DEF Init
  <2>1. UiTypes
    <3>1. Ui!TypeOK
      BY DEF Ui!Init, Ui!TypeOK
    <3>2. uiLate \in BOOLEAN
      BY Zenon DEF Ui!Init
    <3> QED BY <3>1, <3>2 DEF Ui!Init, UiTypes
  <2>2. uiVerdict.kind = "none" /\ uiPhase = "new"
    BY DEF Ui!Init, Ui!NoVerdict
  <2>3. Ui!ProgramsAreOwned /\ Ui!SequenceIsOwn
    BY <2>2 DEF Ui!Init, Ui!ProgramsAreOwned, Ui!SequenceIsOwn
  <2>4. RunsAlone /\ PagesAreOwn /\ Judged
    BY <2>2 DEF Ui!Init, RunsAlone, PagesAreOwn, Judged
  <2> QED BY <2>1, <2>3, <2>4 DEF DriverInv
<1>2. DriverInv => SequenceIsOwn
  BY DEF DriverInv, UiTypes, SequenceIsOwn
<1> QED BY <1>1, <1>2, StepDriverInv, PTL DEF UiSpec
=============================================================================
