------------------------------- MODULE MCExec -------------------------------
(***************************************************************************)
(* The executors, and the campaign file made into a worker that has one of *)
(* them.  A behaviour exercises the one that part names.                   *)
(***************************************************************************)
EXTENDS Naturals, Sequences, FiniteSets

CONSTANTS
    FsExecs, FsServers,
    PoolSize, PoolExecs, PoolPids,
    SesPolicies, SesFramings, SesRuns, SesMessages, SesGens,
    ApRequests, ApLinks,
    TiRuns,
    CfPairKeys, CfKinds, CfLayerKeys,
    Parts

VARIABLES
    part,
    fsHandle, fsLive, fsStarted, fsControl, fsStatus, fsChild, fsInput, fsStderr, fsDirty,
    fsNow, fsPhase, fsVerdict,
    ppWarm, ppClosed, ppLife, ppRefills, ppInHand, ppProc, ppKin, ppClosedEnds, ppUnder,
    ppUsed, ppPhase, ppPeer, ppExec,
    sePolicy, seFraming, seGen, seSrv, seProc, sePoison, seEnd, seExited, seResult, seConn,
    seNow, seLeft, sePhase, seVerdict,
    apKeep, apPhase, apNext, apConn, apReused, apAsked, apIn, apTwice, apService, apLate, apTries,
    apAnswers, apCarried, apUsed, apFresh, apVerdict,
    tiKind, tiDelivery, tiDir, tiFile, tiRun, tiPhase, tiInput, tiTarget, tiMap, tiCalls,
    tiDone, tiPanic, tiBeside, tiVerdict,
    cfLayers, cfProfile, cfResolved, asStep, asHeld, asClosers, asTier, asNote, asStack

Fork == INSTANCE ForkServer
Pool == INSTANCE ProcPool
Ses == INSTANCE Session
Api == INSTANCE ApiSession
Ti == INSTANCE Tiers
As == INSTANCE CampaignFile

\* The bounds are numbers.
ASSUME ExecAssumption ==
    {FsExecs, FsServers, PoolSize, PoolExecs, PoolPids, SesRuns, SesMessages, SesGens, ApRequests,
     TiRuns} \subseteq Nat

\* The campaigns and the keys that are enumerated are known ones.
ASSUME FileAssumption ==
    CfKinds \subseteq DOMAIN As!Plain /\ CfPairKeys \cup CfLayerKeys \subseteq As!Keys

fsVars == <<fsHandle, fsLive, fsStarted, fsControl, fsStatus, fsChild, fsInput, fsStderr,
            fsDirty, fsNow, fsPhase, fsVerdict>>
ppVars == <<ppWarm, ppClosed, ppLife, ppRefills, ppInHand, ppProc, ppKin, ppClosedEnds,
            ppUnder, ppUsed, ppPhase, ppPeer, ppExec>>
seVars == <<sePolicy, seFraming, seGen, seSrv, seProc, sePoison, seEnd, seExited, seResult,
            seConn, seNow, seLeft, sePhase, seVerdict>>
apVars == <<apKeep, apPhase, apNext, apConn, apReused, apAsked, apIn, apTwice, apService, apLate, apTries,
            apAnswers, apCarried, apUsed, apFresh, apVerdict>>
tiVars == <<tiKind, tiDelivery, tiDir, tiFile, tiRun, tiPhase, tiInput, tiTarget, tiMap, tiCalls,
            tiDone, tiPanic, tiBeside, tiVerdict>>
asVars == <<cfLayers, cfProfile, cfResolved, asStep, asHeld, asClosers, asTier, asNote, asStack>>
vars == <<part, fsVars, ppVars, seVars, apVars, tiVars, asVars>>

\* A value that one answer gives is carried by later requests.
Links == {<<1, 2>>, <<1, 3>>, <<2, 3>>}

\* A part that is not exercised starts in one fixed state.
Init ==
    /\ part \in Parts
    /\ Fork!Init
    /\ Pool!Init
    /\ Ses!Init
    /\ part # "session" => sePolicy = "none" /\ seFraming = "none"
    /\ IF part = "api" THEN Api!Init
       ELSE /\ apKeep = 0 /\ apPhase = 0 /\ apNext = 0 /\ apConn = 0 /\ apReused = 0 /\ apAsked = 0 /\ apIn = 0 /\ apTwice = 0 /\ apService = 0 /\ apLate = 0 /\ apTries = 0
            /\ apAnswers = 0 /\ apCarried = 0 /\ apUsed = 0 /\ apFresh = 0 /\ apVerdict = 0
    /\ IF part = "tiers" THEN Ti!Init
       ELSE /\ tiKind = 0 /\ tiDelivery = 0 /\ tiDir = 0 /\ tiFile = 0 /\ tiRun = 0 /\ tiPhase = 0 /\ tiInput = 0 /\ tiTarget = 0 /\ tiMap = 0 /\ tiCalls = 0
            /\ tiDone = 0 /\ tiPanic = 0 /\ tiBeside = 0 /\ tiVerdict = 0
    /\ IF part = "assembly" THEN As!BuildInit
       ELSE /\ cfLayers = 0 /\ cfProfile = 0 /\ cfResolved = 0 /\ asStep = 0 /\ asHeld = 0
            /\ asClosers = 0 /\ asTier = 0 /\ asNote = 0 /\ asStack = 0

Next ==
    \/ part = "fork" /\ Fork!Next /\ UNCHANGED <<part, ppVars, seVars, apVars, tiVars, asVars>>
    \/ part = "pool" /\ Pool!Next /\ UNCHANGED <<part, fsVars, seVars, apVars, tiVars, asVars>>
    \/ part = "session" /\ Ses!Next /\ UNCHANGED <<part, fsVars, ppVars, apVars, tiVars, asVars>>
    \/ part = "api" /\ Api!Next /\ UNCHANGED <<part, fsVars, ppVars, seVars, tiVars, asVars>>
    \/ part = "tiers" /\ Ti!Next /\ UNCHANGED <<part, fsVars, ppVars, seVars, apVars, asVars>>
    \/ part = "assembly" /\ As!BuildNext /\ UNCHANGED <<part, fsVars, ppVars, seVars, apVars, tiVars>>

\* What fairness is assumed of cannot happen in the first state of the pool, so it
\* says nothing of a behaviour that exercises another part.
Spec == Init /\ [][Next]_vars /\ Pool!Fairness

\* An execution's verdict and output are those of its own child, no path loses
\* a running fork server (ForkServer), and what the pool keeps is alive and
\* unused (ProcPool).
ForkIsSound ==
    /\ Fork!TypeOK /\ Fork!VerdictIsOwn /\ Fork!ServerIsOwned
    /\ Pool!TypeOK /\ Pool!WarmIsUsable

\* A closed pool leaves no process (ProcPool).
PoolIsReclaimed == Pool!PoolIsReclaimed

\* A crash is charged to the server, and the session, that it belongs to, and
\* at most one generation of the managed server runs (Session).
BlameIsRight == Ses!TypeOK /\ Ses!BlameIsRight /\ Ses!OneGeneration

\* A session's answers are those of its own requests, of an earlier one only when the
\* service answered one twice on a connection that is kept, and a request is sent again only
\* in place of one that an idle connection lost (ApiSession); what an execution is judged by
\* came from the input it was given, or from an abandoned call still at work (Tiers).
ExecutionIsOwn ==
    /\ part = "api" => Api!TypeOK /\ Api!SessionIsOwn
    /\ part = "tiers" => Ti!TypeOK /\ Ti!ExecutionIsOwn

\* What the file says is what is built: of the keys that are layered no layer is lost, every
\* feedback and tier that validation accepts is the one that is built, but for direction
\* under a backend that watches the process, and a build that fails gives back everything
\* that it took (CampaignFile).
FileIsHonoured ==
    part = "assembly" =>
        As!BuildTypeOK /\ As!WrittenIsKept /\ As!BuiltAsAccepted /\ As!NothingIsLeaked

-----------------------------------------------------------------------------
(* Statements of the code's comments that the code does not keep; TLC refutes *)
(* each of them when it is given as an invariant.                             *)

\* api.go: "the request whose response produces the value" (ApiSession).
ResponsesAreOwn == part = "api" => Api!ResponsesAreOwn

\* build.go: a directed campaign does not run and steer nowhere (CampaignFile).
DirectionIsBuilt == part = "assembly" => As!DirectionIsBuilt
=============================================================================
