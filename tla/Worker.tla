------------------------------- MODULE Worker -------------------------------
(***************************************************************************)
(* The worker process (internal/worker/run.go): it loads the stored        *)
(* corpus, optionally learns, and then fuzzes in slices, handling the      *)
(* daemon's commands, distilling and reporting between them.               *)
(*                                                                         *)
(* Two goroutines run: the loop, which owns the engine, and readCommands,  *)
(* which fills the queue the loop drains.  The daemon closes both pipes    *)
(* when it goes.  A send that succeeds is delivered (the supervisor's pump *)
(* reads it).  The worker has a daemon; the standalone worker's budget is  *)
(* not modelled.                                                           *)
(***************************************************************************)
EXTENDS Engine

CONSTANTS
    Modes,       \* whether the campaign has a state model: a set of BOOLEANs
    Stored,      \* the entries the daemon's store holds at the start, in order
    Learnable,   \* sequences the learner may seed the corpus with
    Siblings,    \* what other workers may find and the daemon pass on
    SliceExecs,  \* candidates evaluated in one slice, at most
    QueueCap,    \* the capacity of the incoming queue
    MaxCmds,     \* bound: commands the daemon sends
    BothFaults   \* bound: whether a worker is cancelled after its daemon has gone

ASSUME WorkerAssumption ==
    /\ Modes \subseteq BOOLEAN
    /\ Stored \in Seq(Inputs)
    /\ ~ ToSet(Stored) \subseteq Unreadable
    /\ Learnable \subseteq Inputs /\ Siblings \subseteq Inputs \ Unreadable
    /\ SliceExecs \in Nat \ {0} /\ QueueCap \in Nat \ {0} /\ MaxCmds \in Nat
    /\ BothFaults \in BOOLEAN

VARIABLES
    pc,        \* where the loop goroutine is
    slice,     \* candidates left of this slice
    incoming,  \* commands queued
    paused, stop, cancelled,
    timer,     \* lastDistill: "unset", or the interval is "running" or "due"
    reported,  \* entries not to report (any more)
    told,      \* Worker.findings: how many findings have been reported
    ended,     \* why the worker finished, or "no"
    gone,      \* the daemon has closed the pipes
    sent,      \* how often each entry went to the daemon
    filed,     \* the findings that went to the daemon
    snapshot,  \* the coverage of the checkpoint the daemon holds
    synced,    \* entries that came from siblings
    mined,     \* entries the mutation stages admitted
    cmds       \* bound: commands sent

loopVars == <<pc, slice, paused, timer, ended>>
wireVars == <<reported, told, sent, filed, snapshot>>
inVars == <<incoming, synced, cmds>>
vars == <<engineVars, loopVars, wireVars, inVars, stop, cancelled, gone, mined>>

Endings == {"no", "stopped", "cancelled", "error"}

Init ==
    /\ stateful \in Modes
    /\ EngineInit
    /\ pc = "load" /\ slice = 0 /\ paused = FALSE /\ timer = "unset" /\ ended = "no"
    /\ stop = FALSE /\ cancelled = FALSE /\ gone = FALSE
    /\ incoming = << >> /\ cmds = 0
    /\ reported = {} /\ told = 0 /\ snapshot = {}
    /\ sent = [i \in Inputs |-> 0] /\ filed = << >>
    /\ synced = {} /\ mined = {}

-----------------------------------------------------------------------------
(* Starting. *)

\* The worker says it is ready; the message does not reach a daemon that has gone.
ready ==
    /\ pc' = "top"
    /\ stop' = (stop \/ gone)

\* loadCorpus: the stored entries are the campaign's already, so they are marked as
\* reported.
loadCorpus ==
    /\ pc = "load"
    /\ LoadCorpus(Stored)
    /\ reported' = ToSet(Stored)
    /\ IF stateful THEN pc' = "learn" /\ UNCHANGED stop ELSE ready
    /\ UNCHANGED <<slice, paused, timer, ended, told, sent, filed, snapshot, inVars,
                   cancelled, gone, mined>>

\* learnAndSeed: a path to a state the learner found is a seed.  A seed that cannot be
\* admitted, judged as a finding or not by then, ends the learning and nothing else.
learnAndSeed ==
    /\ pc = "learn"
    /\ \/ \E i \in Learnable : AddSeed(i) /\ UNCHANGED <<pc, stop>>
       \/ \E i \in Learnable : AddSeedFails(i) /\ ready
       \/ ready /\ UNCHANGED engineVars
    /\ UNCHANGED <<slice, paused, timer, ended, wireVars, inVars, cancelled, gone, mined>>

-----------------------------------------------------------------------------
(* Reporting.  A message to a daemon that has gone asks the worker to stop. *)

\* The entries not yet reported.
flushCorpus ==
    LET fresh == ToSet(corpus) \ reported
    IN /\ reported' = reported \cup fresh
       /\ sent' = IF gone THEN sent
                  ELSE [i \in Inputs |-> sent[i] + IF i \in fresh THEN 1 ELSE 0]

\* The findings not yet reported.
flushFindings ==
    /\ told' = Len(findings)
    /\ filed' = IF gone THEN filed ELSE filed \o SubSeq(findings, told + 1, Len(findings))

flush ==
    /\ flushCorpus
    /\ flushFindings
    /\ stop' = (stop \/ (gone /\ (~ ToSet(corpus) \subseteq reported \/ told < Len(findings))))

sendCheckpoint == snapshot' = IF gone THEN snapshot ELSE Snapshot

\* finish: the checkpoint goes first.
finish(reason) ==
    /\ sendCheckpoint
    /\ ended' = reason
    /\ pc' = "done"

-----------------------------------------------------------------------------
(* The loop. *)

\* Mistake in stopNow: what came since the last slice is not reported.
stopNowUnflushed ==
    /\ pc = "top" /\ ~cancelled /\ stop
    /\ finish("stopped")
    /\ UNCHANGED <<engineVars, slice, paused, timer, reported, told, sent, filed, inVars,
                   stop, cancelled, gone, mined>>

\* A stop with everything reported first.
stopNow ==
    /\ pc = "top" /\ ~cancelled /\ stop
    /\ flush
    /\ finish("stopped")
    /\ UNCHANGED <<engineVars, slice, paused, timer, inVars, cancelled, gone, mined>>

cancelNow ==
    /\ pc = "top" /\ cancelled
    /\ finish("cancelled")
    /\ UNCHANGED <<engineVars, slice, paused, timer, reported, told, sent, filed, inVars,
                   stop, cancelled, gone, mined>>

\* Neither: on to the commands.
carryOn ==
    /\ pc = "top" /\ ~cancelled /\ ~stop
    /\ pc' = "drain"
    /\ UNCHANGED <<engineVars, slice, paused, timer, ended, wireVars, inVars, stop,
                   cancelled, gone, mined>>

\* Mistake in acceptSync: what siblings found is not marked as reported.
acceptSyncUnmarked(entries) ==
    /\ LoadCorpus(entries)
    /\ synced' = synced \cup ToSet(entries)
    /\ UNCHANGED reported

\* acceptSync: marked as reported before it is added.
acceptSync(entries) ==
    /\ reported' = reported \cup ToSet(entries)
    /\ LoadCorpus(entries)
    /\ synced' = synced \cup ToSet(entries)

\* handle: one queued command.
handle ==
    /\ pc = "drain" /\ incoming # << >>
    /\ LET m == Head(incoming) IN
       \/ /\ m.type = "sync" /\ acceptSync(m.entries)
          /\ UNCHANGED <<paused, stop, snapshot>>
       \/ /\ m.type \in {"pause", "resume"} /\ paused' = (m.type = "pause")
          /\ UNCHANGED <<engineVars, reported, synced, stop, snapshot>>
       \/ /\ m.type = "checkpoint" /\ sendCheckpoint
          /\ stop' = (stop \/ gone)
          /\ UNCHANGED <<engineVars, reported, synced, paused>>
       \/ /\ m.type = "stop" /\ stop' = TRUE
          /\ UNCHANGED <<engineVars, reported, synced, paused, snapshot>>
    /\ incoming' = Tail(incoming)
    /\ UNCHANGED <<pc, slice, timer, ended, told, sent, filed, cmds, cancelled, gone,
                   mined>>

\* distillIfDue: not on the first pass; a campaign stopped during the measurement
\* keeps its corpus.
distillIfDue ==
    /\ IF timer = "due" /\ ~cancelled THEN Distill ELSE UNCHANGED engineVars
    /\ timer' = "running"

\* Mistake in pauseOrRun: a paused worker waits to be resumed.
pauseOrRunWaits ==
    IF paused THEN pc' = "drain" /\ UNCHANGED slice
              ELSE pc' = "run" /\ slice' = SliceExecs

\* A paused worker goes round; the others begin a slice.
pauseOrRun ==
    IF paused THEN pc' = "top" /\ UNCHANGED slice
              ELSE pc' = "run" /\ slice' = SliceExecs

\* No more commands are queued.
drained ==
    /\ pc = "drain" /\ incoming = << >>
    /\ distillIfDue
    /\ pauseOrRun
    /\ UNCHANGED <<paused, ended, wireVars, inVars, stop, cancelled, gone, mined>>

\* A measurement fails: the campaign of this worker ends, its corpus untouched.
distillFails ==
    /\ pc = "drain" /\ incoming = << >> /\ timer = "due" /\ ~cancelled
    /\ finish("error")
    /\ timer' = "running"
    /\ UNCHANGED <<engineVars, slice, paused, reported, told, sent, filed, inVars, stop,
                   cancelled, gone, mined>>

\* Engine.Run: the next candidate of the stages.
fuzz ==
    /\ pc = "run" /\ slice > 0 /\ ~cancelled
    /\ \E i \in Inputs \ Unreadable : evaluate(i)
    /\ slice' = slice - 1
    /\ mined' = mined \cup (ToSet(corpus') \ ToSet(corpus))
    /\ UNCHANGED <<pc, paused, timer, ended, wireVars, inVars, stop, cancelled, gone>>

\* The harness, the feedback or a plugin fails: the worker finishes with the error.
engineFails ==
    /\ pc = "run"
    /\ finish("error")
    /\ slice' = 0
    /\ UNCHANGED <<engineVars, paused, timer, reported, told, sent, filed, inVars, stop,
                   cancelled, gone, mined>>

\* Mistake in sliceEnds: only the findings are reported between slices.
sliceEndsFindings ==
    /\ pc = "run"
    /\ flushFindings
    /\ pc' = "top"
    /\ slice' = 0
    /\ UNCHANGED <<engineVars, paused, timer, ended, reported, sent, snapshot, inVars,
                   stop, cancelled, gone, mined>>

\* The slice ends, its executions spent, its time up or the worker cancelled, and
\* what it found is reported.
sliceEnds ==
    /\ pc = "run"
    /\ flush
    /\ pc' = "top"
    /\ slice' = 0
    /\ UNCHANGED <<engineVars, paused, timer, ended, snapshot, inVars, cancelled, gone,
                   mined>>

-----------------------------------------------------------------------------
(* The daemon, the reader of its commands and the clock. *)

Commands ==
    [type : {"pause", "resume", "checkpoint", "stop"}] \cup
    [type : {"sync"}, entries : {<<i>> : i \in Siblings}]

\* readCommands: a command that does not fit is dropped.
readCommand(m) ==
    /\ pc \notin {"load", "learn", "done"} /\ ~gone
    /\ cmds < MaxCmds
    /\ cmds' = cmds + 1
    /\ incoming' = IF Len(incoming) < QueueCap THEN Append(incoming, m) ELSE incoming
    /\ UNCHANGED <<engineVars, loopVars, wireVars, synced, stop, cancelled, gone, mined>>

daemonGoes ==
    /\ ~gone /\ (BothFaults \/ ~cancelled) /\ pc # "done"
    /\ gone' = TRUE
    /\ UNCHANGED <<engineVars, loopVars, wireVars, inVars, stop, cancelled, mined>>

\* readCommands finds the control channel closed; Close asks for the same.
readClosed ==
    /\ pc \notin {"load", "learn", "done"} /\ gone /\ ~stop
    /\ stop' = TRUE
    /\ UNCHANGED <<engineVars, loopVars, wireVars, inVars, cancelled, gone, mined>>

cancel ==
    /\ ~cancelled /\ (BothFaults \/ ~gone) /\ pc # "done"
    /\ cancelled' = TRUE
    /\ UNCHANGED <<engineVars, loopVars, wireVars, inVars, stop, gone, mined>>

\* The distillation interval passes.
intervalPasses ==
    /\ timer = "running" /\ pc # "done"
    /\ timer' = "due"
    /\ UNCHANGED <<engineVars, pc, slice, paused, ended, wireVars, inVars, stop, cancelled,
                   gone, mined>>

loop ==
    \/ loadCorpus \/ learnAndSeed
    \/ stopNow \/ cancelNow \/ carryOn \/ handle \/ drained
    \/ distillFails \/ sliceEnds \/ engineFails \/ fuzz

Next ==
    \/ loop
    \/ \E m \in Commands : readCommand(m)
    \/ daemonGoes \/ readClosed \/ cancel \/ intervalPasses

\* The loop goroutine keeps running (an execution is bounded by its timeout), and
\* the reader of a closed pipe returns.
Spec == Init /\ [][Next]_vars /\ WF_vars(loop) /\ WF_vars(readClosed)

-----------------------------------------------------------------------------
(* Properties. *)

TypeOK ==
    /\ stateful \in BOOLEAN
    /\ corpus \in Seq(Inputs \ Unreadable) /\ IsInjective(corpus)
    /\ virgin \subseteq UNION {Hits[i] : i \in Inputs}
    /\ known \subseteq UNION {StatesOf[i] : i \in Inputs}
    /\ \A i \in Inputs : HasTrace(traces, i) => traces[i] \subseteq UNION {StatesOf[j] : j \in Inputs}
    /\ \A n \in DOMAIN findings : findings[n].bug = Bug[findings[n].input]
    /\ pc \in {"load", "learn", "top", "drain", "run", "done"}
    /\ slice \in 0 .. SliceExecs
    /\ incoming \in Seq(Commands) /\ Len(incoming) <= QueueCap
    /\ {paused, stop, cancelled, gone} \subseteq BOOLEAN
    /\ timer \in {"unset", "running", "due"}
    /\ ended \in Endings
    /\ reported \cup synced \cup mined \subseteq Inputs
    /\ told \in Nat /\ sent \in [Inputs -> Nat]
    /\ snapshot \subseteq virgin

\* The entries the daemon has.
Delivered == ToSet(Stored) \cup synced \cup {i \in Inputs : sent[i] > 0}

\* Every counter the feedback has marked as seen is reached by an entry of the
\* corpus: no input is ever refused as nothing new for a place the corpus has lost
\* the way to, whatever trimming and distillation removed.
CoverageIsKept ==
    \A h \in virgin : \E i \in ToSet(corpus) : h[1] \in Counters(i)

\* An entry that this worker's own mutations did not produce and whose trace is known
\* has been judged: if it shows a bug, the engine has a finding of that bug, whether
\* the entry was stored, learned or synced (traceCorpus, AddSeed).
TracedIsJudged ==
    \A i \in ToSet(corpus) \ mined :
        HasTrace(traces, i) /\ Bug[i] # NoBug => \E n \in DOMAIN findings : findings[n].bug = Bug[i]

\* A worker that stopped when asked has told the daemon of every entry mutation
\* found, also of those distilled away since, and of every finding, each once and in
\* order.
StopLosesNothing ==
    ended = "stopped" /\ ~gone => mined \subseteq Delivered /\ filed = findings

\* The coverage a checkpoint claims is reached by entries the daemon has: a campaign
\* resumed from it has the inputs behind its map, unless the worker failed.
CheckpointIsBacked ==
    ended # "error" =>
        \A h \in snapshot : \E i \in Delivered : h[1] \in Counters(i)

\* What a worker found is not lost: to its own corpus, to the objectives, to the
\* daemon when it stops, or to a campaign resumed from its checkpoint.
DiscoveriesAreKept ==
    TypeOK /\ CoverageIsKept /\ TracedIsJudged /\ StopLosesNothing /\ CheckpointIsBacked

\* An entry goes to the daemon at most once, and never one that came from there.
NoEcho ==
    [][\A i \in Inputs : sent'[i] > sent[i] =>
           sent[i] = 0 /\ i \notin synced /\ i \notin ToSet(Stored)]_vars

\* A worker asked to stop finishes, paused or not.
StopIsAnswered == stop ~> ended # "no"

----------------------------------------------------------------------------
(* Two statements of the engine's comments that the code does not keep: TLC *)
(* refutes the first as it stands, the second with BothFaults.              *)

\* engine.go, AddSeed: the trace recorded against an entry is its own.
TraceIsOwn ==
    \A i \in ToSet(corpus) : HasTrace(traces, i) => traces[i] = Seen(i)

\* checkpoint.go, Snapshot: the corpus is durable and the findings are recorded when
\* a worker finishes, also when it finishes with an error.
FailureLosesNothing ==
    ended = "error" /\ ~gone => mined \subseteq Delivered /\ filed = findings

----------------------------------------------------------------------------
(* A small target for TLC.  Input 1 is the stored seed; 2 gets further and  *)
(* 3, which shows a bug, is what trimming may leave of it; 4 touches every  *)
(* counter, shows the bug too and lacks a state of 2; 5 cannot be decoded.  *)

MCHits == << {<<"a", 1>>}, {<<"a", 2>>, <<"b", 1>>}, {<<"a", 2>>, <<"b", 1>>},
             {<<"a", 1>>, <<"b", 1>>, <<"c", 1>>}, {<<"a", 1>>} >>
MCStatesOf == << {"greeting"}, {"greeting", "login"}, {"greeting", "login"},
                 {"greeting", "error"}, {} >>
MCBug == << NoBug, NoBug, "crash", "crash", NoBug >>
MCSize == << 2, 4, 3, 3, 1 >>
MCShrinks == << {}, {1, 3}, {1}, {1}, {} >>
MCStored == <<5, 1>>
=============================================================================
