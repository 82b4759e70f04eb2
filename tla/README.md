# Xfuzz: a TLA+ verification project

Xfuzz is a fuzzer made of a daemon (`xfuzzd`), worker processes
(`xfuzz-worker`) and clients (command line, HTTP API, web console). The daemon
owns campaigns; a campaign owns a supervisor, and the supervisor owns one
process per worker. Workers generate inputs, execute the target and report new
corpus entries, findings, statistics and checkpoints over a pipe. The daemon
keeps everything in a store (SQLite and a directory of content-addressed files)
and tells its clients what happens over an event bus.

This project models the parts of that system whose correctness depends on the
order of events, checks them with TLC on small instances, and proves the most
important properties with TLAPS for every instance.

    tlc -config Bus.cfg EventBus          tlapm EventBusProofs.tla
    tlc -config Sup.cfg Supervisor        tlapm SupervisorProofs.tla
    tlc -config Camp.cfg Campaign         tlapm CampaignProofs.tla
    tlc -config Daemon.cfg MCDaemon       tlapm DaemonProofs.tla
    tlc -config Data.cfg MCData           tlapm DataProofs.tla
    tlc -config Work.cfg Worker           tlapm WorkerProofs.tla
    tlc -config Exec.cfg MCExec           tlapm ExecProofs.tla
    tlc -config Guard.cfg MCGuard         tlapm GuardProofs.tla
    tlc -config Ui.cfg MCGuard

    tlc -config SupWriter.cfg Supervisor      tlc -config UiNarrow.cfg MCGuard
    tlc -config GuardNames.cfg MCGuard        (each finds the violation described below)

## 1. Inventory

| component | state | operations | what is hard | what makes it correct |
|---|---|---|---|---|
| event bus (`internal/daemon/bus.go`, `internal/api/events.go`) | subscriptions, a bounded queue each, one pending event per kind with a timer, a drop counter | Publish, Subscribe, Close, flush, retry of undroppable events, the HTTP stream | publishers act on a snapshot of the subscriptions; timers, retries and Close race | nothing is lost uncounted, no send on a closed channel, Publish never blocks |
| supervisor (`internal/daemon/worker.go`, `protocol.go`) | per worker: state, restart count, outbox, process handle, encoder | Start, Send, Broadcast, Stop; per process a reader, a writer, a kill watcher | a process may hang, die, stop reading while a write to it is blocked, close its pipe, at any point of Stop | Stop returns and leaves nothing behind; restarts are bounded; a finished worker stays finished |
| campaign (`internal/daemon/campaign.go`) | lifecycle state, triage queue, buckets, seen digests, pending sync | Start, Pause, Resume, Stop, Close, the termination loop, message handlers | rival finishers; late messages; the queue closed under a submitter | one finisher, which ends; triage drained before "finished" |
| daemon registry (`internal/daemon/daemon.go`) | campaigns by name, stores by directory, closed | Create, Load, Forget, Close | checks made before the lock is released | shutdown ends; the store outlives its users; names are unique |
| corpus sync (`campaign.go`, `internal/worker/run.go`) | seen, pendingSync, reported | onCorpus, flushSync, acceptSync, flushCorpus | lossy outboxes, restarts, failed saves | no echo for ever; an entry found is stored |
| blob store (`internal/store/blob.go`, `testcase.go`, `budget.go`) | files by digest, corpus and finding rows | Put, Get, Quarantine, Delete, SaveTestcases, Enforce, CollectBlobs | file first, row second; collection and culling between the two; crashes; damaged files | a row never promises a payload that is not there |
| findings (`internal/store/finding.go`, `internal/daemon/triage.go`) | finding rows, bucket rows with counts, the campaign's `bucketOf` | SaveFinding, UpdateTriage, Rebucket, SetDisposition, Replay, Minimize, onFinding, onTriaged | long operations that write back what they read | counts exact, views agree, a person's judgement is kept, nothing is left untriaged in silence |
| audit log (`internal/store/audit.go`) | chained entries, recorded head | Audit, VerifyAudit | changes made by something else | verification fails exactly when the log was changed |
| triage (`internal/triage`) | job queue, the input being minimised | Submit, Start, Close, Triage, minimise, verify, bucket | bounded queue, drain on close | a job accepted is reported; the minimised input still fails |
| worker loop (`internal/worker`) | stop and pause flags, queued commands, what was reported | load, learn, slices, drainCommands, sync, flush, checkpoint, distil, finish | commands between slices; several endings; a daemon that goes | a stop is answered and loses nothing; a checkpoint is backed by stored inputs; no echo |
| engine (`internal/engine`, `pkg/corpus`, `pkg/feedback`, `pkg/state`) | corpus, virgin map, states, traces, findings | evaluate, admit, trim, AddSeed, LoadCorpus, Distill, Snapshot | executions in several places; entries replaced and removed while the map only grows | what the map calls seen stays reachable; every execution is judged |
| executors (`pkg/executor`, `internal/safety/peer.go`) | fork server, pool of warm processes, managed server and its generations, keep-alive connection, calls under way | Start, Run, Reset, refill, Close | late replies, answers left on a connection, descendants that hold pipes, an exit status published by another goroutine, calls that cannot be stopped | a verdict is that of its own input; a crash is charged to the session that caused it; nothing started is lost |
| spawner, scope, sandbox (`internal/safety`) | process with its group and those that left it; rules and authorisation; what the host offers | Run, Start, Wait, Kill; Validate, Check; level, command | Wait of the library blocks on inherited output; edges of prefixes; a name that changes its meaning between rule, check and connection; mechanisms probed and not applied | an execution comes back; nothing out of scope is reached; what a level counts is applied |
| plugin host (`pkg/plugin`) | plugin process, decision pending per extension | call, settle, Close | a decision rides on a later call; the plugin dies between | a plugin is told every decision, in order, in time |
| capture (`internal/record`, `pkg/capture`) | proxy connections; stream of a connection; exchanges, secrets, links | serve, forward, tunnel, Close; add, reassemble; Redact, ApplySession, Infer | Close against connections being accepted; wrap and overlap of sequence numbers; secrets that contain one another | a capture holds what clients saw; a stream is bytes of the connection in order; a redacted session comes back whole |
| state (`pkg/state`, `pkg/learn`) | states and moves, trace store, pending trace; observation table | Append, Discard, Seed, Add; close, hypothesis, check | a trace judged now and committed or discarded later; eviction; distillation by coverage; a budget that ends | seeds exist for the states counted; the machine explains its table |
| configuration and assembly (`pkg/campaign`, `internal/worker/build.go`) | layers, profile, resolved file; closers | merge, defaults, validate, render; build, close | combinations no test builds; a failure half way | what is accepted is what is built; nothing acquired is leaked |
| metrics (`internal/metrics`) | last report per worker, totals, levels of history | Report, Forget, Add | counters that begin again | budgets are not spent early; the curve keeps its shape |
| IR (`pkg/ir`) | tree, encoding, slabs | Fix; clone, share, grow, rewind | derived fields that read one another; storage handed out again | derived fields hold what they are defined to; a tree reads as written |
| drivers (`internal/driver`, `internal/cdp`, `pkg/vt`) | program or page of a sequence, pending calls, screen | Run, ResetWith, settle, Close; Call, read, stop; Write, Resize | an exit seen before it is reaped; a browser that does not read; regions and wide characters | a sequence is judged on itself; stopping ends; the screen fits its grid |
| rng, codecs, schemas, generation, mutators, platform, tracer, binary, API, client, console, web, runtime | parsers, data transformations and operating-system interfaces | | | outside what a state machine shows well |

The full list with the reason for each omission is in `PROJECT.json`
("components"); the hazards, each at its line, are under "hazards".

## 2. Modules

| module | models | state and actions |
|---|---|---|
| `EventBus` | `bus.go`, the stream of `events.go` | a call of Publish is four kinds of step: stamp (`Publish`), copy the subscriptions (`Snapshot`), per subscription `deliver` and, unlocked, `send`; `hold`/`flush`/`flushSend` are coalescing and its timer; `sendUndroppable`/`retryLater`/`giveUp` the retrying goroutine; `Unregister`/`CloseSub` the two halves of Close; `eventStream` the reader |
| `Supervisor` | `worker.go` and, as the supervisor sees it, `internal/worker/run.go` | `sup[w]` is where `supervise` is; `spawn`, `pump`, `pumpEOF`, `join`, `reap`, `decide`, `retry` its steps; `writeTake`/`writeEncode`/`writeDone` the writer; `watch` the two that kill when the worker's context ends, the pump's watcher and the spawner's (which waits for the process to exit, so it covers the join as well); `Stop`, `stopAsk`, `stopWait`, `stopCancel`, `stopJoin` the call of Stop; the process takes its own steps |
| `SupervisorContract` | what a campaign relies on | idle, live, over per worker; no, asked, returned for Stop |
| `Campaign` | `campaign.go`, `daemon.go` (Forget, Close) | callers run Start, Pause, Resume, Stop, Forget and Close step by step (`pc`); `runLoop` is the termination loop; workers follow the supervisor's contract |
| `BlobStore` | `blob.go`, `testcase.go`, `budget.go` | `file` and `aged` on the disk, `entry` and `cited` in the tables; writers (`Save`, `putHit`/`putMiss`/`putRename`, `commit`, `saveFails`), collector, cull, readers that quarantine, `Spoil` and `Crash` |
| `Findings` | `finding.go`, `onFinding`, `onTriaged`, Replay, Minimize, the triage queue | every store operation is one transaction and one step; what runs between them is a program counter of the pump, the triage goroutine or a handler |
| `AuditLog` | `audit.go` | `log`, `head`; `saved` and `sealed` are history variables |
| `Engine` | `engine.go`, `checkpoint.go`, `corpus.go`, `distill.go`, `coverage.go`, `state/schedule.go` | an input is a model value with its counters, states, bug and remnants; `evaluate` is execution, judgement, `trim` and admission in one step, because the engine is sequential; `IsCover` says which entries the greedy loop of Distill takes |
| `Worker` | `internal/worker/run.go`, `learn.go`; extends `Engine` | `pc` is where the loop is (load, learn, top, drain, run, done); `handle` one queued command, `drained` distillation and the pause, `fuzz` one candidate, `sliceEnds` the flush, `stopNow`/`cancelNow`/`engineFails`/`distillFails` the endings; `readCommand`, `readClosed` the other goroutine |
| `Registry` | `daemon.go`, the requests of `api/routes.go` | a request runs Create (`storeAt`, `NewCampaign`, `CreateCampaign`, `register`), Load (`loadRow`), a start or a stop of the object it looked up, Forget; `Close`, `closeCampaign`, `closeStores` the shutdown |
| `CorpusSync` | `onCorpus`, `flushSync`, `Broadcast`, `flushCorpus`, `acceptSync` | per worker its corpus, status pipe and outbox; `onCorpus`, `onCorpusSave`, `onCorpusQueue` the three critical sections; `crash` restarts a worker with the stored corpus |
| `Triage` | `internal/triage`, `onTriaged` | `Verify`, `tryBlock`, `tryFiller`, `tryRemoval`, `Bucket`: one execution is one step; the target is every small set of bytes that makes it fail |
| `ForkServer`, `ProcPool`, `Session`, `ApiSession`, `Tiers` | the executors of `pkg/executor` | the calls of the executor, split where it waits, against the steps of the target: fork, reply, exit, death, descendants; the service of `ApiSession` may answer a request twice, and `leftOf` is what an exchange leaves on the connection |
| `Spawner` | `safety/spawn.go` | `Run` with its timeout, `terminate` and `reap`; a handle with several goroutines that wait, kill and give up |
| `Scope`, `Sandbox` | `safety/scope.go`, `authz.go`, the scope of `worker/build.go`; `sandbox.go`, `spawn.go` | over a small address space: `Allow` and `Authorize` in the daemon, `NewScopeFrom` in the worker, `CheckAddr` and then `DialContext` for a destination, `DialControl` for a browser's port, with `Rebind`, the records of the name changing, between any two of them; `Check` and `command` with `ensureCgroup` over every host and policy |
| `PluginHost` | `pkg/plugin`, both sides | `Judge`, `settle`, `CallOther`, `Receive`, `Serve`, `Timeout`, `Close` |
| `Recorder` | `record/proxy.go` | the accept loop, a goroutine per connection, `Close`, `closeConns`, `wait` |
| `Capture` | `capture/pcap.go`; `auth.go`, `session.go`, `link.go` | one segment per step; `Redact`, `Session`, `ApplySession`, `Infer` |
| `CampaignFile` | `pkg/campaign`; `worker/build.go` and its helpers, `internal/extension` | `Load` of layers and a profile, with defaults and validation; `BuildStep`, each of which may fail |
| `Metrics` | `internal/metrics`, `terminationReason` | `execute`, `restart`, `Report`, `tick` |
| `Learner` | `pkg/learn`, `worker/learn.go` | `closeAgain`, `closed`, `closeFails`, `sample`; the teacher is an operator |
| `StateGuidance` | `pkg/state`, the stage of the engine that uses it | `AddSeed`, `Seed`, `execute`, `admit`, `reject`, `Distill`; `AppendFeedback` commits the pending trace or discards it, as the combination of feedbacks does with one that did not fire |
| `Fixup` | `pkg/ir/fixup.go`, `ref.go` | `Mutate` and `FixUp`, the whole pass in one step |
| `Arena` | `pkg/ir/arena.go` | cells of three kinds with the indices of the slabs; `Begin`, `BeginShared`, `Flip`, `Lengthen`, `Insert`, `Admit` |
| `Cdp`, `UiDriver`, `Terminal` | `internal/cdp`; `executor/driver.go`, `internal/driver`; `pkg/vt` | calls, reader and `stop` over one socket; sequences over three backends; `Write` and `Resize` of a terminal, with the parser |
| `MCData`, `MCDaemon`, `MCExec`, `MCGuard` | | several parts that share no variable, composed: `part` names the one a behaviour exercises, the others stay in one fixed state. `MCGuard` has two specifications, `Spec` and, with the fairness of a browser's connection in place of that of spawner and proxy, `UiSpec` |
| `EventBusProofs`, `SupervisorProofs`, `CampaignProofs`, `DaemonProofs`, `DataProofs`, `WorkerProofs`, `ExecProofs`, `GuardProofs` | | theorems (section 4) |

The other modules are their own instances: what their `.cfg` gives to the
constants stands at the end of the module (`Worker`: a target of five inputs).

Definitions carry the names of the Go functions they translate; a function that
releases a lock, waits or does I/O in the middle is split there and the pieces
are named after it. Definitions introduced by "Mistake in" (`pushUncounted`,
`joinAnyway`, ...) are that function with a plausible error; no specification
uses them. Substituting one for the function makes TLC refute a property, and
a property that is a conjunction has, as a rule, one for each of its conjuncts;
`PROJECT.json` ("mutants") names one for each property.

Abstractions worth knowing:

* time. Timers and deadlines may fire at any moment after they are armed. The
  one assumption about durations is `Age` in `BlobStore`: the collector's grace
  is longer than a batch takes from Put to commit.
* payloads, messages and names are members of small sets. Events keep sequence
  number, kind and campaign; status messages are `msg`, `stopped`, `bad`;
  commands `stop`, `other`.
* a hash is the tuple of what it hashes; a coverage signature is the set of
  (counter, bucket) pairs it hashes.
* text and trees. What a conversion does is modelled where a property is about
  it: redaction replaces pieces of text that may contain one another, an
  integer of the IR has a width and a byte order and wraps, an address is a
  number with prefixes that are aligned blocks.
* history variables (`handed`, `delivered`, `lost`, `superseded`, `held`,
  `spoiled`, `saved`, `sealed`, `lostCheckpoint`, `sent`, `filed`, `synced`,
  `mined`, `truth`, `added`, `unsaved`, `bereft`) are written and never read by
  a guard.

## 3. Runs

### Bus

Two publishers of two campaigns, one subscription whose queue holds one event
and whose stream asks for the first campaign, three kinds of
event (coalesced, ordinary, undroppable), three events. Three are enough to
fill the queue, hold one event and have a third arrive against either; both
publishers can be past their snapshot while the subscription is closed.

* `NothingVanishes`: an event handed to an open subscription was delivered, is
  waiting somewhere, was superseded, or was counted as dropped.
* `EventsAreCounted`: the types; the counter equals the events lost, so a retry is
  not counted twice (`DroppedIsExact`); a held event has a timer (`PendingIsArmed`).
* `NoSendOnClosed`, and `Flows`: Publish returns (`PublishReturns`) and what the
  daemon holds is settled (`Settles`).

Fairness (`DaemonFairness`): goroutines are scheduled and timers fire; giving up
is strongly fair because a deadline that has passed stays passed. Nothing is
assumed of the reader: `Flows` holds for a reader that never reads.

### Sup

One worker, one restart, an outbox of two, a status pipe of two, a control pipe of
one; the process may report, send an undecodable line, ignore commands, finish, die or
hang at every point. The bound on the control pipe is what makes the hard case: a second
command finds it full, so the writer is blocked when the worker hangs, closes its status
pipe or is stopped. `StopLeavesNothing`, `WriterWithinRun`, `StopReturns`, and refinement
of `SupervisorContract` (`ImplementsContract`). Stop treats workers one after the other
and they share nothing else; the safety properties are proved for any set of workers.

`StopReturns` rests on the context that Stop cancels last: the spawner was given it and
kills the process when it ends, also after the pump and its own watcher have gone, and a
write to a dead process fails. `SupWriter` shows what holds without a Stop, and what
does not (see the disagreements below).

Fairness: the daemon's goroutines and timers, nothing of the process. `writeDone`
is strongly fair because Go's `select` between a closed channel and the outbox is
random.

### Camp

Two callers that may each call Start, Pause, Resume, Stop, Forget and Close in
any order, one worker that may restart once, one finding, one pause, one Start.
Two callers and the run loop are three rival finishers. There is one Start because
with two the properties fail: Start refuses only a campaign that is running, so it
revives one that is being stopped (see the disagreements below).

* `FinishIsClean`: one finisher at a time (`OneFinisher`), and as long as nobody
  forgets the campaign or closes the daemon, "finished" means no worker lives and
  triage holds no job (`DoneUnlessDropped`).
* `StoppingFinishes`, which includes that Wait is released, and `ShutdownReturns`.

Fairness: goroutines are scheduled, a triage job ends (its executions have a
timeout), a worker reads its commands, and a worker is over once the supervisor
is stopped, which is what the supervisor's contract and `StopReturns` give. No
caller is assumed to call anything.

### Data

The store: two digests, two writers, a reader, a collector, a budget of one entry, one
fault; two pumps, one handler, two buckets, a triage queue of one, three reports;
three audit entries and two changes; an input of four bytes, two trials and six
executions of minimisation. Digests, writers, pumps and buckets are symmetric.

* `StoreIsSound`: wherever a crash, a failed batch, a cull or a collection falls,
  a row has its payload, if its own Put wrote it and the disk did not damage it
  (`RowsHavePayloads`); as long as every append found the log ending at the
  recorded head, the log verifies exactly when it is what was written
  (`VerifiesIffIntact`).
* `FindingsAreAccounted`: `CountsAreExact`, `BucketOfAgrees`, `NewIsAccountedFor`.
* `JudgementIsKept`: no triage pass changes what a person decided.
* `ReproducerIsKept`: what triage records is stored, no longer than the original,
  and on a deterministic target fails as the original did. Four bytes give every
  pattern of needed and redundant bytes over two granularities, and a budget
  that runs out in the middle.

What a worker computes without concurrency, each over all inputs of a bounded shape:

* `LevelIsHonest`: every combination of what a host offers and a policy asks for, targets
  that fork their executions and targets that do not, a cgroup that is made or fails. What
  the level counts is on the command line, among the namespaces or attached, but for the
  PID namespace where the code does not ask for it and the cgroup that failed; those two
  cases contradict the comments and are `CountedIsApplied` below.
* `SessionsAreUsable`: sequence numbers modulo sixteen with a start before the wrap;
  credentials that contain one another; every machine with two states and two letters
  and a family with three, with a budget that is enough and a patience that is not.
* `TreesAreTrue`: trees in which three checksums cover one another in every way,
  and records with every kind of derivation, two mutations deep; an arena whose
  slabs are filled, exceeded and rewound.

The daemons run for ever or stop when they like, and a bounded run ends when its
bounds are used up, so deadlock is not checked.

### Work

Five inputs, of which one cannot be decoded, one loses bytes to trimming without
changing its signature and two show a bug; campaigns with and without a state
model; slices of one candidate, a queue of one command, two commands, a trace
store of two. The worker is cancelled or loses its daemon, not both
(`BothFaults`). One candidate between two looks at the commands gives every order
of admissions, syncs, distillations and stops that longer slices give.

`DiscoveriesAreKept` is the conjunction of the types and

* `CoverageIsKept`: every counter marked as seen is reached by an entry of the
  corpus, through every trim and distillation. Counters, not buckets: the cover
  ignores hit counts on purpose (`coveredIndices`).
* `TracedIsJudged`: an entry that was stored, learned or synced and has a trace
  has been judged by the objective.
* `StopLosesNothing`: when a worker ends because it was asked to, the daemon has
  every entry it mined, also those distilled away since, and every finding once.
* `CheckpointIsBacked`: the coverage a checkpoint claims is reached by entries the
  daemon has. A campaign with a state model claims none (see below).

and beside it

* `NoEcho`: no entry goes to the daemon twice or back to it.
* `StopIsAnswered`, under weak fairness of the loop goroutine, whose every
  execution is bounded by a timeout, and of the reader of a closed pipe.

The target is deterministic, messages to a daemon that lives arrive (the
supervisor reads them), and log and metrics messages are left out: when one of
them meets a closed pipe it does what `readClosed` does.

### Daemon

The registry: three requests, two names, one directory, a limit of one campaign,
each request any of Create, Load, start, stop, Forget, and Close at any time. Two
are needed for a race between two critical sections, the third comes between.
`RegistryIsSound`: a directory is opened once and every object ever built for a
campaign runs under the seed its row records.

The synchronisation: two workers, two discoveries, outboxes of one message, one
crash, one failing save. `ReportedIsKept`: a reported discovery is stored, on its
way, or in a save that failed with a warning, and is queued for the siblings at
most once. `Spreads`: a stored one reaches every worker, unless a message that
carried it was counted as dropped, or the worker that found it crashed between
its report and the save. Fairness: the loops of worker, pump, writer and ticker go
on; a save ends, one way or the other.

The counters: two workers, one restart, two executions and a budget of two; a history of
two levels of two points each, with intervals of two and three units over six units of
time and a retention of five, so that points are thinned, pushed out and expired.
`CountersAreTrue`: the budget ends no campaign before it is spent, and since the oldest
point that a level holds the curve has a point shortly before every snapshot the history
was given, one of those snapshots itself.

The guidance by states: a server of three states with legal and illegal moves, sessions of
up to three messages from an alphabet of two, two of them committed to the model, and a
trace store of one, so that a trace is evicted while its entry is kept and the scheduler
works without it. Two campaigns: one on sessions, whose state feedback is alone, and one on
a driver, whose trace begins with the first screen and in whose combination another
feedback may find a session interesting whose states are not new; the trace is then
discarded. (The tier changes only how a trace begins, and the combination only what the
engine does with it, so the other two pairings show nothing more; the theorem has all.) A
distillation, possible as soon as there is coverage, keeps any entries, because which of
them cover it is not the state model's to say. `GuidanceIsSound`: a state that is counted
is reached by an entry, or by one that a distillation dropped (`KnownStateIsKept`), a
message changed past the aim keeps the way to it (`AimIsPreserved`), and visits and moves
balance (`CountsBalance`).

### Exec

Three executions through the fork server with three servers, the pool of two with
five processes, two sessions of two messages with three generations of the server
under each reset policy and framing, three requests with links between all of
them, and three executions in process, as a process, or emulated.

* `ForkIsSound`: a verdict and an output are those of a child that read this
  execution's input from its beginning; no server is lost; what the pool keeps is
  alive and has seen no input.
* `BlameIsRight`: a reported crash is a fault of the server this session talked to,
  under the restart policy one this session caused; one generation runs.
* `ExecutionIsOwn`: an answer, and what is carried from it, belongs to its request, or to
  an earlier one if the service has answered one twice on a connection that is kept; a
  request is sent a second time only after a reused connection failed it, and a crash is
  one that a fresh connection met. Two answers to a request stand for an interim response
  and for a request that the service takes for two. An execution in process is judged on
  its own call, and its coverage and panic are its own or those of an abandoned call that
  was still at work when it began.
* `PoolIsReclaimed`: no process of a closed pool stays alive, with fairness for
  timers, refills and watchers and none for targets.
* `FileIsHonoured`: the file that chooses the executor: kinds of campaign with the
  settings that interact, two layers and a profile; what is written is kept; of what is
  accepted the feedbacks asked for are built with the regions they read, except direction
  under a backend that watches the process, and the tier asked for runs; a build that
  fails at any step, like a close, leaves nothing acquired.

### Guard

* `SpawnedComesBack`: Run returns and waiters are released, whatever survives the
  kill. Fairness for goroutines and timers only.
* `SettlementArrives`: two feedback extensions and a mutator, two judgements each
  way; decisions arrive in order, before the next judgement, and by Close. The
  extensions have names of their own (`NamesAreApart`); `GuardNames` is the run in
  which a feedback and a mutator share one.
* `ScopeIsEnforced`: eight addresses of which three are public and one loopback, every
  prefix and set of ports, one entry in the allowlist, and a name with three answers: one
  address, another beside it, and a public one instead. Its records may change between
  allowlist, authorisation, worker, check and connection. Nothing is connected to that
  the worker's rules do not cover, unless the name got the address after its check; a
  control channel stays on the loopback network; nothing off the host is reached without
  an authorisation in the audit log. One entry is enough: it is a prefix, or a name that
  becomes two rules.
* `CaptureIsComplete`, `CloseReturns`: two connections and three requests, with
  and without interception. Waits on servers are bounded by a timeout and waits on
  a closed socket end; nothing is assumed of clients.

### Ui

`MCGuard` again, with the parts that need something of a browser (`UiSpec`).

* `ReplyIsOwn`, `StopEnds`: two calls and a ping over a socket whose browser may
  stop reading, die, fragment, or talk nonsense. A lock that is released again and
  again is got in the end (Go's mutex is fair after a millisecond), and a killed
  browser ends; nothing else is assumed of it.
* `SequenceIsOwn`: three sequences of two events on each backend, with launches
  that fail half way: verdicts are of the program of the sequence, a terminal program
  whose exit was waited for is reported as crashed, and no program is left without an
  owner. The wait for quiet may end although the program has died, and the wait for its
  exit is bounded; what is missed then is `CrashIsSeen` below.
* `TerminalIsSound`: up to four writes and resizes out of some seventy, on grids of
  3x3 and 2x2. Rows outside the scrolling region stay, and cursor, region and grid
  fit each other.

### Disagreements between the code and what it says

`SupWriter` refutes `JoinReturns` (the sentence of `worker.go:308`): when the stream of a
worker has ended, the supervisor waits for the writer before the bounded wait that kills,
so a worker that sent a bad line or its last message and then neither reads nor exits
holds it, and is neither killed nor restarted until somebody stops the campaign.
`GuardNames` refutes `SettlementIsNotLost`
(`plugin/host.go:282`): decisions are kept by the name of the extension, and a plugin
may offer a feedback and a mutator of one name, whose call then takes the decision
along to where nobody reads it. `UiNarrow` refutes `ScreenIsSound` on a terminal of
one column (`vt/fuzz_test.go:17`): without wrapping, a wide character puts the
cursor at column -1.

The following are stated in their modules, under a heading that says so, and TLC
refutes each when it is put into the run of its module:

| statement | module | the sentence | what happens |
|---|---|---|---|
| `PauseSuspends` | Campaign | `campaign.go:550` | a process restarted during a pause does not know of it |
| `DoneUnlessDropped`, `OneFinisher` (with `MaxStarts = 2`) | Campaign | `campaign.go:483` | Start makes a campaign that is stopping a running one, and the next finisher does not wait for the first |
| `CheckpointBeforeStoreCloses` | Campaign | `daemon.go:263` | a campaign that is already stopping is not waited for |
| `MinimizeNeverUpgrades` | Findings | `daemon/triage.go:410` | the state is read before minutes of work and written after |
| `FailureLosesNothing` | Worker (with `BothFaults`) | `engine/checkpoint.go:16` | a worker that ends with an error writes its checkpoint and does not flush |
| `TraceIsOwn` | Worker | `engine/engine.go:383` | the trace is read after trimming ran other inputs through the observers |
| `TruncationShows` | AuditLog | `audit.go:30` | the next append overwrites the head that would have shown it |
| `CloseStopsEveryCampaign` | Registry | `daemon.go:245` | a request that holds the object starts it after Close |
| `NextRoundCarriesIt` | CorpusSync | `daemon/worker.go:396` | `flushSync` forgets what it handed over |
| `PoolKeepsItsSize`, `DeliverReturns` | ProcPool | `procpool.go:45`, `:273` | refills add without looking; the reader is waited for without limit |
| `DistillationKeepsStates` | StateGuidance | `engine/engine.go:407` | distillation covers coverage and does not look at states |
| `ResponsesAreOwn` | ApiSession | `executor/api.go:100` | an answer left on the connection is read for the next request |
| `PublicIsAcknowledged` | Scope | `scope.go:99` | only the ends of a prefix are looked at |
| `CheckedIsDialled` | Scope | `scope.go:204` | a name is resolved for the check and again for the connection |
| `AttestedIsChecked` | Scope | `scope.go:129`, `:84` | the worker resolves the names of the allowlist anew |
| `DecisionsAreAudited` | Scope | `scope.go:103`, `:295` | the scope of a worker has no auditor |
| `CountedIsApplied` | Sandbox | `sandbox.go:22` | PID namespace and cgroup are counted as the host has them |
| `StrongHasUserNamespace` | Sandbox | `sandbox.go:42` | the level needs a privileged fuzzer, which makes none |
| `DirectionIsBuilt` | CampaignFile | `build.go:445`, `validate.go:278` | direction is accepted under a backend that returns before it is prepared |
| `CrashIsSeen` | UiDriver | `driver/tui.go:267` | quiet may be noticed before the end of the program, and the wait for its exit is bounded |
| `PinnedRunsTheSame` | CampaignFile | `campaign/explain.go:64` | the rendering sets a codec, which turns the grammar off |

Others, met while reading, are under "findings" in `PROJECT.json`: among them one
pending event per kind for all campaigns, the stream's filter before its drop
counter, buckets that come back empty, checkpoints without coverage under a
combined feedback, seeds and trimmed candidates that are not judged, findings of another campaign that Replay accepts, content lengths
fixed before credentials are put back, refusals moved to the wrong letter of a
word.

## 4. Proofs

Every theorem is of the specification that the runs check and holds for all values
of the constants that satisfy the assumptions. Each module first proves the types
(in a form the provers can use, one conjunct per variable), then an inductive
invariant, one lemma per operation or group of operations, and last the theorem,
which combines them. In a composed module only one part takes steps, so each part
has an invariant of its own and a step of another part leaves it alone.

| module | theorem | property of the runs |
|---|---|---|
| `EventBusProofs` | `TypeCorrect`, `PendingArmed`, `CountersAreExact` | `EventsAreCounted` |
| | `NoSilentLoss`, `ClosedChannelsAreQuiet` | `NothingVanishes`, `NoSendOnClosed` |
| `SupervisorProofs` | `StopIsClean`, `WriterOnlyWithinRun` | `StopLeavesNothing`, `WriterWithinRun` |
| | `Refinement` | `ImplementsContract` |
| | `TypeCorrect`, `GivenUpAfterRestarts`, `FinishedNotRestarted` | |
| `CampaignProofs` | `FinishesOnce`, `FinishIsCleanOnce` | `FinishIsClean`, with at most one start |
| | `CampaignTypeCorrect` | |
| `DaemonProofs` | `RegistryCorrect`, `ReportsCorrect` | `RegistryIsSound`, `ReportedIsKept` |
| | `CountersCorrect`, `GuidanceCorrect` | `CountersAreTrue`, `GuidanceIsSound` |
| `DataProofs` | `PayloadsCorrect`, `TamperingShows`, `StorageCorrect` | `StoreIsSound` |
| | `FindingsCorrect`, `JudgementsCorrect` | `FindingsAreAccounted`, `JudgementIsKept` |
| | `ReproducersCorrect`, `LevelsCorrect` | `ReproducerIsKept`, `LevelIsHonest` |
| `WorkerProofs` | `EchoesCorrect`, `DiscoveriesCorrect` | `NoEcho`, `DiscoveriesAreKept` |
| `ExecProofs` | `SessionCorrect` | `BlameIsRight` |
| | `ForkServerCorrect`, `PoolCorrect`, `ExecutorsCorrect` | `ForkIsSound` |
| | `ExecutionsCorrect`, `FileCorrect` | `ExecutionIsOwn`, `FileIsHonoured` |
| `GuardProofs` | `ScopeCorrect`, `CapturesCorrect` | `ScopeIsEnforced`, `CaptureIsComplete` |
| | `SettlementsCorrect` | `SettlementArrives`, of extensions with names apart |
| | `RepliesCorrect`, `SequencesCorrect` (of `UiSpec`) | `ReplyIsOwn`, `SequenceIsOwn` |

What the properties need to become inductive is what the code relies on without
saying so:

* Event bus. `PubOK` says what each position of Publish knows of its locals.
  `PendingIsArmed` needs that only Close stops a timer. `AllAccounted` says for every
  event handed over in which of seven places it is. `ExactInv` says that it is in one
  of them only, so that the counter equals the events lost; this needs `StampsInv`,
  by which no two publishers have one sequence number.
* Supervisor. `StopInv`: every worker not yet over is in Stop's hand or still ahead of
  it. `RestartInv` is the bound while a worker is still tried. `Refinement` rests on
  `StopInv`, because Return of the contract needs every worker over.
* Campaign. `LifeInv`: as long as a campaign was started once, whoever is in the body
  of finish is alone there, a campaign that is stopping has somebody there, and what
  that goroutine has passed is done. The condition is not a convenience: TLC refutes
  both conjuncts with two starts (section 3).
* Registry. What a request still has in hand after it gave the lock back exists and
  has the name it was created with (`RequestsHold`, `HeldExist`, `SeedsAreRows`).
* Synchronisation. `ReportsAreKept` follows an entry from the report to the store
  (`SeenIsKept`), `PumpsApart` says that two pumps never hold the same one, which makes
  "queued once" inductive, and `SpreadIsSaved` that nothing is spread before it is kept.
* Counters. `Accounted`: for each worker the larger of what its process has done and what
  its last report claims, summed, stays within the executions that took place; the claims
  alone are not inductive, because a report may come after the restart. `Instants`: a
  coarser level was reached no later than a finer one, and earlier by no more than the
  intervals between them, which is what makes a snapshot that does not reach a level close
  to the last one that did. `Held`: what each level keeps is in order and without a gap, and
  stays so when points are appended, pushed out or expired (`AppendLevel`, `DropLevel`,
  `SkipLevel`). The curve has every instant of the levels because a finite set of numbers
  has a member at each position of its order (`Ranked`).
* Guidance by states. `Counted`, `Kept` and `Aimed` are the three properties with what they
  need: the session that is pending is the one executed last, so that trimming it is trimming
  what the feedback commits, or discards; a dropped entry stands on for what it reached
  (`Kept`); trimming keeps the set of states (`TrimKeepsStates`), which is
  why the shorter session stands for all that was counted. Sessions that agree on their
  first messages lead the target the same way (`SamePath`), which is an induction along the
  session. The balance holds because every label of a trace but the first is the end of
  exactly one move (`TimesCount`), and the sum over the moves into a state adds up
  (`HitsAddUp`, `TotalsAdd`).
* Blob store. `BatchesHold`: a batch under way has its files in place and too young for
  the collection that runs; `RowsHold`: no collection under way is going to take what a
  row points at.
* Audit log. A chain is determined by its last hash (`ChainIsDetermined`), downwards
  entry by entry; an induction over positions without an operator parameter, see below.
* Findings. `PumpsOwn` and `TriagerHolds` say who has a finding in hand and what he
  knows of it. The counts are cardinalities, and three lemmas say how one row changes
  them (`CountsGrow`, `CountsEnsured`, `CountsMove`).
* Triage. `SameFailure`: what is kept at each position fails as the original did.
* Scope. `ScopeInv`: nothing is checked or reached before the worker has its rules, which
  do not change then, and a worker of a campaign that leaves the host runs under a record
  that was made.
* Sandbox. `ProbeIsTrue`: what is remembered of the probe is what the probe would find, so
  level, flags and namespaces are the same before it and after (`DerivedStays`).
* Worker. Beside the properties themselves `WorkerInv` has six parts: `EngineOK`, the types
  of the engine with `CoverageIsKept`; `Judged`: what has a trace and was not mined has been
  judged; `LoopOK`: what holds at each position of the loop; `MarkedOK`: whatever was sent,
  synced or loaded is marked as reported, which makes `NoEcho` true; `WireOK`: what is
  marked has been delivered, and between two slices everything mined is marked; `FiledOK`:
  the daemon has the findings up to the mark of what was filed, in order and once.
* Executors. `ExecutionIsOne` and `PipesAreEmpty`: command, child and reply of an
  execution are in the pipes one at a time, and nothing is left when the next begins.
  `OnePlace`: a process of the pool is warm, in the hand of a refill, or was given an
  input, never two of these. `OwnServer`: under the restart policy only this session has spoken to its
  server. `OnTheWire` and `OneAnswer` say what may be on a kept
  connection: of the request that waits one answer, unless it was answered twice, and of
  earlier ones only what such an answer has moved up, which is what `Taken` says of the
  answers taken; `SentAtMost` bounds how often a request is sent.
  `CallsAreKnown` and `Undisturbed` say what an abandoned call can do to a later execution.
* Campaign file. `Tops`: what the layers come to is, for every key, what the last layer
  that means something by it says, and a key that any layer wrote is in the set of those
  written. `FillKeeps`: no default replaces what was said or written, one lemma for all
  defaults. `Resolved` is both together with validation. Of the build, `HeldIsClosed`: what
  is held has a closer from the moment it is held, `RegionsAreHeld` that the regions of
  the feedbacks are there from the choice of the executor on (`RegionsGrow`: none is given
  back by a later acquisition), and `TierIsHonoured` what each position after that choice
  knows of it.
* Plugin. `Balance` counts: a plugin was told all decisions but the one still owed, and
  `Owed` says where that one is.
* Browser and driver. What a reply channel holds is of its own call (`ConnInv`); who runs
  at each position of a sequence (`RunsAlone`, `PagesAreOwn`).

A note on induction. Some operators walk through a sequence (`loadCorpus`, `trim`, the
traces that are kept, Distill). They are recursive functions on an interval of the
naturals, and what is proved of them is that they are functions of their type and what
their last value satisfies (`StepsExist`, `StepsTyped` in `WorkerProofs`); the sum over a
finite set and the states along a session are two of them too (`SumsExist` and `Walk` in
`DaemonProofs`). The induction is over a
set of positions or of sizes (`Ascending`), from the well-foundedness of the naturals;
nothing is assumed.

Assumptions on the constants, each evaluated by TLC in the runs of its module:

* `BusAssumption`, `SupervisorAssumption`, `CampaignAssumption`, `DaemonAssumption`,
  `ExecAssumption`, `WorkerAssumption`: bounds are numbers, capacities positive (the
  configuration rejects others), markers such as "nobody" are no members.
* `NoEventAssumption`: the marker for "no event" is not an event.
* `StorageAssumption`: there are finitely many digests.
* `FileAssumption`: the campaigns and layers that are tried are campaigns of the model and
  layers of its keys.
* `MetricsAssumption`: there are finitely many workers, the intervals of the history are
  positive, a level has room for a point, bounds are numbers.
* `GuidanceAssumption`: a target answers every message in every state it can be in, with one
  of its labels; the label of a session that has not begun is none of them; the trace store
  has room for one.
* `GuardAssumption`: bounds and markers. `SettlementsCorrect` has `NamesAreApart` besides,
  as a hypothesis in the theorem, because the code does not ensure it (`GuardNames`).
* `InputAssumption`: there are finitely many inputs, each run reaches a finite and
  non-empty set of counters, and removing bytes makes an input smaller.

Only model-checked:

* liveness: `Flows`, `StopReturns`, `StoppingFinishes`, `ShutdownReturns`,
  `StopIsAnswered`, `Spreads`, `PoolIsReclaimed`, `SpawnedComesBack`, `CloseReturns`,
  `StopEnds`. The prover knows no fairness.
* `SessionsAreUsable`, `TreesAreTrue`. They are about what an algorithm
  computes (`Capture`, `Learner`, `Fixup`, `Arena`), and the runs go through all inputs of
  a bounded shape.
* `TerminalIsSound`, whose parser and screen are arithmetic on rows and columns in some
  forty cases.

## 5. Plan

The modules are written, and the safety properties of the concurrent parts are proved.
What is left, in this order:

1. `TerminalIsSound`, of grids with at least two columns.
2. `FinishIsClean` for more than one start, once the code answers the question of the
   disagreement at `campaign.go:483`.

## 6. Not modelled

* codecs, schemas, generators and mutators of concrete formats, and the file
  formats of captures and campaigns: parsers and printers, all data and no
  control. Mutation is in `Fixup` and `Arena` as far as it changes trees.
* tracer, binary analysis and the C runtime: encodings of machine code and the
  behaviour of ptrace.
* accessibility bus and platform layer: interfaces of the operating system. What
  the drivers and the spawner assume of them is in `UiDriver` and `Spawner`.
* schema migrations: SQL run in order within transactions of SQLite.
* random numbers: the properties of interest are statistical, and every random
  choice in the models is nondeterministic.
* the HTTP layer, client, console, command line and web page: translation between
  requests and the calls that are modelled, apart from the event stream and the
  requests on campaigns.
* comparison logging, the solver stage and the corpus schedulers of the engine:
  they choose or derive inputs, and the models let any input be chosen.
