----------------------------- MODULE ProcPool -------------------------------
(***************************************************************************)
(* The T3 executor, pkg/executor/procpool.go, over the peer processes of   *)
(* internal/safety/peer.go.  Processes are spawned before their input      *)
(* exists and wait on their standard input; taking one starts the          *)
(* asynchronous creation of a replacement.                                 *)
(*                                                                         *)
(* A process may leave descendants behind that hold its pipes open.  A     *)
(* pipe end held by nobody else reports its end to the other side.         *)
(***************************************************************************)
EXTENDS Naturals, Sequences, FiniteSets, SequencesExt

CONSTANTS
    PoolSize,    \* e.Size: the processes kept warm
    PoolExecs,   \* executions the worker asks for
    PoolPids     \* bound on the processes spawned

VARIABLES
    ppWarm,      \* e.warm, a stack
    ppClosed,    \* e.closed
    ppLife,      \* e.life has not been cancelled
    ppRefills,   \* refill goroutines that have not spawned yet
    ppInHand,    \* processes a refill has spawned and not put away
    ppProc,      \* state of every process: none, alive, exited or killed
    ppKin,       \* the pipes a descendant of the process holds open
    ppClosedEnds,\* processes whose pipes Kill has closed on this side
    ppUnder,     \* the execution whose context the process was spawned under, 0: e.life
    ppUsed,      \* how many inputs each process was given
    ppPhase,     \* where the worker is in Run
    ppPeer,      \* the process of this execution
    ppExec       \* executions begun

ppVars == <<ppWarm, ppClosed, ppLife, ppRefills, ppInHand, ppProc, ppKin, ppClosedEnds,
            ppUnder, ppUsed, ppPhase, ppPeer, ppExec>>

Pids == 1 .. PoolPids
Pipes == {"stdin", "stdout", "stderr"}

Init ==
    /\ ppWarm = <<>>
    /\ ppClosed = FALSE
    /\ ppLife = TRUE
    /\ ppRefills = 0
    /\ ppInHand = {}
    /\ ppProc = [p \in Pids |-> "none"]
    /\ ppKin = [p \in Pids |-> {}]
    /\ ppClosedEnds = {}
    /\ ppUnder = [p \in Pids |-> 0]
    /\ ppUsed = [p \in Pids |-> 0]
    /\ ppPhase = "start"
    /\ ppPeer = 0
    /\ ppExec = 0

-----------------------------------------------------------------------------
(* Processes. *)

Unborn == {p \in Pids : ppProc[p] = "none"}

\* Mistake: The replacement is spawned against the context of the execution that asked for it.
lifetimeOfExecution == ppExec

\* The context a new process is tied to: the pool's lifetime, never the execution's.
lifetime == 0

\* spawn: StartPeer creates the process and the goroutine that kills it when its context ends.
spawn(p) ==
    /\ p \in Unborn
    /\ \A q \in Unborn : p <= q
    /\ ppProc' = [ppProc EXCEPT ![p] = "alive"]
    /\ ppUnder' = [ppUnder EXCEPT ![p] = lifetime]

Dead(p) == ppProc[p] \in {"exited", "killed"}

\* handle.Wait: the leader is gone, and so is whoever held the standard error that os/exec copies.
Waitable(p) == Dead(p) /\ "stderr" \notin ppKin[p]

\* The reader of standard output has its end of file, or Kill closed the pipe under it.
Drained(p) == (Dead(p) /\ "stdout" \notin ppKin[p]) \/ p \in ppClosedEnds

\* The writer of the input is through: it was read, nobody is left to read it, or Kill closed it.
Written(p) == (Dead(p) /\ "stdin" \notin ppKin[p]) \/ p \in ppClosedEnds

\* A process that was given an input ends, or leaves behind descendants that keep some pipes.
Exit(p) ==
    /\ ppProc[p] = "alive"
    /\ ppUsed[p] > 0
    /\ ppProc' = [ppProc EXCEPT ![p] = "exited"]
    /\ \E held \in SUBSET Pipes : ppKin' = [ppKin EXCEPT ![p] = held]
    /\ UNCHANGED <<ppWarm, ppClosed, ppLife, ppRefills, ppInHand, ppClosedEnds, ppUnder,
                   ppUsed, ppPhase, ppPeer, ppExec>>

\* The descendants of a process end.
KinExit(p) ==
    /\ ppKin[p] # {}
    /\ ppKin' = [ppKin EXCEPT ![p] = {}]
    /\ UNCHANGED <<ppWarm, ppClosed, ppLife, ppRefills, ppInHand, ppProc, ppClosedEnds,
                   ppUnder, ppUsed, ppPhase, ppPeer, ppExec>>

\* Mistake: Kill closes the pipes and leaves the process to notice.
KillMisses(ps) == UNCHANGED ppProc /\ ppClosedEnds' = ppClosedEnds \cup ps

\* Peer.Kill on a set of processes: the group dies unless it was reaped before, and this side
\* closes its ends of the pipes.
Kill(ps) ==
    /\ ppProc' = [p \in Pids |-> IF p \in ps /\ ppProc[p] = "alive" THEN "killed" ELSE ppProc[p]]
    /\ ppClosedEnds' = ppClosedEnds \cup ps

\* The watcher StartPeer leaves: the context of the process has ended.  Run's own context ends
\* with the execution.
ContextEnds(p) ==
    /\ ppProc[p] = "alive"
    /\ IF ppUnder[p] = 0 THEN ~ppLife ELSE ppUnder[p] < ppExec \/ ppPhase = "idle"
    /\ Kill({p})
    /\ UNCHANGED <<ppWarm, ppClosed, ppLife, ppRefills, ppInHand, ppKin, ppUnder, ppUsed,
                   ppPhase, ppPeer, ppExec>>

-----------------------------------------------------------------------------
(* The executor. *)

\* Start fills the pool one process at a time; a spawn that fails closes it.
Start ==
    /\ ppPhase = "start"
    /\ \/ /\ Len(ppWarm) < PoolSize
          /\ \E p \in Pids : spawn(p) /\ ppWarm' = Append(ppWarm, p)
          /\ UNCHANGED ppPhase
       \/ /\ Len(ppWarm) = PoolSize
          /\ ppPhase' = "idle"
          /\ UNCHANGED <<ppWarm, ppProc, ppUnder>>
    /\ UNCHANGED <<ppClosed, ppLife, ppRefills, ppInHand, ppKin, ppClosedEnds, ppUsed, ppPeer,
                   ppExec>>

\* take: the youngest warm process, or one spawned here and now when the pool is dry.
take(p) ==
    \/ /\ ppWarm # <<>>
       /\ p = Last(ppWarm)
       /\ ppWarm' = Front(ppWarm)
       /\ UNCHANGED <<ppProc, ppUnder>>
    \/ /\ ppWarm = <<>>
       /\ spawn(p)
       /\ UNCHANGED ppWarm

\* Run, up to deliver: a process is taken, a replacement is asked for, the input goes out.
Run ==
    /\ ppPhase = "idle"
    /\ ~ppClosed
    /\ ppExec < PoolExecs
    /\ \E p \in Pids :
          /\ take(p)
          /\ ppPeer' = p
          /\ ppUsed' = [ppUsed EXCEPT ![p] = @ + 1]
    /\ ppRefills' = ppRefills + 1
    /\ ppExec' = ppExec + 1
    /\ ppPhase' = "waiting"
    /\ UNCHANGED <<ppClosed, ppLife, ppInHand, ppKin, ppClosedEnds>>

\* refill, the goroutine: the process is created ...
refillSpawn ==
    /\ ppRefills > 0
    /\ ppRefills' = ppRefills - 1
    /\ \/ \E p \in Pids : spawn(p) /\ ppInHand' = ppInHand \cup {p}
       \/ UNCHANGED <<ppProc, ppUnder, ppInHand>>
    /\ UNCHANGED <<ppWarm, ppClosed, ppLife, ppKin, ppClosedEnds, ppUsed, ppPhase, ppPeer,
                   ppExec>>

\* ... and put away, unless the pool was closed meanwhile.
refill(p) ==
    /\ p \in ppInHand
    /\ ppInHand' = ppInHand \ {p}
    /\ IF ppClosed
       THEN Kill({p}) /\ UNCHANGED ppWarm
       ELSE ppWarm' = Append(ppWarm, p) /\ UNCHANGED <<ppProc, ppClosedEnds>>
    /\ UNCHANGED <<ppClosed, ppLife, ppRefills, ppKin, ppUnder, ppUsed, ppPhase, ppPeer, ppExec>>

\* deliver, the select: the process was waited for ...
deliverWaited ==
    /\ ppPhase = "waiting"
    /\ Waitable(ppPeer)
    /\ ppPhase' = "draining"
    /\ UNCHANGED <<ppWarm, ppClosed, ppLife, ppRefills, ppInHand, ppProc, ppKin, ppClosedEnds,
                   ppUnder, ppUsed, ppPeer, ppExec>>

\* ... or the timer fired: Kill, reapWithin, and the result is a hang ...
deliverTimeout ==
    /\ ppPhase = "waiting"
    /\ Kill({ppPeer})
    /\ ppPhase' = "draining"
    /\ UNCHANGED <<ppWarm, ppClosed, ppLife, ppRefills, ppInHand, ppKin, ppUnder, ppUsed,
                   ppPeer, ppExec>>

\* ... and in both cases the output and the write are waited for without a bound.
deliverReturns ==
    /\ ppPhase = "draining"
    /\ Drained(ppPeer)
    /\ Written(ppPeer)
    /\ ppPhase' = "idle"
    /\ ppPeer' = 0
    /\ UNCHANGED <<ppWarm, ppClosed, ppLife, ppRefills, ppInHand, ppProc, ppKin, ppClosedEnds,
                   ppUnder, ppUsed, ppExec>>

\* deliver, the campaign's context: Kill, and no result.
deliverCancelled ==
    /\ ppPhase = "waiting"
    /\ Kill({ppPeer})
    /\ ppPhase' = "idle"
    /\ ppPeer' = 0
    /\ UNCHANGED <<ppWarm, ppClosed, ppLife, ppRefills, ppInHand, ppKin, ppUnder, ppUsed, ppExec>>

\* Close, also the end of a Start that failed: no more refills, the lifetime ends, what is
\* warm is killed.
Close ==
    /\ ppPhase \in {"start", "idle"}
    /\ ~ppClosed
    /\ ppClosed' = TRUE
    /\ ppLife' = FALSE
    /\ Kill(Range(ppWarm))
    /\ ppWarm' = <<>>
    /\ ppPhase' = "idle"
    /\ UNCHANGED <<ppRefills, ppInHand, ppKin, ppUnder, ppUsed, ppPeer, ppExec>>

Next ==
    \/ Start \/ Run \/ refillSpawn \/ Close
    \/ deliverWaited \/ deliverTimeout \/ deliverReturns \/ deliverCancelled
    \/ \E p \in Pids : Exit(p) \/ KinExit(p) \/ ContextEnds(p) \/ refill(p)

\* Timers fire, goroutines run and watchers wake up; a target owes nobody anything.
Fairness ==
    /\ WF_ppVars(deliverTimeout)
    /\ WF_ppVars(deliverReturns)
    /\ WF_ppVars(refillSpawn)
    /\ \A p \in Pids : WF_ppVars(refill(p)) /\ WF_ppVars(ContextEnds(p))

-----------------------------------------------------------------------------
TypeOK ==
    /\ ppWarm \in Seq(Pids)
    /\ ppProc \in [Pids -> {"none", "alive", "exited", "killed"}]
    /\ ppKin \in [Pids -> SUBSET Pipes]
    /\ ppPhase \in {"start", "idle", "waiting", "draining"}
    /\ ppRefills \in 0 .. PoolExecs

\* procpool.go, life: a warm process outlives the execution that asked for it.  What the pool
\* holds for a later input is alive and has seen no input.
WarmIsUsable ==
    ~ppClosed => \A p \in Range(ppWarm) : ppProc[p] = "alive" /\ ppUsed[p] = 0

\* Close against the refills still under way: no process of a closed pool stays alive.
PoolIsReclaimed == ppClosed ~> \A p \in Pids : ppProc[p] # "alive"

\* procpool.go, Size: "Size is how many processes are kept warm."
PoolKeepsItsSize == Len(ppWarm) <= PoolSize

\* procpool.go, deliver: it "waits for the process - for no longer than the spec's timeout",
\* so that an execution always comes back to the worker.
DeliverReturns == ppPhase = "waiting" ~> ppPhase = "idle"

=============================================================================
