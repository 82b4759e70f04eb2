------------------------------ MODULE Spawner -------------------------------
(***************************************************************************)
(* internal/safety/spawn.go: the one place that creates processes.  Run    *)
(* executes a program once under a timeout; Start hands out a handle for   *)
(* whose end several goroutines wait and compete.                          *)
(*                                                                         *)
(* A process is its leader, the members of its process group, and the      *)
(* descendants that left the group.  os/exec's Wait returns when the       *)
(* leader is dead and nobody holds the captured output open.               *)
(***************************************************************************)
EXTENDS Naturals, FiniteSets

CONSTANTS
    SpParties    \* goroutines that wait for or kill a handle

VARIABLES
    spMode,      \* "run" or "start"
    spLeader,    \* the leader: none, alive, exited, crashed or killed
    spEscaped,   \* a descendant outside the group holds the output
    spWaited,    \* cmd.Wait has returned
    spCancelled, \* the caller's context is done
    spRun,       \* where Run is
    spResult,    \* what Run returned
    spExited,    \* the handle's exited channel is closed
    spKilled,    \* the handle's killed flag
    spParty      \* where each party is

spVars == <<spMode, spLeader, spEscaped, spWaited, spCancelled, spRun, spResult, spExited,
            spKilled, spParty>>

NoResult == [kind |-> "none", output |-> FALSE]

Gone == spLeader \in {"exited", "crashed", "killed"}

Init ==
    /\ spMode \in {"run", "start"}
    /\ spLeader = "none"
    /\ spEscaped = FALSE
    /\ spWaited = FALSE
    /\ spCancelled = FALSE
    /\ spRun = "begin"
    /\ spResult = NoResult
    /\ spExited = FALSE
    /\ spKilled = FALSE
    /\ spParty = [p \in SpParties |-> "idle"]

-----------------------------------------------------------------------------
(* The process and its caller's context. *)

\* The target ends by itself, or starts a session of its own on the way.
Target ==
    /\ spLeader = "alive"
    /\ \/ spLeader' \in {"exited", "crashed"} /\ UNCHANGED spEscaped
       \/ ~spEscaped /\ spEscaped' = TRUE /\ UNCHANGED spLeader
    /\ UNCHANGED <<spMode, spWaited, spCancelled, spRun, spResult, spExited, spKilled, spParty>>

\* The escaped descendant ends, if it ever does.
EscapedEnds ==
    /\ spEscaped
    /\ spEscaped' = FALSE
    /\ UNCHANGED <<spMode, spLeader, spWaited, spCancelled, spRun, spResult, spExited,
                   spKilled, spParty>>

Cancel ==
    /\ ~spCancelled
    /\ spCancelled' = TRUE
    /\ UNCHANGED <<spMode, spLeader, spEscaped, spWaited, spRun, spResult, spExited, spKilled,
                   spParty>>

\* cmd.Wait, on its own goroutine.
Waits ==
    /\ Gone /\ ~spEscaped
    /\ ~spWaited
    /\ spWaited' = TRUE
    /\ UNCHANGED <<spMode, spLeader, spEscaped, spCancelled, spRun, spResult, spExited,
                   spKilled, spParty>>

\* platform.KillGroup: the group, and not who left it.
KillGroup == spLeader' = IF spLeader = "alive" THEN "killed" ELSE spLeader

-----------------------------------------------------------------------------
(* Run: once, with a timeout. *)

\* Run, up to Start: a spec that cannot be built or started is an error and no process.
Begin ==
    /\ spMode = "run"
    /\ spRun = "begin"
    /\ \/ /\ spLeader' = "alive"
          /\ spRun' = "select"
          /\ UNCHANGED spResult
       \/ /\ spResult' = [kind |-> "error", output |-> FALSE]
          /\ spRun' = "returned"
          /\ UNCHANGED spLeader
    /\ UNCHANGED <<spMode, spEscaped, spWaited, spCancelled, spExited, spKilled, spParty>>

\* ProcResult.ExitKind and fillStatus: what the leader's end means.
exitKind == IF spLeader \in {"crashed", "killed"} THEN "crash" ELSE "ok"

\* The process ended first: status and output are final.
RunDone ==
    /\ spRun = "select"
    /\ spWaited
    /\ spResult' = [kind |-> exitKind, output |-> TRUE]
    /\ spRun' = "returned"
    /\ UNCHANGED <<spMode, spLeader, spEscaped, spWaited, spCancelled, spExited, spKilled,
                   spParty>>

\* The timer or the context came first: terminate signals the group politely and then kills it.
terminate ==
    /\ spRun = "select"
    /\ \/ spRun' = "reapTimeout"
       \/ spCancelled /\ spRun' = "reapCancelled"
    /\ KillGroup
    /\ UNCHANGED <<spMode, spEscaped, spWaited, spCancelled, spResult, spExited, spKilled,
                   spParty>>

\* Mistake: wait for the reaping of what was killed, however long that takes.
reapForever ==
    /\ spRun \in {"reapTimeout", "reapCancelled"}
    /\ spWaited
    /\ spResult' = [kind |-> IF spRun = "reapTimeout" THEN "timeout" ELSE "error",
                    output |-> spWaited /\ spRun = "reapTimeout"]
    /\ spRun' = "returned"
    /\ UNCHANGED <<spMode, spLeader, spEscaped, spWaited, spCancelled, spExited, spKilled,
                   spParty>>

\* reap: until it was waited for, or ReapTimeout has passed.  Output is read only from a
\* process that was waited for, and the kill's signal is not a crash.
reap ==
    /\ spRun \in {"reapTimeout", "reapCancelled"}
    /\ spResult' = [kind |-> IF spRun = "reapTimeout" THEN "timeout" ELSE "error",
                    output |-> spWaited /\ spRun = "reapTimeout"]
    /\ spRun' = "returned"
    /\ UNCHANGED <<spMode, spLeader, spEscaped, spWaited, spCancelled, spExited, spKilled,
                   spParty>>

-----------------------------------------------------------------------------
(* Start: a handle with many waiters. *)

Start ==
    /\ spMode = "start"
    /\ spRun = "begin"
    /\ \/ spLeader' = "alive" /\ spRun' = "handle"
       \/ spRun' = "returned" /\ UNCHANGED spLeader
    /\ UNCHANGED <<spMode, spEscaped, spWaited, spCancelled, spResult, spExited, spKilled,
                   spParty>>

\* handle.reap publishes the exit by closing the channel, for all parties at once.
handleReap ==
    /\ spMode = "start"
    /\ spWaited
    /\ ~spExited
    /\ spExited' = TRUE
    /\ UNCHANGED <<spMode, spLeader, spEscaped, spWaited, spCancelled, spRun, spResult,
                   spKilled, spParty>>

\* Wait, Kill, and the watcher of the context, each on some party's goroutine.
Enter(p) ==
    /\ spRun = "handle"
    /\ spParty[p] = "idle"
    /\ \E what \in {"wait", "kill"} \cup (IF spCancelled THEN {"kill"} ELSE {}) :
          spParty' = [spParty EXCEPT ![p] = what]
    /\ UNCHANGED <<spMode, spLeader, spEscaped, spWaited, spCancelled, spRun, spResult,
                   spExited, spKilled>>

\* handle.Kill: nothing to do for a reaped process; otherwise the flag and then the group.
Kill(p) ==
    /\ spParty[p] = "kill"
    /\ IF spExited
       THEN /\ spParty' = [spParty EXCEPT ![p] = "done"]
            /\ UNCHANGED <<spKilled, spLeader>>
       ELSE /\ spKilled' = TRUE
            /\ KillGroup
            /\ spParty' = [spParty EXCEPT ![p] = "killing"]
    /\ UNCHANGED <<spMode, spEscaped, spWaited, spCancelled, spRun, spResult, spExited>>

\* Mistake: the exit is a value sent once, and the first to take it leaves none for the others.
exitSeenOnce(p) ==
    /\ spExited
    /\ spParty[p] \in {"wait", "killing"}
    /\ \A q \in SpParties : spParty[q] # "done"
    /\ spParty' = [spParty EXCEPT ![p] = "done"]
    /\ UNCHANGED <<spMode, spLeader, spEscaped, spWaited, spCancelled, spRun, spResult,
                   spExited, spKilled>>

\* A party sees the exit.
exitSeen(p) ==
    /\ spExited
    /\ spParty[p] \in {"wait", "killing"}
    /\ spParty' = [spParty EXCEPT ![p] = "done"]
    /\ UNCHANGED <<spMode, spLeader, spEscaped, spWaited, spCancelled, spRun, spResult,
                   spExited, spKilled>>

\* Kill gives up after ReapTimeout: something escaped its process group.
killGivesUp(p) ==
    /\ spParty[p] = "killing"
    /\ ~spExited
    /\ spParty' = [spParty EXCEPT ![p] = "done"]
    /\ UNCHANGED <<spMode, spLeader, spEscaped, spWaited, spCancelled, spRun, spResult,
                   spExited, spKilled>>

Next ==
    \/ Target \/ EscapedEnds \/ Cancel \/ Waits
    \/ Begin \/ RunDone \/ terminate \/ reap
    \/ Start \/ handleReap
    \/ \E p \in SpParties : Enter(p) \/ Kill(p) \/ exitSeen(p) \/ killGivesUp(p)

\* Timers fire and goroutines run; the target and its descendants promise nothing.
Fairness ==
    /\ WF_spVars(Begin) /\ WF_spVars(Waits) /\ WF_spVars(RunDone)
    /\ WF_spVars(terminate) /\ WF_spVars(reap) /\ WF_spVars(handleReap)
    /\ \A p \in SpParties : WF_spVars(Kill(p)) /\ WF_spVars(exitSeen(p)) /\ WF_spVars(killGivesUp(p))

-----------------------------------------------------------------------------
TypeOK ==
    /\ spLeader \in {"none", "alive", "exited", "crashed", "killed"}
    /\ spRun \in {"begin", "select", "reapTimeout", "reapCancelled", "handle", "returned"}
    /\ spResult.kind \in {"none", "ok", "crash", "timeout", "error"}
    /\ spParty \in [SpParties -> {"idle", "wait", "kill", "killing", "done"}]

\* Run and ReapTimeout: whatever the target does, and whatever survives the kill, Run comes
\* back to the fuzz loop.
RunReturns == spRun = "select" ~> spRun = "returned"

\* handle: a process that was waited for releases every goroutine that waits for its end.
WaitersAreReleased ==
    \A p \in SpParties : (spWaited /\ spParty[p] \in {"wait", "kill"}) ~> spParty[p] = "done"
=============================================================================
