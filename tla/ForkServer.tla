---------------------------- MODULE ForkServer ------------------------------
(***************************************************************************)
(* The T2 executor, pkg/executor/forkserver.go: one server process, asked  *)
(* over a control pipe to fork a child per input and answering over a      *)
(* status pipe.  The input reaches the child through a file whose offset   *)
(* the server's standard input shares, and what the child says on standard *)
(* error is collected from a second file.                                  *)
(*                                                                         *)
(* Executions are numbered.  A file's content, a reply and a line of       *)
(* output are the number of the execution they belong to.                  *)
(***************************************************************************)
EXTENDS Naturals, Sequences, FiniteSets

CONSTANTS
    FsExecs,     \* executions the worker asks for
    FsServers    \* bound on the servers started

VARIABLES
    fsHandle,    \* e.handle: the server in use, 0 for nil
    fsLive,      \* the server processes that exist
    fsStarted,   \* servers started so far, e.restarts included
    fsControl,   \* commands in the control pipe of the server in use
    fsStatus,    \* replies in its status pipe
    fsChild,     \* the child the server waits for, or NoChild
    fsInput,     \* the input file: what it holds, and the shared offset
    fsStderr,    \* the stderr file: the executions whose output is in it
    fsDirty,     \* e.stderrDirty
    fsNow,       \* the execution being run
    fsPhase,     \* where the executor's caller is
    fsVerdict    \* what Run returned for fsNow

fsVars == <<fsHandle, fsLive, fsStarted, fsControl, fsStatus, fsChild, fsInput, fsStderr,
            fsDirty, fsNow, fsPhase, fsVerdict>>

NoChild == [of |-> 0, read |-> 0]

NoVerdict == [kind |-> "none", of |-> 0, output |-> {}]

Kinds == {"ok", "crash", "timeout"}

\* exitKindOfWaitStatus and the timer signal: what a wait status means.
Statuses == {"exited", "signalled", "stopped", "alarm"}

exitKindOfWaitStatus(status) ==
    CASE status = "alarm" -> "timeout"
      [] status = "signalled" -> "crash"
      [] OTHER -> "ok"

Init ==
    /\ fsHandle = 0
    /\ fsLive = {}
    /\ fsStarted = 0
    /\ fsControl = <<>>
    /\ fsStatus = <<>>
    /\ fsChild = NoChild
    /\ fsInput = [holds |-> 0, offset |-> 0]
    /\ fsStderr = {}
    /\ fsDirty = FALSE
    /\ fsNow = 0
    /\ fsPhase = "idle"
    /\ fsVerdict = NoVerdict

-----------------------------------------------------------------------------
(* The process side. *)

\* handle.Kill ends the process group, the child included, and its pipes.
killed(h) == fsLive \ {h}

\* The server forks: the child reads the input file from the shared offset to its end, so
\* that what it reads is the file's content only if somebody rewound it.
Fork ==
    /\ fsHandle \in fsLive
    /\ fsControl # <<>>
    /\ fsChild = NoChild
    /\ fsChild' = [of |-> fsNow, read |-> IF fsInput.offset = 0 THEN fsInput.holds ELSE 0]
    /\ fsInput' = [fsInput EXCEPT !.offset = 1]
    /\ fsControl' = Tail(fsControl)
    /\ UNCHANGED <<fsHandle, fsLive, fsStarted, fsStatus, fsStderr, fsDirty, fsNow, fsPhase,
                   fsVerdict>>

\* The child says something on its standard error, opened O_APPEND.
Say ==
    /\ fsChild # NoChild
    /\ fsChild.of \notin fsStderr
    /\ fsStderr' = fsStderr \cup {fsChild.of}
    /\ UNCHANGED <<fsHandle, fsLive, fsStarted, fsControl, fsStatus, fsChild, fsInput,
                   fsDirty, fsNow, fsPhase, fsVerdict>>

\* The child ends, by itself or by its timer, and the server writes pid and status at once.
Reply ==
    /\ fsChild # NoChild
    /\ \E s \in Statuses : fsStatus' = Append(fsStatus, [of |-> fsChild.of, read |-> fsChild.read, status |-> s])
    /\ fsChild' = NoChild
    /\ UNCHANGED <<fsHandle, fsLive, fsStarted, fsControl, fsInput, fsStderr, fsDirty, fsNow,
                   fsPhase, fsVerdict>>

\* The server itself dies: the out-of-memory killer, or a target that kills its parent.
ServerDies ==
    /\ fsHandle \in fsLive
    /\ fsLive' = killed(fsHandle)
    /\ fsChild' = NoChild
    /\ UNCHANGED <<fsHandle, fsStarted, fsControl, fsStatus, fsInput, fsStderr, fsDirty,
                   fsNow, fsPhase, fsVerdict>>

-----------------------------------------------------------------------------
(* The executor. *)

\* Run, its first line: an execution begins, and a server is started when there is none.
Run ==
    /\ fsPhase = "idle"
    /\ fsNow < FsExecs
    /\ fsNow' = fsNow + 1
    /\ fsVerdict' = NoVerdict
    /\ fsPhase' = IF fsHandle = 0 THEN "start" ELSE "prepare"
    /\ UNCHANGED <<fsHandle, fsLive, fsStarted, fsControl, fsStatus, fsChild, fsInput,
                   fsStderr, fsDirty>>

\* Start, up to the handshake: ensureInputFile and ensureStderrFile create the files the
\* first time, then the process is spawned with new pipes.
Spawn ==
    /\ fsPhase = "start"
    /\ fsStarted < FsServers
    /\ fsStarted' = fsStarted + 1
    /\ fsLive' = fsLive \cup {fsStarted + 1}
    /\ fsControl' = <<>>
    /\ fsStatus' = <<>>
    /\ fsPhase' = "handshake"
    /\ UNCHANGED <<fsHandle, fsChild, fsInput, fsStderr, fsDirty, fsNow, fsVerdict>>

\* Mistake: Start returns the handshake's error and leaves the process.
HandshakeLeaks ==
    /\ fsPhase = "handshake"
    /\ \/ fsHandle' = fsStarted /\ fsPhase' = "prepare"
       \/ fsPhase' = "failed" /\ UNCHANGED fsHandle
    /\ UNCHANGED <<fsLive, fsStarted, fsControl, fsStatus, fsChild, fsInput, fsStderr, fsDirty,
                   fsNow, fsVerdict>>

\* Start, the rest: the right word becomes the handle; silence past the deadline, an end of
\* file or another word kills the process and fails the execution, which ends the worker.
Handshake ==
    /\ fsPhase = "handshake"
    /\ \/ /\ fsHandle' = fsStarted
          /\ fsPhase' = "prepare"
          /\ UNCHANGED fsLive
       \/ /\ fsLive' = killed(fsStarted)
          /\ fsPhase' = "failed"
          /\ UNCHANGED fsHandle
    /\ UNCHANGED <<fsStarted, fsControl, fsStatus, fsChild, fsInput, fsStderr, fsDirty, fsNow,
                   fsVerdict>>

\* writeInput truncates, writes and rewinds.
writeInput == fsInput' = [holds |-> fsNow, offset |-> 0]

\* resetStderr truncates only when the last execution's output was seen.
resetStderr ==
    /\ fsStderr' = IF fsDirty THEN {} ELSE fsStderr
    /\ fsDirty' = FALSE

Prepare ==
    /\ fsPhase = "prepare"
    /\ writeInput
    /\ resetStderr
    /\ fsPhase' = "send"
    /\ UNCHANGED <<fsHandle, fsLive, fsStarted, fsControl, fsStatus, fsChild, fsNow, fsVerdict>>

\* Mistake: The server survives a timeout: the late reply is read for the next input.
serverDiedKeepsIt == UNCHANGED <<fsLive, fsChild, fsHandle>>

\* serverDied kills the server and forgets the handle, so that the next Run starts another.
serverDied ==
    /\ fsLive' = killed(fsHandle)
    /\ fsChild' = NoChild
    /\ fsHandle' = 0

\* cycle, the write: a server that is gone fails the execution.
cycleSend ==
    /\ fsPhase = "send"
    /\ \/ /\ fsHandle \in fsLive
          /\ fsControl' = Append(fsControl, fsNow)
          /\ fsPhase' = "wait"
          /\ UNCHANGED <<fsLive, fsChild, fsHandle>>
       \/ /\ fsHandle \notin fsLive
          /\ serverDied
          /\ fsPhase' = "failed"
          /\ UNCHANGED fsControl
    /\ UNCHANGED <<fsStarted, fsStatus, fsInput, fsStderr, fsDirty, fsNow, fsVerdict>>

\* readStderr: what the file holds, and the mark that it has to be cleared.
readStderr(kind, of) ==
    /\ fsVerdict' = [kind |-> kind, of |-> of, output |-> fsStderr]
    /\ fsDirty' = (fsStderr # {})

\* cycle, the read: the reply is the verdict.
cycleReply ==
    /\ fsPhase = "wait"
    /\ fsStatus # <<>>
    /\ readStderr(exitKindOfWaitStatus(Head(fsStatus).status), Head(fsStatus).read)
    /\ fsStatus' = Tail(fsStatus)
    /\ fsPhase' = "idle"
    /\ UNCHANGED <<fsHandle, fsLive, fsStarted, fsControl, fsChild, fsInput, fsStderr, fsNow>>

\* cycle, the backstop: no reply by the deadline.  A timeout that lost the server is still a
\* timeout, of the input that was being run.
cycleBackstop ==
    /\ fsPhase = "wait"
    /\ fsHandle \in fsLive
    /\ serverDied
    /\ readStderr("timeout", fsNow)
    /\ fsPhase' = "idle"
    /\ UNCHANGED <<fsStarted, fsControl, fsStatus, fsInput, fsStderr, fsNow>>

\* cycle, the end of file: the execution fails and with it the worker.
cycleLost ==
    /\ fsPhase = "wait"
    /\ fsStatus = <<>>
    /\ fsHandle \notin fsLive
    /\ serverDied
    /\ fsPhase' = "failed"
    /\ UNCHANGED <<fsStarted, fsControl, fsStatus, fsInput, fsStderr, fsDirty, fsNow, fsVerdict>>

\* Reset under the restart policy, between two executions.
Reset ==
    /\ fsPhase = "idle"
    /\ fsHandle # 0
    /\ serverDied
    /\ UNCHANGED <<fsStarted, fsControl, fsStatus, fsInput, fsStderr, fsDirty, fsNow, fsPhase,
                   fsVerdict>>

\* Close, when the worker ends in good order or after a failure.
Close ==
    /\ fsPhase \in {"idle", "failed"}
    /\ serverDied
    /\ fsPhase' = "closed"
    /\ UNCHANGED <<fsStarted, fsControl, fsStatus, fsInput, fsStderr, fsDirty, fsNow, fsVerdict>>

Next ==
    \/ Fork \/ Say \/ Reply \/ ServerDies
    \/ Run \/ Spawn \/ Handshake \/ Prepare
    \/ cycleSend \/ cycleReply \/ cycleBackstop \/ cycleLost
    \/ Reset \/ Close

-----------------------------------------------------------------------------
TypeOK ==
    /\ fsHandle \in 0 .. FsServers
    /\ fsLive \subseteq 1 .. FsServers
    /\ fsStderr \subseteq 1 .. FsExecs
    /\ fsDirty \in BOOLEAN
    /\ fsVerdict.kind \in Kinds \cup {"none"}
    /\ fsPhase \in {"idle", "start", "handshake", "prepare", "send", "wait", "failed", "closed"}

\* cycle and readStderr: the verdict of an execution is the exit of a child that read this
\* execution's input from its beginning, and the output recorded with it is that child's.
VerdictIsOwn ==
    fsVerdict.kind # "none" => fsVerdict.of = fsNow /\ fsVerdict.output \subseteq {fsNow}

\* Start, serverDied and Close: a server process is the one in use or the one whose
\* handshake is awaited; every path that drops a handle has killed what it stood for.
ServerIsOwned == fsLive \subseteq {fsHandle, IF fsPhase = "handshake" THEN fsStarted ELSE 0}

=============================================================================
