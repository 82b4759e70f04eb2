--------------------------------- MODULE Cdp --------------------------------
(***************************************************************************)
(* internal/cdp, and webSession.stop of internal/driver/web.go: commands   *)
(* to a browser and their replies over one WebSocket, with a single reader *)
(* and a lock that every writer takes.                                     *)
(*                                                                         *)
(* A write blocks while the browser does not read, and nothing but the end *)
(* of the browser interrupts it: Call waits on its context only for the    *)
(* reply.  The browser may stop reading, end, close the connection, split  *)
(* a message into fragments, or send one that is too long.                 *)
(***************************************************************************)
EXTENDS Naturals, Sequences, FiniteSets

CONSTANTS
    CdCalls,      \* commands, each from a goroutine of its own
    CdInbox,      \* frames on their way to the client
    CdPings,      \* pings the browser may send
    CdNobody      \* the write lock is free

VARIABLES
    cdCall,       \* call -> where it is
    cdAnswer,     \* call -> what it returned
    cdPending,    \* Conn.pending
    cdChan,       \* call -> what its channel holds
    cdLock,       \* wsConn.wmu
    cdAsked,      \* commands the browser has read and not answered
    cdIn,         \* frames the client has not read
    cdMsg,        \* ReadMessage: the fragments so far
    cdReader,     \* the goroutine of Conn.read
    cdClosed,     \* Conn.closed
    cdSocket,     \* the client's end is open
    cdBrowser,    \* reading, stuck or dead
    cdStop,       \* where webSession.stop is
    cdPinged      \* pings sent

cdVars == <<cdCall, cdAnswer, cdPending, cdChan, cdLock, cdAsked, cdIn, cdMsg, cdReader,
            cdClosed, cdSocket, cdBrowser, cdStop, cdPinged>>

NoReply == "none"
Waiting == {c \in CdCalls : cdCall[c] = "waiting"}

Init ==
    /\ cdCall = [c \in CdCalls |-> "new"]
    /\ cdAnswer = [c \in CdCalls |-> NoReply]
    /\ cdPending = {}
    /\ cdChan = [c \in CdCalls |-> NoReply]
    /\ cdLock = CdNobody
    /\ cdAsked = {}
    /\ cdIn = <<>>
    /\ cdMsg = <<>>
    /\ cdReader = "read"
    /\ cdClosed = FALSE
    /\ cdSocket = TRUE
    /\ cdBrowser = "reading"
    /\ cdStop = "no"
    /\ cdPinged = 0

callVars == <<cdCall, cdAnswer, cdPending, cdChan>>
wireVars == <<cdAsked, cdIn, cdBrowser, cdPinged>>
readVars == <<cdMsg, cdReader>>

\* What a write meets: writeFrame succeeds, fails, or is still blocked.
Writable == cdSocket /\ cdBrowser = "reading"
Broken == ~cdSocket \/ cdBrowser = "dead"

-----------------------------------------------------------------------------
(* Call. *)

Returns(c, what) ==
    /\ cdCall' = [cdCall EXCEPT ![c] = "returned"]
    /\ cdAnswer' = [cdAnswer EXCEPT ![c] = what]

\* The command is registered, or refused on a closed connection.
Call(c) ==
    /\ cdCall[c] = "new"
    /\ \/ cdClosed /\ Returns(c, "error") /\ UNCHANGED cdPending
       \/ /\ ~cdClosed
          /\ cdCall' = [cdCall EXCEPT ![c] = "lock"]
          /\ cdPending' = cdPending \cup {c}
          /\ UNCHANGED cdAnswer
    /\ UNCHANGED <<cdChan, cdLock, wireVars, readVars, cdClosed, cdSocket, cdStop>>

WriteText(c) ==
    /\ cdCall[c] = "lock" /\ cdLock = CdNobody
    /\ cdLock' = c
    /\ cdCall' = [cdCall EXCEPT ![c] = "writing"]
    /\ UNCHANGED <<cdAnswer, cdPending, cdChan, wireVars, readVars, cdClosed, cdSocket, cdStop>>

forget(c) == cdPending' = cdPending \ {c}

writeFrame(c) ==
    /\ cdCall[c] = "writing"
    /\ cdLock' = CdNobody
    /\ \/ /\ Writable
          /\ cdAsked' = cdAsked \cup {c}
          /\ cdCall' = [cdCall EXCEPT ![c] = "waiting"]
          /\ UNCHANGED <<cdAnswer, cdPending>>
       \/ /\ Broken
          /\ forget(c) /\ Returns(c, "error")
          /\ UNCHANGED cdAsked
    /\ UNCHANGED <<cdChan, cdIn, cdBrowser, cdPinged, readVars, cdClosed, cdSocket, cdStop>>

receive(c) ==
    /\ cdCall[c] = "waiting" /\ cdChan[c] # NoReply
    /\ Returns(c, IF cdChan[c] = "closed" THEN "error" ELSE cdChan[c])
    /\ UNCHANGED <<cdPending, cdChan, cdLock, wireVars, readVars, cdClosed, cdSocket, cdStop>>

\* The context of the call is done; its reply, when it comes, is for nobody.
callTimeout(c) ==
    /\ cdCall[c] = "waiting"
    /\ forget(c) /\ Returns(c, "timeout")
    /\ UNCHANGED <<cdChan, cdLock, wireVars, readVars, cdClosed, cdSocket, cdStop>>

-----------------------------------------------------------------------------
(* The browser. *)

Frame(op, fin, of) == [op |-> op, fin |-> fin, of |-> of]
Send(frames) == Len(cdIn) + Len(frames) <= CdInbox /\ cdIn' = cdIn \o frames

browser ==
    /\ cdBrowser # "dead"
    /\ \/ \E c \in cdAsked :
             /\ \/ Send(<<Frame("text", TRUE, c)>>)
                \/ Send(<<Frame("text", FALSE, c), Frame("ping", TRUE, c),
                          Frame("continuation", TRUE, c)>>)
                \/ Send(<<Frame("oversized", TRUE, c)>>)
             /\ cdAsked' = cdAsked \ {c}
             /\ UNCHANGED <<cdBrowser, cdPinged>>
       \/ \E op \in {"event", "ping", "close"} :
             /\ cdPinged < CdPings /\ cdPinged' = cdPinged + 1
             /\ Send(<<Frame(op, TRUE, op)>>)
             /\ UNCHANGED <<cdAsked, cdBrowser>>
       \/ cdBrowser' = "stuck" /\ UNCHANGED <<cdAsked, cdIn, cdPinged>>
       \/ cdBrowser' = "dead" /\ UNCHANGED <<cdAsked, cdIn, cdPinged>>
    /\ UNCHANGED <<callVars, cdLock, readVars, cdClosed, cdSocket, cdStop>>

\* Mistake: stop does not cancel the context, and the process lives until Kill.
browserKilledLate ==
    /\ cdStop = "kill" /\ cdBrowser # "dead"
    /\ cdBrowser' = "dead"
    /\ UNCHANGED <<callVars, cdLock, cdAsked, cdIn, cdPinged, readVars, cdClosed, cdSocket, cdStop>>

\* The process is gone once its context is cancelled (Spawner.Start).
browserKilled ==
    /\ cdStop \notin {"no", "begin"} /\ cdBrowser # "dead"
    /\ cdBrowser' = "dead"
    /\ UNCHANGED <<callVars, cdLock, cdAsked, cdIn, cdPinged, readVars, cdClosed, cdSocket, cdStop>>

-----------------------------------------------------------------------------
(* The reader. *)

\* Every command that waits learns that no reply will come.
fail ==
    /\ cdChan' = [c \in CdCalls |-> IF c \in cdPending THEN "closed" ELSE cdChan[c]]
    /\ cdPending' = {}
    /\ cdClosed' = TRUE
    /\ cdReader' = "ended"

\* Mistake: replies are taken to arrive in the order of the commands.
dispatchInOrder(of) ==
    LET first == IF cdPending = {} THEN {} ELSE {CHOOSE c \in cdPending : TRUE}
    IN  /\ cdChan' = [c \in CdCalls |-> IF c \in first THEN of ELSE cdChan[c]]
        /\ cdPending' = cdPending \ first

\* A reply is handed to the command whose identifier it carries, if it is
\* still known; the channel has room for it.
dispatch(of) ==
    /\ cdChan' = [c \in CdCalls |-> IF c = of /\ c \in cdPending THEN of ELSE cdChan[c]]
    /\ cdPending' = cdPending \ {of}

\* ReadMessage and Conn.read, a frame at a time.
readFrame ==
    /\ cdReader = "read"
    /\ cdSocket /\ cdIn # <<>>
    /\ cdIn' = Tail(cdIn)
    /\ LET f == Head(cdIn) IN
       CASE f.op = "ping" ->
              cdReader' = "pong" /\ UNCHANGED <<cdMsg, cdPending, cdChan, cdClosed>>
         [] f.op \in {"close", "oversized"} -> fail /\ UNCHANGED cdMsg
         [] f.op = "event" /\ f.fin -> UNCHANGED <<cdMsg, cdReader, cdPending, cdChan, cdClosed>>
         [] f.op \in {"text", "continuation"} ->
              /\ cdMsg' = IF f.fin THEN <<>>
                          ELSE IF f.op = "text" THEN <<f.of>> ELSE Append(cdMsg, f.of)
              /\ IF f.fin THEN dispatch(f.of) ELSE UNCHANGED <<cdPending, cdChan>>
              /\ UNCHANGED <<cdReader, cdClosed>>
    /\ UNCHANGED <<cdCall, cdAnswer, cdLock, cdAsked, cdBrowser, cdPinged, cdSocket, cdStop>>

readFails ==
    /\ cdReader = "read"
    /\ ~cdSocket \/ (cdBrowser = "dead" /\ cdIn = <<>>)
    /\ fail
    /\ UNCHANGED <<cdCall, cdAnswer, cdLock, wireVars, cdMsg, cdSocket, cdStop>>

\* A ping is answered by the reader itself, under the lock of the writers.
pongLock ==
    /\ cdReader = "pong" /\ cdLock = CdNobody
    /\ cdLock' = "reader" /\ cdReader' = "ponging"
    /\ UNCHANGED <<callVars, wireVars, cdMsg, cdClosed, cdSocket, cdStop>>

pong ==
    /\ cdReader = "ponging"
    /\ cdLock' = CdNobody
    /\ \/ Writable /\ cdReader' = "read" /\ UNCHANGED <<cdChan, cdPending, cdClosed>>
       \/ Broken /\ fail
    /\ UNCHANGED <<cdCall, cdAnswer, wireVars, cdMsg, cdSocket, cdStop>>

-----------------------------------------------------------------------------
(* webSession.stop: cancel the process's context, Conn.Close, Kill. *)

stop ==
    /\ cdStop = "no"
    /\ cdStop' = "begin"
    /\ UNCHANGED <<callVars, cdLock, wireVars, readVars, cdClosed, cdSocket>>

stopCancel ==
    /\ cdStop = "begin"
    /\ cdStop' = "close"
    /\ UNCHANGED <<callVars, cdLock, wireVars, readVars, cdClosed, cdSocket>>

\* A connection that has failed already is left as it is.
connClose ==
    /\ cdStop = "close"
    /\ cdClosed' = TRUE
    /\ cdStop' = IF cdClosed THEN "kill" ELSE "lock"
    /\ UNCHANGED <<callVars, cdLock, wireVars, readVars, cdSocket>>

wsCloseLock ==
    /\ cdStop = "lock" /\ cdLock = CdNobody
    /\ cdLock' = "closer" /\ cdStop' = "closing"
    /\ UNCHANGED <<callVars, wireVars, readVars, cdClosed, cdSocket>>

\* The closing frame is written, or cannot be; then the socket is closed.
wsClose ==
    /\ cdStop = "closing"
    /\ Writable \/ Broken
    /\ cdLock' = CdNobody
    /\ cdSocket' = FALSE
    /\ cdStop' = "kill"
    /\ UNCHANGED <<callVars, wireVars, readVars, cdClosed>>

stopKill ==
    /\ cdStop = "kill" /\ cdBrowser = "dead"
    /\ cdStop' = "done"
    /\ UNCHANGED <<callVars, cdLock, wireVars, readVars, cdClosed, cdSocket>>

stopStep == stopCancel \/ connClose \/ wsCloseLock \/ wsClose \/ stopKill

reading == readFrame \/ readFails \/ pongLock \/ pong

calling(c) == Call(c) \/ WriteText(c) \/ writeFrame(c) \/ receive(c)

Next ==
    \/ \E c \in CdCalls : calling(c) \/ callTimeout(c)
    \/ browser \/ browserKilled
    \/ reading
    \/ stop \/ stopStep

Fairness ==
    /\ \A c \in CdCalls : SF_cdVars(WriteText(c)) /\ WF_cdVars(writeFrame(c) \/ receive(c))
    /\ WF_cdVars(reading) /\ SF_cdVars(pongLock)
    /\ WF_cdVars(stopStep) /\ SF_cdVars(wsCloseLock)
    /\ WF_cdVars(browserKilled)

-----------------------------------------------------------------------------
TypeOK ==
    /\ cdCall \in [CdCalls -> {"new", "lock", "writing", "waiting", "returned"}]
    /\ cdAnswer \in [CdCalls -> CdCalls \cup {NoReply, "error", "timeout"}]
    /\ cdPending \subseteq CdCalls
    /\ cdChan \in [CdCalls -> CdCalls \cup {NoReply, "closed"}]
    /\ cdLock \in CdCalls \cup {CdNobody, "reader", "closer"}
    /\ cdReader \in {"read", "pong", "ponging", "ended"}
    /\ cdBrowser \in {"reading", "stuck", "dead"}

(***************************************************************************)
(* A command gets the reply to itself or an error, whatever timed out      *)
(* before it, and one registered while the connection failed is not left   *)
(* waiting on a channel nobody will use (Call, read, fail).                *)
(***************************************************************************)
ReplyIsOwn ==
    /\ \A c \in CdCalls : cdAnswer[c] \in {c, NoReply, "error", "timeout"}
    /\ cdReader = "ended" => \A c \in Waiting : cdChan[c] # NoReply

(***************************************************************************)
(* Stopping a browser ends whatever it is doing: stop returns and every    *)
(* command that was under way comes back, also when the browser had        *)
(* stopped reading and a writer held the lock stop needs.                  *)
(***************************************************************************)
StopEnds ==
    (cdStop = "begin") ~>
        (cdStop = "done" /\ cdReader = "ended" /\ \A c \in CdCalls : cdCall[c] \in {"new", "returned"})
=============================================================================
