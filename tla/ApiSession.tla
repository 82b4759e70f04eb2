----------------------------- MODULE ApiSession -----------------------------
(***************************************************************************)
(* pkg/executor/api.go: a session of requests replayed against a service,  *)
(* over one connection or a new one for each request.                      *)
(*                                                                         *)
(* The service may answer, late or never, close a connection it thinks     *)
(* idle while the next request is on its way, or die.  It may also answer  *)
(* one request twice: first with an interim response, or because what was  *)
(* sent for one request is two, which a campaign aims at when it leaves    *)
(* lengths wrong and which a length that was fixed before the credentials  *)
(* went in brings about.  What it sent and the client has not read stays   *)
(* on the connection, unless the reader of an earlier exchange took it.  A *)
(* link carries a value of one response into a later request.              *)
(***************************************************************************)
EXTENDS Naturals, Sequences, FiniteSets

CONSTANTS
    ApRequests,   \* requests of the session
    ApLinks       \* the links: <<from, to>>

VARIABLES
    apKeep,       \* KeepAlive
    apPhase,      \* where Run is
    apNext,       \* the request it is at
    apConn,       \* none, open, or closed by the service
    apReused,     \* the connection has carried an earlier request
    apAsked,      \* requests the service has read on it and not done with
    apIn,         \* whose answers are on it that the client has not read
    apTwice,      \* requests the service has answered twice
    apService,    \* up or down
    apLate,       \* the session's context is done
    apTries,      \* request -> how often it was sent
    apAnswers,    \* whose answer each response was
    apCarried,    \* carried: the responses a value was taken from
    apUsed,       \* request -> the responses whose values it carries
    apFresh,      \* the last failure was on a connection of its own
    apVerdict     \* none, ok, timeout, crash, error

apVars == <<apKeep, apPhase, apNext, apConn, apReused, apAsked, apIn, apTwice, apService, apLate,
            apTries, apAnswers, apCarried, apUsed, apFresh, apVerdict>>

Requests == 1..ApRequests

Init ==
    /\ apKeep \in BOOLEAN
    /\ apPhase = "loop" /\ apNext = 1
    /\ apConn = "none" /\ apReused = FALSE
    /\ apAsked = {} /\ apIn = <<>> /\ apTwice = {}
    /\ apService = "up" /\ apLate = FALSE
    /\ apTries = [r \in Requests |-> 0] /\ apAnswers = <<>>
    /\ apCarried = {} /\ apUsed = [r \in Requests |-> {}]
    /\ apFresh = FALSE /\ apVerdict = "none"

\* What is left of an answer of which a part was read.
Cut == 0

connVars == <<apConn, apAsked, apIn>>
bookVars == <<apAnswers, apCarried>>

finish(verdict) == apPhase' = "done" /\ apVerdict' = verdict

-----------------------------------------------------------------------------
(* The service, and the clock. *)

\* Requests are answered in order, and none more than twice.
reply ==
    /\ apService = "up" /\ apConn = "open"
    /\ \E r \in apAsked :
          /\ \A q \in apAsked : r <= q
          /\ apIn' = Append(apIn, r)
          /\ \/ apAsked' = apAsked \ {r} /\ UNCHANGED apTwice
             \/ r \notin apTwice /\ apTwice' = apTwice \cup {r} /\ UNCHANGED apAsked
    /\ UNCHANGED <<apKeep, apPhase, apNext, apConn, apReused, apService, apLate, apTries, bookVars,
                   apUsed, apFresh, apVerdict>>

\* The connection is closed, also while the next request is being written.
hangup ==
    /\ apConn = "open"
    /\ apConn' = "closed"
    /\ UNCHANGED <<apKeep, apPhase, apNext, apReused, apAsked, apIn, apTwice, apService, apLate, apTries,
                   bookVars, apUsed, apFresh, apVerdict>>

die ==
    /\ apService = "up"
    /\ apService' = "down" /\ apConn' = IF apConn = "open" THEN "closed" ELSE apConn
    /\ UNCHANGED <<apKeep, apPhase, apNext, apReused, apAsked, apIn, apTwice, apLate, apTries, bookVars,
                   apUsed, apFresh, apVerdict>>

expire ==
    /\ ~apLate /\ apPhase # "done"
    /\ apLate' = TRUE
    /\ UNCHANGED <<apKeep, apPhase, apNext, connVars, apTwice, apReused, apService, apTries, bookVars,
                   apUsed, apFresh, apVerdict>>

-----------------------------------------------------------------------------
(* Run. *)

\* The values this request is linked to, from the responses seen so far.
prepare ==
    /\ apPhase = "loop" /\ apNext <= ApRequests /\ ~apLate
    /\ apUsed' = [apUsed EXCEPT ![apNext] = {f \in apCarried : <<f, apNext>> \in ApLinks}]
    /\ apPhase' = IF apConn = "none" \/ ~apKeep THEN "connect" ELSE "write"
    /\ apReused' = ~(apConn = "none" \/ ~apKeep)
    /\ UNCHANGED <<apKeep, apNext, connVars, apTwice, apService, apLate, apTries, bookVars, apFresh, apVerdict>>

\* A service that cannot be reached is the harness failing.
connect ==
    /\ apPhase \in {"connect", "reconnect"}
    /\ \/ /\ apService = "up" /\ ~apLate
          /\ apConn' = "open" /\ apAsked' = {} /\ apIn' = <<>> /\ apReused' = FALSE
          /\ apPhase' = "write"
          /\ UNCHANGED apVerdict
       \/ /\ apService = "down" \/ apLate
          /\ apConn' = "none" /\ apAsked' = {} /\ apIn' = <<>> /\ UNCHANGED apReused
          /\ finish("error")
    /\ UNCHANGED <<apKeep, apNext, apTwice, apService, apLate, apTries, bookVars, apUsed, apFresh>>

\* A write succeeds also on a connection the service has closed.
exchange ==
    /\ apPhase = "write"
    /\ apTries' = [apTries EXCEPT ![apNext] = @ + 1]
    /\ apAsked' = IF apConn = "open" THEN apAsked \cup {apNext} ELSE apAsked
    /\ apPhase' = "read"
    /\ UNCHANGED <<apKeep, apNext, apConn, apReused, apIn, apTwice, apService, apLate, bookVars, apUsed,
                   apFresh, apVerdict>>

\* What an exchange leaves on the connection.  Its reader may have taken more than the answer,
\* a part of the next one even, and a body that the deadline cut is taken for the whole.
leftOf(in) ==
    LET rests == {SubSeq(in, k, Len(in)) : k \in 2 .. Len(in) + 1}
    IN  rests \cup {<<Cut>> \o rest : rest \in rests}

\* observe, carry: the answer is taken for the request that is waiting.  A
\* connection is kept unless the service says otherwise.
answered ==
    /\ apPhase = "read" /\ apIn # <<>> /\ Head(apIn) # Cut
    /\ apAnswers' = Append(apAnswers, Head(apIn))
    /\ \/ apCarried' = apCarried \cup {apNext}
       \/ UNCHANGED apCarried
    /\ \/ /\ apKeep
          /\ apIn' \in leftOf(apIn) /\ UNCHANGED <<apConn, apAsked>>
       \/ apConn' = "none" /\ apIn' = <<>> /\ apAsked' = {}
    /\ apNext' = apNext + 1 /\ apPhase' = "loop"
    /\ UNCHANGED <<apKeep, apReused, apTwice, apService, apLate, apTries, apUsed, apFresh, apVerdict>>

Unread == apIn # <<>> => Head(apIn) = Cut

\* Mistake: every failure counts, also that of an idle connection.
failedAnyway ==
    /\ apPhase = "read" /\ Unread
    /\ apFresh' = ~apReused
    /\ apConn' = "none" /\ apAsked' = {} /\ apIn' = <<>>
    /\ finish("crash")
    /\ UNCHANGED <<apKeep, apNext, apReused, apTwice, apService, apLate, apTries, bookVars, apUsed>>

\* No answer: the connection ended, a deadline passed, or what was left cannot be read.  On one that had been
\* used before, the request is sent once more on a fresh one; otherwise this is
\* the end of the session.
failed ==
    /\ apPhase = "read" /\ Unread
    /\ apFresh' = ~apReused
    /\ apConn' = "none" /\ apAsked' = {} /\ apIn' = <<>>
    /\ IF apReused THEN apPhase' = "reconnect" /\ UNCHANGED apVerdict
       ELSE finish("crash")
    /\ UNCHANGED <<apKeep, apNext, apReused, apTwice, apService, apLate, apTries, bookVars, apUsed>>

\* All requests sent, or the time up between two of them.
end ==
    /\ apPhase = "loop" /\ (apNext > ApRequests \/ apLate)
    /\ finish(IF apLate THEN "timeout" ELSE "ok")
    /\ apConn' = "none" /\ apAsked' = {} /\ apIn' = <<>>
    /\ UNCHANGED <<apKeep, apNext, apReused, apTwice, apService, apLate, apTries, bookVars, apUsed, apFresh>>

Next == reply \/ hangup \/ die \/ expire
        \/ prepare \/ connect \/ exchange \/ answered \/ failed \/ end

-----------------------------------------------------------------------------
TypeOK ==
    /\ apPhase \in {"loop", "connect", "reconnect", "write", "read", "done"}
    /\ apNext \in 1..ApRequests + 1
    /\ apConn \in {"none", "open", "closed"}
    /\ apAsked \cup apTwice \subseteq Requests /\ apIn \in Seq(Requests \cup {Cut})
    /\ apVerdict \in {"none", "ok", "timeout", "crash", "error"}

(***************************************************************************)
(* A session is judged on what the service did to it (Run, exchange).  A   *)
(* response is recorded, and its values carried on, for the request it     *)
(* answers, whatever failed or came late before, unless the service has    *)
(* answered an earlier request of the same connection twice, and is then   *)
(* that of an earlier request; a crash is one that a fresh connection met, *)
(* never the race with an idle one that closes; and a request reaches the  *)
(* service a second time only in its stead.                                *)
(***************************************************************************)
SessionIsOwn ==
    /\ \A i \in 1..Len(apAnswers) :
          \/ apAnswers[i] = i
          \/ apKeep /\ apAnswers[i] < i /\ \E t \in apTwice : t <= apAnswers[i]
    /\ apVerdict = "crash" => apFresh
    /\ \A r \in Requests : apTries[r] <= IF apKeep /\ r > 1 THEN 2 ELSE 1
    /\ \A r \in Requests : apUsed[r] \subseteq 1..r - 1
    /\ apVerdict \in {"ok", "timeout"} => Len(apAnswers) = apNext - 1
    /\ apVerdict = "ok" => apNext = ApRequests + 1

\* api.go, Link: "From is the request whose response produces the value".  The code does not
\* keep it: the answer that was left over is taken for that of the next request.
ResponsesAreOwn == \A i \in 1..Len(apAnswers) : apAnswers[i] = i
=============================================================================
