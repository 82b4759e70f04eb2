------------------------------- MODULE Recorder ------------------------------
(***************************************************************************)
(* internal/record: the recording proxy.  An accept loop, a goroutine per  *)
(* client connection, and Close, which must get all of them to end.        *)
(*                                                                         *)
(* A client may stop reading or sending at any point and keep its side     *)
(* open.  A server answers, is refused by the scope, or says nothing until *)
(* the timeout of the request.  Requests are numbered; what is told apart  *)
(* is which of them a client saw answered and which the capture holds.     *)
(***************************************************************************)
EXTENDS Naturals

CONSTANTS
    RcConns,      \* client connections
    RcRequests    \* requests in all

VARIABLES
    rcCA,         \* an authority is configured: HTTPS is intercepted
    rcListening,  \* the listener is open
    rcServe,      \* the accept loop: accept, a connection to track, or "ended"
    rcAt,         \* connection -> where its goroutine is
    rcOpen,       \* connections whose socket is open
    rcTracked,    \* Proxy.conns
    rcClosed,     \* Proxy.closed
    rcClose,      \* where Close is
    rcAsked,      \* requests read so far
    rcNow,        \* connection -> the request it is serving
    rcAnswered,   \* requests whose client has seen the server's answer
    rcExchanges,  \* Proxy.exchanges
    rcTunnelled   \* Proxy.tunnelled: the connections counted

rcVars == <<rcCA, rcListening, rcServe, rcAt, rcOpen, rcTracked, rcClosed, rcClose, rcAsked,
            rcNow, rcAnswered, rcExchanges, rcTunnelled>>

\* Listen, with or without an authority.
Init ==
    /\ rcCA \in BOOLEAN
    /\ rcListening = TRUE /\ rcServe = "accept"
    /\ rcAt = [c \in RcConns |-> "new"] /\ rcOpen = {} /\ rcTracked = {}
    /\ rcClosed = FALSE /\ rcClose = "no"
    /\ rcAsked = 0 /\ rcNow = [c \in RcConns |-> 0]
    /\ rcAnswered = {} /\ rcExchanges = {} /\ rcTunnelled = {}

loopVars == <<rcListening, rcServe>>
closeVars == <<rcClosed, rcClose>>
bookVars == <<rcAsked, rcNow, rcAnswered, rcExchanges, rcTunnelled>>

Goto(c, where) == rcAt' = [rcAt EXCEPT ![c] = where]

\* The deferred calls of a connection's goroutine.
leaves(c) == Goto(c, "ended") /\ rcOpen' = rcOpen \ {c} /\ rcTracked' = rcTracked \ {c}

-----------------------------------------------------------------------------
(* serve. *)

\* Accept returns a connection, or an error once the listener is closed.
serve(c) ==
    /\ rcServe = "accept"
    /\ \/ /\ rcListening /\ rcAt[c] = "new"
          /\ rcServe' = "track" /\ Goto(c, "accepted") /\ rcOpen' = rcOpen \cup {c}
       \/ ~rcListening /\ rcServe' = "ended" /\ UNCHANGED <<rcAt, rcOpen>>
    /\ UNCHANGED <<rcCA, rcListening, rcTracked, closeVars, bookVars>>

\* Mistake: a connection accepted while Close runs is tracked all the same.
trackLate(c) ==
    /\ rcServe = "track" /\ rcAt[c] = "accepted"
    /\ Goto(c, "read") /\ rcTracked' = rcTracked \cup {c} /\ rcServe' = "accept"
    /\ UNCHANGED <<rcCA, rcListening, rcOpen, closeVars, bookVars>>

\* A connection that Close has not seen is refused, and the loop ends.
track(c) ==
    /\ rcServe = "track" /\ rcAt[c] = "accepted"
    /\ IF rcClosed
       THEN /\ Goto(c, "ended") /\ rcOpen' = rcOpen \ {c} /\ rcServe' = "ended"
            /\ UNCHANGED rcTracked
       ELSE /\ Goto(c, "read") /\ rcTracked' = rcTracked \cup {c} /\ rcServe' = "accept"
            /\ UNCHANGED rcOpen
    /\ UNCHANGED <<rcCA, rcListening, closeVars, bookVars>>

-----------------------------------------------------------------------------
(* handle, forward, connect. *)

\* A request arrives: the client's choice, and never after the socket is closed.
handle(c) ==
    /\ rcAt[c] \in {"read", "inner"} /\ c \in rcOpen /\ rcAsked < RcRequests
    /\ rcAsked' = rcAsked + 1 /\ rcNow' = [rcNow EXCEPT ![c] = rcAsked + 1]
    /\ \/ Goto(c, IF rcAt[c] = "read" THEN "forward" ELSE "innerforward")
       \/ rcAt[c] = "read" /\ Goto(c, IF rcCA THEN "intercept" ELSE "dial")
    /\ UNCHANGED <<rcCA, loopVars, rcOpen, rcTracked, closeVars, rcAnswered, rcExchanges,
                   rcTunnelled>>

\* The next request cannot be read: the client left, or Close took the socket.
readFails(c) ==
    /\ rcAt[c] \in {"read", "inner"}
    /\ leaves(c)
    /\ UNCHANGED <<rcCA, loopVars, closeVars, bookVars>>

inner(at) == at \in {"innerforward", "innerwrite", "innererror"}

\* Mistake: the answer is passed on before it is recorded.
forwardUnrecorded(c) ==
    /\ rcAt[c] \in {"forward", "innerforward"}
    /\ \/ Goto(c, IF inner(rcAt[c]) THEN "innerwrite" ELSE "write")
       \/ Goto(c, IF inner(rcAt[c]) THEN "innererror" ELSE "error")
    /\ UNCHANGED <<rcCA, loopVars, rcOpen, rcTracked, closeVars, bookVars>>

\* The server answers and the exchange is recorded; or the request is refused,
\* fails, or runs into its timeout.  Close does not shorten this wait.
forward(c) ==
    /\ rcAt[c] \in {"forward", "innerforward"}
    /\ \/ /\ Goto(c, IF inner(rcAt[c]) THEN "innerwrite" ELSE "write")
          /\ rcExchanges' = rcExchanges \cup {rcNow[c]}
       \/ /\ Goto(c, IF inner(rcAt[c]) THEN "innererror" ELSE "error")
          /\ UNCHANGED rcExchanges
    /\ UNCHANGED <<rcCA, loopVars, rcOpen, rcTracked, closeVars, rcAsked, rcNow, rcAnswered,
                   rcTunnelled>>

\* The answer goes to the client if it reads.
write(c) ==
    /\ rcAt[c] \in {"write", "innerwrite", "error", "innererror"} /\ c \in rcOpen
    /\ Goto(c, IF inner(rcAt[c]) THEN "inner" ELSE "read")
    /\ rcAnswered' = IF rcAt[c] \in {"write", "innerwrite"} THEN rcAnswered \cup {rcNow[c]} ELSE rcAnswered
    /\ UNCHANGED <<rcCA, loopVars, rcOpen, rcTracked, closeVars, rcAsked, rcNow, rcExchanges,
                   rcTunnelled>>

\* A write or a handshake to a client that has gone, or whose socket is closed;
\* and the end of a connection once its CONNECT has been refused.
clientFails(c) ==
    /\ rcAt[c] \in {"write", "innerwrite", "error", "innererror", "intercept", "established",
                   "refused"}
    /\ leaves(c)
    /\ UNCHANGED <<rcCA, loopVars, closeVars, bookVars>>

\* Handshake with a certificate of the authority, then requests inside it; or
\* no certificate can be signed.
intercept(c) ==
    /\ rcAt[c] = "intercept" /\ c \in rcOpen
    /\ Goto(c, "inner") \/ Goto(c, "refused")
    /\ UNCHANGED <<rcCA, loopVars, rcOpen, rcTracked, closeVars, bookVars>>

\* tunnel: a dial bounded by the timeout.
dial(c) ==
    /\ rcAt[c] = "dial"
    /\ Goto(c, "established") \/ Goto(c, "refused")
    /\ UNCHANGED <<rcCA, loopVars, rcOpen, rcTracked, closeVars, bookVars>>

\* The client is told, the connection is counted, and bytes are copied.
tunnel(c) ==
    /\ rcAt[c] = "established" /\ c \in rcOpen
    /\ Goto(c, "tunnel")
    /\ rcTunnelled' = rcTunnelled \cup {c}
    /\ UNCHANGED <<rcCA, loopVars, rcOpen, rcTracked, closeVars, rcAsked, rcNow, rcAnswered,
                   rcExchanges>>

\* One direction of the copy ends.
tunnelEnds(c) ==
    /\ rcAt[c] = "tunnel"
    /\ leaves(c)
    /\ UNCHANGED <<rcCA, loopVars, closeVars, bookVars>>

-----------------------------------------------------------------------------
(* Close. *)

Close ==
    /\ rcClose = "no"
    /\ rcClose' = "listener" /\ rcListening' = FALSE
    /\ UNCHANGED <<rcCA, rcServe, rcAt, rcOpen, rcTracked, rcClosed, bookVars>>

\* Mistake: only the listener is closed, and the clients decide when to leave.
closeConnsNot ==
    /\ rcClose = "listener"
    /\ rcClose' = "wait" /\ rcClosed' = TRUE
    /\ UNCHANGED <<rcCA, loopVars, rcAt, rcOpen, rcTracked, bookVars>>

closeConns ==
    /\ rcClose = "listener"
    /\ rcClose' = "wait" /\ rcClosed' = TRUE
    /\ rcOpen' = rcOpen \ rcTracked
    /\ UNCHANGED <<rcCA, loopVars, rcAt, rcTracked, bookVars>>

wait ==
    /\ rcClose = "wait"
    /\ rcServe = "ended" /\ \A c \in RcConns : rcAt[c] \in {"new", "ended"}
    /\ rcClose' = "done"
    /\ UNCHANGED <<rcCA, loopVars, rcAt, rcOpen, rcTracked, rcClosed, bookVars>>

-----------------------------------------------------------------------------
\* A read, a write and a copy on a closed socket return.
unblocked(c) == c \notin rcOpen /\ (readFails(c) \/ clientFails(c) \/ tunnelEnds(c))

Next ==
    \/ \E c \in RcConns :
          \/ serve(c) \/ track(c) \/ handle(c) \/ readFails(c) \/ forward(c) \/ write(c)
          \/ clientFails(c) \/ intercept(c) \/ dial(c) \/ tunnel(c) \/ tunnelEnds(c)
    \/ Close \/ closeConns \/ wait

\* Waits on a server are bounded by Timeout and those on a closed socket end;
\* those on a client with an open socket are not.
Fairness ==
    /\ WF_rcVars(\E c \in RcConns : serve(c)) /\ WF_rcVars(\E c \in RcConns : track(c))
    /\ \A c \in RcConns : WF_rcVars(forward(c) \/ dial(c)) /\ WF_rcVars(unblocked(c))
    /\ WF_rcVars(closeConns \/ wait)

-----------------------------------------------------------------------------
TypeOK ==
    /\ rcServe \in {"accept", "track", "ended"}
    /\ rcOpen \cup rcTracked \subseteq RcConns
    /\ rcExchanges \cup rcAnswered \subseteq 1..rcAsked
    /\ rcAt \in [RcConns -> {"new", "accepted", "read", "forward", "write", "error", "intercept",
                             "inner", "innerforward", "innerwrite", "innererror", "dial",
                             "refused", "established", "tunnel", "ended"}]

(***************************************************************************)
(* The capture holds every exchange a client saw, and every connection it  *)
(* did not look into is counted; after Close nothing is being served that  *)
(* a capture taken then would miss (forward, record, tunnel, Close).       *)
(***************************************************************************)
CaptureIsComplete ==
    /\ rcAnswered \subseteq rcExchanges
    /\ \A c \in RcConns : rcAt[c] = "tunnel" => c \in rcTunnelled
    /\ rcClose = "done" => rcOpen = {} /\ rcTracked = {}

(***************************************************************************)
(* Close returns whatever the clients do: one that holds its connection    *)
(* open and idle, one that does not read its answer, and one accepted in   *)
(* the instant between closing the listener and the rest.                  *)
(***************************************************************************)
CloseReturns == (rcClose = "listener") ~> (rcClose = "done")
=============================================================================
