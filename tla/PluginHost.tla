----------------------------- MODULE PluginHost -----------------------------
(***************************************************************************)
(* pkg/plugin: the host's side (host.go, extensions.go, mutator.go) and    *)
(* the plugin's side (serve.go) of the extension protocol.  A judgement of *)
(* a feedback extension is settled later, when the engine has decided to   *)
(* keep the input or not; the settlement rides on the next call to the     *)
(* same extension, or is flushed by Close.                                 *)
(***************************************************************************)
EXTENDS Naturals, Sequences, FiniteSets, SequencesExt

CONSTANTS
    PlFeedbacks,  \* names of the feedbacks the plugin provides
    PlOthers,     \* names of its objectives and mutators
    PlJudgements  \* bound on the judgements of one feedback

VARIABLES
    plFailed,     \* h.failed is set, and the plugin was killed
    plPending,    \* h.pending: name -> the settlement that is owed, or "none"
    plId,         \* h.next
    plRequest,    \* the request in flight, or NoRequest
    plReply,      \* the reply in the pipe, or NoReply
    plPhase,      \* where the engine is: idle, calling, undecided, ending, closed
    plFor,        \* the feedback being judged, "closing" for flush, or "none"
    plDecided,    \* feedback -> what the engine decided, judgement by judgement
    plCommits,    \* feedback -> what the plugin was told
    plJudged,     \* feedback -> judgements the plugin made
    plUnsettled,  \* some judgement was made before the one before it was settled
    plAlive       \* the plugin process runs

plVars == <<plFailed, plPending, plId, plRequest, plReply, plPhase, plFor, plDecided,
            plCommits, plJudged, plUnsettled, plAlive>>

PlNames == PlFeedbacks \cup PlOthers

\* Nothing in the code sees to it that no objective or mutator has a feedback's name.
NamesAreApart == PlFeedbacks \cap PlOthers = {}
NoRequest == [op |-> "none"]
NoReply == [id |-> 0, error |-> FALSE]

Init ==
    /\ plFailed = FALSE
    /\ plPending = [n \in PlNames |-> "none"]
    /\ plId = 0
    /\ plRequest = NoRequest
    /\ plReply = NoReply
    /\ plPhase = "idle"
    /\ plFor = "none"
    /\ plDecided = [f \in PlFeedbacks |-> <<>>]
    /\ plCommits = [f \in PlFeedbacks |-> <<>>]
    /\ plJudged = [f \in PlFeedbacks |-> 0]
    /\ plUnsettled = FALSE
    /\ plAlive = TRUE

-----------------------------------------------------------------------------
(* The host. *)

\* exchange, the send: the next id, and the settlement the caller folded in.
exchange(op, name, keep) ==
    /\ plId' = plId + 1
    /\ plRequest' = [op |-> op, name |-> name, keep |-> keep, id |-> plId + 1]

\* Mistake: the settlement is sent and stays owed.
callRepeats(op, name) == exchange(op, name, plPending[name]) /\ UNCHANGED plPending

\* call: what is owed to this name goes along and is no longer owed.
call(op, name) ==
    /\ exchange(op, name, plPending[name])
    /\ plPending' = [plPending EXCEPT ![name] = "none"]

\* Feedback.IsInteresting: one observation is judged.
Judge(f) ==
    /\ plPhase = "idle"
    /\ ~plFailed
    /\ plJudged[f] < PlJudgements
    /\ call("judge", f)
    /\ plFor' = f
    /\ plPhase' = "calling"
    /\ UNCHANGED <<plFailed, plReply, plDecided, plCommits, plJudged, plUnsettled, plAlive>>

\* Objective.IsFinding and Mutator.refill: a call that settles nothing.
CallOther(n) ==
    /\ plPhase = "idle"
    /\ ~plFailed
    /\ plId < 3 * PlJudgements
    /\ call("other", n)
    /\ plFor' = "none"
    /\ plPhase' = "calling"
    /\ UNCHANGED <<plFailed, plReply, plDecided, plCommits, plJudged, plUnsettled, plAlive>>

\* fail: the first failure kills the plugin and stays.
fail ==
    /\ plFailed' = TRUE
    /\ plAlive' = FALSE

\* exchange, the receive: an answer, a plugin's complaint, which ends the worker and from a
\* mutator fails the plugin as well, a wrong number, an end of file.
Receive ==
    /\ plPhase = "calling"
    /\ \/ /\ plReply.id = plId
          /\ plPhase' = IF plReply.error \/ plFor = "closing" THEN "ending"
                        ELSE IF plFor \in PlFeedbacks THEN "undecided" ELSE "idle"
          /\ \/ UNCHANGED <<plFailed, plAlive>>
             \/ plReply.error /\ plRequest.op = "other" /\ fail
       \/ /\ plReply.id \notin {0, plId} \/ (plReply.id = 0 /\ ~plAlive)
          /\ fail
          /\ plPhase' = "ending"
    /\ plReply' = NoReply
    /\ plRequest' = NoRequest
    /\ UNCHANGED <<plPending, plId, plFor, plDecided, plCommits, plJudged, plUnsettled>>

\* exchange, the timer: it also ends a call that was about to return.
Timeout ==
    /\ plPhase = "calling"
    /\ ~plFailed
    /\ fail
    /\ UNCHANGED <<plPending, plId, plRequest, plReply, plPhase, plFor, plDecided, plCommits,
                   plJudged, plUnsettled>>

\* Append and Discard: the decision is remembered, not sent; a failed plugin is owed nothing.
settle(keep) ==
    /\ plPhase = "undecided"
    /\ plDecided' = [plDecided EXCEPT ![plFor] = Append(@, keep)]
    /\ plPending' = IF plFailed THEN plPending ELSE [plPending EXCEPT ![plFor] = keep]
    /\ plPhase' = "idle"
    /\ UNCHANGED <<plFailed, plId, plRequest, plReply, plFor, plCommits, plJudged, plUnsettled,
                   plAlive>>

\* Close, with flush: what is owed is sent, name by name, before the farewell and the kill.
Close ==
    /\ plPhase \in {"idle", "ending"}
    /\ IF \/ plFailed
          \/ \A n \in PlNames : plPending[n] = "none"
       THEN /\ plPhase' = "closed"
            /\ plAlive' = FALSE
            /\ UNCHANGED <<plPending, plId, plRequest, plFor>>
       ELSE /\ \E n \in PlNames : plPending[n] # "none" /\ call("commit", n)
            /\ plFor' = "closing"
            /\ plPhase' = "calling"
            /\ UNCHANGED plAlive
    /\ UNCHANGED <<plFailed, plReply, plDecided, plCommits, plJudged, plUnsettled>>

-----------------------------------------------------------------------------
(* The plugin. *)

\* Plugin.settle: a commit that rode along on a judgement or came alone.
pluginSettle ==
    LET r == plRequest
    IN plCommits' = IF r.op \in {"judge", "commit"} /\ r.keep # "none" /\ r.name \in PlFeedbacks
                    THEN [plCommits EXCEPT ![r.name] = Append(@, r.keep)]
                    ELSE plCommits

\* ServeOn and handle: settle, then answer, with a verdict or with a complaint.
Serve ==
    /\ plAlive
    /\ plRequest # NoRequest
    /\ plReply = NoReply
    /\ pluginSettle
    /\ \E error \in IF plRequest.op = "commit" THEN {FALSE} ELSE BOOLEAN :
          /\ plReply' = [id |-> plRequest.id, error |-> error]
          /\ plJudged' = IF plRequest.op = "judge" /\ ~error
                         THEN [plJudged EXCEPT ![plRequest.name] = @ + 1]
                         ELSE plJudged
    /\ plUnsettled' = \/ plUnsettled
                      \/ /\ plRequest.op = "judge"
                         /\ Len(plCommits'[plRequest.name]) < plJudged[plRequest.name]
    /\ UNCHANGED <<plFailed, plPending, plId, plRequest, plPhase, plFor, plDecided, plAlive>>

\* The plugin dies, or answers something else.
Misbehave ==
    /\ plAlive
    /\ plRequest # NoRequest
    /\ plReply = NoReply
    /\ \/ plAlive' = FALSE /\ UNCHANGED plReply
       \/ plReply' = [id |-> plRequest.id + 1, error |-> FALSE] /\ UNCHANGED plAlive
    /\ UNCHANGED <<plFailed, plPending, plId, plRequest, plPhase, plFor, plDecided, plCommits,
                   plJudged, plUnsettled>>

Next ==
    \/ \E f \in PlFeedbacks : Judge(f)
    \/ \E n \in PlOthers : CallOther(n)
    \/ Receive \/ Timeout \/ Close \/ Serve \/ Misbehave
    \/ \E keep \in {"keep", "drop"} : settle(keep)

-----------------------------------------------------------------------------
TypeOK ==
    /\ plPending \in [PlNames -> {"none", "keep", "drop"}]
    /\ plPhase \in {"idle", "calling", "undecided", "ending", "closed"}
    /\ plJudged \in [PlFeedbacks -> 0 .. PlJudgements]

\* protocol.go, Keep: settling the last judgement with the next call "loses nothing".  A plugin
\* is told the engine's decisions in their order, each before it judges again, and by a Close
\* of a plugin that did not fail all of them.
SettlementArrives ==
    /\ \A f \in PlFeedbacks : IsPrefix(plCommits[f], plDecided[f])
    /\ ~plUnsettled
    /\ plPhase = "closed" /\ ~plFailed => plCommits = plDecided
=============================================================================
