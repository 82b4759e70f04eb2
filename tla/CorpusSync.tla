------------------------------ MODULE CorpusSync ----------------------------
(***************************************************************************)
(* How a discovery of one worker reaches the store and the other workers:  *)
(* flushCorpus and acceptSync of internal/worker/run.go, onCorpus and      *)
(* flushSync of internal/daemon/campaign.go, Broadcast, Send and writeLoop *)
(* of internal/daemon/worker.go.                                           *)
(*                                                                         *)
(* The status pipe of a worker is read by a goroutine of its own (pump),   *)
(* so onCorpus runs concurrently for two workers; its three parts, marking *)
(* under the campaign's lock, saving, queueing under the sync lock, are    *)
(* steps.  A worker may crash at any time; the supervisor restarts it and  *)
(* it loads the corpus the store then holds.  What it had written to its   *)
(* status pipe is still read; its outbox outlives it.                      *)
(***************************************************************************)
EXTENDS Naturals, Sequences, FiniteSets, SequencesExt

CONSTANTS
    Procs,       \* the workers of the campaign
    Found,       \* inputs the workers may discover
    OutboxDepth, \* outboxDepth
    MaxCrashes,  \* bound: worker crashes
    MaxSaveFails \* bound: saves that fail

VARIABLES
    corpus,    \* the corpus of each worker
    reported,  \* the entries a worker does not report (any more)
    upPipe,    \* messages in each status pipe: a sequence of sets of entries
    onPump,    \* what the pump of each worker holds: [at, fresh]
    seen,      \* Campaign.seen
    saved,     \* the entries in the store
    pending,   \* Campaign.pendingSync
    outbox,    \* the command queue of each worker: a sequence of sets of entries
    flushing,  \* what flushSync has taken and not yet broadcast
    missed,    \* history: entries of a sync dropped for each worker
    unsaved,   \* history: entries whose save failed
    bereft,    \* history: entries a worker reported, and crashed before they were saved
    queued,    \* history: how often each entry was queued for the siblings
    crashes, saveFails

syncVars == <<corpus, reported, upPipe, onPump, seen, saved, pending, outbox, flushing,
              missed, unsaved, bereft, queued, crashes, saveFails>>

Reading == [at |-> "read", fresh |-> {}]

Init ==
    /\ corpus = [p \in Procs |-> {}] /\ reported = [p \in Procs |-> {}]
    /\ upPipe = [p \in Procs |-> << >>] /\ onPump = [p \in Procs |-> Reading]
    /\ seen = {} /\ saved = {} /\ unsaved = {}
    /\ pending = [p \in Procs |-> {}] /\ flushing = [p \in Procs |-> {}]
    /\ outbox = [p \in Procs |-> << >>] /\ missed = [p \in Procs |-> {}]
    /\ bereft = [p \in Procs |-> {}]
    /\ queued = [e \in Found |-> 0]
    /\ crashes = 0 /\ saveFails = 0

-----------------------------------------------------------------------------
(* The worker. *)

\* The engine admits an input (module Engine).
discover(p, e) ==
    /\ e \notin corpus[p]
    /\ corpus' = [corpus EXCEPT ![p] = @ \cup {e}]
    /\ UNCHANGED <<reported, upPipe, onPump, seen, saved, pending, outbox, flushing,
                   missed, unsaved, bereft, queued, crashes, saveFails>>

\* flushCorpus: what has not been reported goes to the daemon in one message.
flushCorpus(p) ==
    /\ ~ corpus[p] \subseteq reported[p]
    /\ upPipe' = [upPipe EXCEPT ![p] = Append(@, corpus[p] \ reported[p])]
    /\ reported' = [reported EXCEPT ![p] = @ \cup corpus[p]]
    /\ UNCHANGED <<corpus, onPump, seen, saved, pending, outbox, flushing, missed,
                   unsaved, bereft, queued, crashes, saveFails>>

\* writeLoop passes a command on and the worker's acceptSync marks the entries as
\* reported and loads them.
acceptSync(p) ==
    /\ outbox[p] # << >>
    /\ corpus' = [corpus EXCEPT ![p] = @ \cup Head(outbox[p])]
    /\ reported' = [reported EXCEPT ![p] = @ \cup Head(outbox[p])]
    /\ outbox' = [outbox EXCEPT ![p] = Tail(@)]
    /\ UNCHANGED <<upPipe, onPump, seen, saved, pending, flushing, missed, unsaved, bereft, queued,
                   crashes, saveFails>>

\* Mistake: the successor does not load the store.
crashAfresh(p) ==
    /\ crashes < MaxCrashes
    /\ crashes' = crashes + 1
    /\ corpus' = [corpus EXCEPT ![p] = {}]
    /\ reported' = [reported EXCEPT ![p] = {}]
    /\ bereft' = [bereft EXCEPT ![p] = @ \cup (reported[p] \ saved)]
    /\ \E rest \in {outbox[p]} \cup (IF outbox[p] = << >> THEN {} ELSE {Tail(outbox[p])}) :
           outbox' = [outbox EXCEPT ![p] = rest]
    /\ UNCHANGED <<upPipe, onPump, seen, saved, pending, flushing, missed, unsaved,
                   queued, saveFails>>

\* The process dies with what it had not reported, and perhaps with a command the
\* writer had put into its pipe; its successor loads the store.
crash(p) ==
    /\ crashes < MaxCrashes
    /\ crashes' = crashes + 1
    /\ corpus' = [corpus EXCEPT ![p] = saved]
    /\ reported' = [reported EXCEPT ![p] = saved]
    /\ bereft' = [bereft EXCEPT ![p] = @ \cup (reported[p] \ saved)]
    /\ \E rest \in {outbox[p]} \cup (IF outbox[p] = << >> THEN {} ELSE {Tail(outbox[p])}) :
           outbox' = [outbox EXCEPT ![p] = rest]
    /\ UNCHANGED <<upPipe, onPump, seen, saved, pending, flushing, missed, unsaved,
                   queued, saveFails>>

-----------------------------------------------------------------------------
(* The campaign. *)

\* Mistake in onCorpus: an entry that is looked up is not marked.
onCorpusForgets(p) ==
    /\ onPump[p].at = "read" /\ upPipe[p] # << >>
    /\ onPump' = [onPump EXCEPT ![p] = [at |-> "save", fresh |-> Head(upPipe[p]) \ seen]]
    /\ upPipe' = [upPipe EXCEPT ![p] = Tail(@)]
    /\ UNCHANGED <<corpus, reported, seen, saved, pending, outbox, flushing, missed,
                   unsaved, bereft, queued, crashes, saveFails>>

\* Mistake in onCorpus: an entry that was seen ends the loop instead of one round of it.
onCorpusReturns(p) ==
    /\ onPump[p].at = "read" /\ upPipe[p] # << >>
    /\ LET fresh == IF Head(upPipe[p]) \cap seen = {} THEN Head(upPipe[p]) ELSE {} IN
       /\ onPump' = [onPump EXCEPT ![p] =
              IF fresh = {} THEN Reading ELSE [at |-> "save", fresh |-> fresh]]
       /\ seen' = seen \cup fresh
    /\ upPipe' = [upPipe EXCEPT ![p] = Tail(@)]
    /\ UNCHANGED <<corpus, reported, saved, pending, outbox, flushing, missed, unsaved, bereft,
                   queued, crashes, saveFails>>

\* onCorpus: what no worker has reported before is marked as seen.
onCorpus(p) ==
    /\ onPump[p].at = "read" /\ upPipe[p] # << >>
    /\ LET fresh == Head(upPipe[p]) \ seen IN
       /\ onPump' = [onPump EXCEPT ![p] =
              IF fresh = {} THEN Reading ELSE [at |-> "save", fresh |-> fresh]]
       /\ seen' = seen \cup fresh
    /\ upPipe' = [upPipe EXCEPT ![p] = Tail(@)]
    /\ UNCHANGED <<corpus, reported, saved, pending, outbox, flushing, missed, unsaved, bereft,
                   queued, crashes, saveFails>>

\* SaveTestcases succeeds,
onCorpusSave(p) ==
    /\ onPump[p].at = "save"
    /\ saved' = saved \cup onPump[p].fresh
    /\ onPump' = [onPump EXCEPT ![p].at = "queue"]
    /\ UNCHANGED <<corpus, reported, upPipe, seen, pending, outbox, flushing, missed,
                   unsaved, bereft, queued, crashes, saveFails>>

\* or fails: a warning, and onCorpus returns with the entries still marked.
onCorpusSaveFails(p) ==
    /\ onPump[p].at = "save" /\ saveFails < MaxSaveFails
    /\ saveFails' = saveFails + 1
    /\ unsaved' = unsaved \cup onPump[p].fresh
    /\ onPump' = [onPump EXCEPT ![p] = Reading]
    /\ UNCHANGED <<corpus, reported, upPipe, seen, saved, pending, outbox, flushing, missed,
                   bereft, queued, crashes>>

onCorpusQueue(p) ==
    /\ onPump[p].at = "queue"
    /\ pending' = [pending EXCEPT ![p] = @ \cup onPump[p].fresh]
    /\ queued' = [e \in Found |-> IF e \in onPump[p].fresh THEN queued[e] + 1 ELSE queued[e]]
    /\ onPump' = [onPump EXCEPT ![p] = Reading]
    /\ UNCHANGED <<corpus, reported, upPipe, seen, saved, outbox, flushing, missed, unsaved, bereft,
                   crashes, saveFails>>

\* flushSync takes everything that is pending.
flushSync ==
    /\ \A p \in Procs : flushing[p] = {}
    /\ \E p \in Procs : pending[p] # {}
    /\ flushing' = pending
    /\ pending' = [p \in Procs |-> {}]
    /\ UNCHANGED <<corpus, reported, upPipe, onPump, seen, saved, outbox, missed, unsaved, bereft,
                   queued, crashes, saveFails>>

\* Broadcast to the workers that did not find it; Send drops what does not fit.
broadcast(from) ==
    /\ flushing[from] # {}
    /\ LET fits(p) == Len(outbox[p]) < OutboxDepth IN
       /\ outbox' = [p \in Procs |->
              IF p # from /\ fits(p) THEN Append(outbox[p], flushing[from]) ELSE outbox[p]]
       /\ missed' = [p \in Procs |->
              IF p # from /\ ~fits(p) THEN missed[p] \cup flushing[from] ELSE missed[p]]
    /\ flushing' = [flushing EXCEPT ![from] = {}]
    /\ UNCHANGED <<corpus, reported, upPipe, onPump, seen, saved, pending, unsaved, bereft, queued,
                   crashes, saveFails>>

Next ==
    \/ \E p \in Procs :
        \/ \E e \in Found : discover(p, e)
        \/ flushCorpus(p) \/ acceptSync(p) \/ crash(p)
        \/ onCorpus(p) \/ onCorpusSave(p) \/ onCorpusSaveFails(p) \/ onCorpusQueue(p)
        \/ broadcast(p)
    \/ flushSync

\* The loops of a worker, its pump, its writer and the campaign's ticker go on.
Fairness ==
    /\ WF_syncVars(flushSync)
    /\ \A p \in Procs :
        /\ WF_syncVars(flushCorpus(p)) /\ WF_syncVars(acceptSync(p))
        /\ WF_syncVars(onCorpus(p) \/ onCorpusSave(p) \/ onCorpusSaveFails(p) \/ onCorpusQueue(p))
        /\ WF_syncVars(broadcast(p))

Spec == Init /\ [][Next]_syncVars /\ Fairness

-----------------------------------------------------------------------------
(* Properties. *)

TypeOK ==
    /\ corpus \in [Procs -> SUBSET Found] /\ reported \in [Procs -> SUBSET Found]
    /\ seen \subseteq Found /\ saved \subseteq Found /\ unsaved \subseteq Found
    /\ pending \in [Procs -> SUBSET Found] /\ flushing \in [Procs -> SUBSET Found]
    /\ missed \in [Procs -> SUBSET Found] /\ bereft \in [Procs -> SUBSET Found]
    /\ queued \in [Found -> Nat]
    /\ \A p \in Procs : Len(outbox[p]) <= OutboxDepth

InFlight(e) ==
    \E p \in Procs :
        \/ e \in UNION ToSet(upPipe[p])
        \/ onPump[p].at = "save" /\ e \in onPump[p].fresh

\* A discovery reported to the daemon is in the store, on its way there, or in a
\* save that failed with a warning: no order of two workers' reports, and no crash
\* of the worker after its report, makes onCorpus pass over it.
ReportedIsKept ==
    \A p \in Procs : \A e \in reported[p] : e \in saved \cup unsaved \/ InFlight(e)

\* An entry makes one round: it is queued for the siblings at most once, because a
\* worker that received it does not report it and one that finds it again does so
\* in vain (onCorpus, acceptSync).
OneRound == \A e \in Found : queued[e] <= 1

\* A stored discovery reaches every worker, unless a sync that carried it did not
\* fit in that worker's outbox.  A crash does not break the promise, not even with
\* the command in the pipe, since an entry is stored before it is queued and the
\* successor loads the store.  The exception is the worker that found it: when it
\* crashes between its report and the save, the successor loads a store without the
\* entry and the broadcast passes it over.
Spreads ==
    \A p \in Procs, e \in Found :
        e \in saved ~> (e \in corpus[p] \/ e \in missed[p] \/ e \in bereft[p])

\* worker.go, Send: "corpus sync is a best-effort optimisation and the next round
\* carries the same entries": an entry of a dropped sync reaches the worker later.
NextRoundCarriesIt ==
    \A p \in Procs, e \in Found : e \in missed[p] ~> e \in corpus[p]
=============================================================================
