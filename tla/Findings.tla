------------------------------ MODULE Findings ------------------------------
(***************************************************************************)
(* A finding from the report of a worker to the bucket triage files it     *)
(* under: onFinding and onTriaged (internal/daemon/campaign.go), the       *)
(* triage queue (internal/triage/worker.go), Replay, Minimize and          *)
(* SetDisposition (internal/daemon/triage.go), and the finding and bucket  *)
(* tables (internal/store/finding.go).                                     *)
(*                                                                         *)
(* The pump of each worker, the one triage goroutine and the API handlers  *)
(* run concurrently.  Every store operation is one transaction on the      *)
(* store's single connection, hence one step.  A finding is identified by  *)
(* the digest of its input, which is unique in the table; a reproducer is  *)
(* abstracted to which pass produced it, a bucket to its strategy and      *)
(* signature.                                                              *)
(***************************************************************************)
EXTENDS Naturals, Sequences, FiniteSets

CONSTANTS
    Pumps,       \* the supervisor's reader goroutines
    Handlers,    \* API handlers
    Digests,     \* inputs that make the target fail
    Signatures,  \* buckets
    NoID,        \* the zero ID of a report the table already had
    NoRow,
    QueueCap,    \* the capacity of the triage queue
    MaxReports,  \* bound: findings reported
    MaxCalls     \* bound: API calls

VARIABLES
    row,      \* the finding table: [Digests -> Row or NoRow]
    bucket,   \* the bucket table: signature -> count, for the rows it has
    bucketOf, \* Campaign.bucketOf: ID -> signature, for the IDs it has
    pump,     \* where each pump is in onFinding
    queue,    \* IDs of the jobs waiting
    dropped,  \* jobs that found the queue full
    failed,   \* jobs triage could not finish
    triager,  \* the triage goroutine
    call,     \* where each API handler is
    reports, calls   \* bounds

storeVars == <<row, bucket>>
vars == <<row, bucket, bucketOf, pump, queue, dropped, failed, triager, call, reports,
          calls>>

States == {"new", "verified", "unverified", "flaky", "minimized"}
Judgements == {"pending", "duplicate"}
Minimized == {"none", "auto", "asked"}

Row == [bucket : Signatures, state : States, min : Minimized, judged : Judgements]

Idle == [at |-> "idle"]

Init ==
    /\ row = [d \in Digests |-> NoRow]
    /\ bucket = [s \in {} |-> 0]
    /\ bucketOf = [i \in {} |-> NoID]
    /\ pump = [p \in Pumps |-> Idle]
    /\ queue = << >>
    /\ dropped = 0
    /\ failed = {}
    /\ triager = Idle
    /\ call = [h \in Handlers |-> Idle]
    /\ reports = 0
    /\ calls = 0

\* f with x mapped to v.
With(f, x, v) == [y \in DOMAIN f \cup {x} |-> IF y = x THEN v ELSE f[y]]

\* INSERT INTO bucket ... ON CONFLICT DO NOTHING.
ensured(s) == IF s \in DOMAIN bucket THEN bucket ELSE With(bucket, s, 0)

-----------------------------------------------------------------------------
(* onFinding. *)

\* Mistake in SaveFinding: a duplicate is counted too.
SaveFindingCountsAll(d, s) ==
    /\ bucket' = [ensured(s) EXCEPT ![s] = @ + 1]
    /\ row' = IF row[d] # NoRow THEN row
              ELSE [row EXCEPT ![d] = [bucket |-> s, state |-> "new", min |-> "none",
                                       judged |-> "pending"]]

\* The bucket is there afterwards; the finding is inserted and counted unless its
\* input is in the table already.
SaveFinding(d, s) ==
    IF row[d] # NoRow
    THEN bucket' = ensured(s) /\ UNCHANGED row
    ELSE /\ bucket' = [ensured(s) EXCEPT ![s] = @ + 1]
         /\ row' = [row EXCEPT ![d] = [bucket |-> s, state |-> "new", min |-> "none",
                                       judged |-> "pending"]]

\* A pump's onFinding saves the report; a duplicate leaves its ID zero.
onFinding(p, d, s) ==
    /\ pump[p].at = "idle"
    /\ reports < MaxReports
    /\ reports' = reports + 1
    /\ SaveFinding(d, s)
    /\ pump' = [pump EXCEPT ![p] =
           [at |-> "saved", id |-> IF row[d] = NoRow THEN d ELSE NoID, bucket |-> s]]
    /\ UNCHANGED <<bucketOf, queue, dropped, failed, triager, call, calls>>

\* Mistake in fileProvisionally: the finding is filed after its job is submitted.
fileLate(p) ==
    /\ pump[p].at \in {"saved", "submitted"}
    /\ IF pump[p].at = "saved"
       THEN /\ queue' = Append(queue, pump[p].id)
            /\ pump' = [pump EXCEPT ![p].at = "submitted"]
            /\ UNCHANGED bucketOf
       ELSE /\ bucketOf' = With(bucketOf, pump[p].id, pump[p].bucket)
            /\ pump' = [pump EXCEPT ![p] = Idle]
            /\ UNCHANGED queue
    /\ UNCHANGED <<storeVars, dropped, failed, triager, call, reports, calls>>

\* Under the campaign's lock: the provisional bucket.
fileProvisionally(p) ==
    /\ pump[p].at = "saved"
    /\ bucketOf' = With(bucketOf, pump[p].id, pump[p].bucket)
    /\ pump' = [pump EXCEPT ![p].at = "filed"]
    /\ UNCHANGED <<storeVars, queue, dropped, failed, triager, call, reports, calls>>

\* Mistake in Submit: the overflow is dropped without being counted.
SubmitUncounted(id) ==
    /\ queue' = IF Len(queue) < QueueCap THEN Append(queue, id) ELSE queue
    /\ UNCHANGED dropped

\* Mistake in Submit: the queue has no bound.
SubmitUnbounded(id) == queue' = Append(queue, id) /\ UNCHANGED dropped

\* Submit never blocks: what does not fit is dropped and counted.
Submit(id) ==
    IF Len(queue) < QueueCap
    THEN queue' = Append(queue, id) /\ UNCHANGED dropped
    ELSE dropped' = dropped + 1 /\ UNCHANGED queue

submitTriage(p) ==
    /\ pump[p].at = "filed"
    /\ Submit(pump[p].id)
    /\ pump' = [pump EXCEPT ![p] = Idle]
    /\ UNCHANGED <<storeVars, bucketOf, failed, triager, call, reports, calls>>

-----------------------------------------------------------------------------
(* The triage goroutine. *)

take ==
    /\ triager.at = "idle"
    /\ queue # << >>
    /\ triager' = [at |-> "busy", id |-> Head(queue)]
    /\ queue' = Tail(queue)
    /\ UNCHANGED <<storeVars, bucketOf, pump, dropped, failed, call, reports, calls>>

\* Triage: the verdict of the verification and whether minimisation made the
\* reproducer smaller.  A reproducer that fails every time ends as minimized
\* whether or not it got smaller; when minimisation is off it stays verified.
Verdicts == {[state |-> "unverified", smaller |-> FALSE],
             [state |-> "verified", smaller |-> FALSE]}
            \cup [state : {"flaky", "minimized"}, smaller : BOOLEAN]

\* The result carries an error, names a finding the store does not have, or cannot
\* be recorded.
triageFails ==
    /\ triager.at \in {"busy", "read"}
    /\ failed' = failed \cup {triager.id}
    /\ triager' = Idle
    /\ UNCHANGED <<storeVars, bucketOf, pump, queue, dropped, call, reports, calls>>

\* onTriaged reads the finding after the verdict is known.
onTriaged(v) ==
    /\ triager.at = "busy"
    /\ triager.id # NoID
    /\ triager' = [at |-> "read", id |-> triager.id, verdict |-> v,
                   seen |-> row[triager.id]]
    /\ UNCHANGED <<storeVars, bucketOf, pump, queue, dropped, failed, call, reports,
                   calls>>

\* Mistake in UpdateTriage: the whole row is written back as it was read.
UpdateTriageAll(d, seen, s, m) ==
    row' = [row EXCEPT ![d] = [seen EXCEPT !.state = s, !.min = m]]

\* The statement sets the triage columns only: seen is what the caller had read,
\* and neither the judgement nor the bucket is taken from it.
UpdateTriage(d, seen, s, m) ==
    row' = [row EXCEPT ![d].state = s, ![d].min = m]

\* The minimised reproducer is the triage's own, or the one onTriaged read.
recordTriage ==
    /\ triager.at = "read"
    /\ UpdateTriage(triager.id, triager.seen, triager.verdict.state,
                    IF triager.verdict.smaller THEN "auto" ELSE triager.seen.min)
    /\ triager' = IF triager.verdict.state = "unverified" THEN Idle
                  ELSE [at |-> "updated", id |-> triager.id]
    /\ UNCHANGED <<bucket, bucketOf, pump, queue, dropped, failed, call, reports, calls>>

\* Rebucket: the old bucket loses the finding, and goes when it was the last.
Rebucket(d, s) ==
    LET old == row[d].bucket
        more == [ensured(s) EXCEPT ![s] = @ + 1, ![old] = @ - 1] IN
    IF s = old
    THEN UNCHANGED <<row, bucket>>
    ELSE /\ row' = [row EXCEPT ![d].bucket = s]
         /\ bucket' = [x \in {y \in DOMAIN more : y # old \/ more[y] > 0} |-> more[x]]

rebucket(s) ==
    /\ triager.at = "updated"
    /\ Rebucket(triager.id, s)
    /\ triager' = [at |-> "moved", id |-> triager.id, bucket |-> s]
    /\ UNCHANGED <<bucketOf, pump, queue, dropped, failed, call, reports, calls>>

\* Triage has no signature to offer, or the transaction fails.
keepBucket ==
    /\ triager.at = "updated"
    /\ triager' = Idle
    /\ UNCHANGED <<storeVars, bucketOf, pump, queue, dropped, failed, call, reports,
                   calls>>

\* Under the campaign's lock: triage's bucket replaces the provisional one.
refile ==
    /\ triager.at = "moved"
    /\ bucketOf' = With(bucketOf, triager.id, triager.bucket)
    /\ triager' = Idle
    /\ UNCHANGED <<storeVars, pump, queue, dropped, failed, call, reports, calls>>

-----------------------------------------------------------------------------
(* What a person asks for. *)

\* Replay and Minimize read the finding first and run the target for as long as
\* it takes.
ask(h, op, d) ==
    /\ call[h].at = "idle"
    /\ calls < MaxCalls
    /\ calls' = calls + 1
    /\ row[d] # NoRow
    /\ call' = [call EXCEPT ![h] = [at |-> op, id |-> d, seen |-> row[d]]]
    /\ UNCHANGED <<storeVars, bucketOf, pump, queue, dropped, failed, triager, reports>>

Replay(h, s) ==
    /\ call[h].at = "Replay"
    /\ UpdateTriage(call[h].id, call[h].seen, s, call[h].seen.min)
    /\ call' = [call EXCEPT ![h] = Idle]
    /\ UNCHANGED <<bucket, bucketOf, pump, queue, dropped, failed, triager, reports,
                   calls>>

Minimize(h) ==
    /\ call[h].at = "Minimize"
    /\ UpdateTriage(call[h].id, call[h].seen,
                    IF call[h].seen.state \in {"unverified", "flaky"}
                    THEN call[h].seen.state ELSE "minimized", "asked")
    /\ call' = [call EXCEPT ![h] = Idle]
    /\ UNCHANGED <<bucket, bucketOf, pump, queue, dropped, failed, triager, reports,
                   calls>>

SetDisposition(h, d, j) ==
    /\ call[h].at = "idle"
    /\ calls < MaxCalls
    /\ calls' = calls + 1
    /\ row[d] # NoRow
    /\ row' = [row EXCEPT ![d].judged = j]
    /\ UNCHANGED <<bucket, bucketOf, pump, queue, dropped, failed, triager, call, reports>>

-----------------------------------------------------------------------------
PumpStep(p) ==
    \/ \E d \in Digests, s \in Signatures : onFinding(p, d, s)
    \/ fileProvisionally(p) \/ submitTriage(p)

TriageStep ==
    \/ take \/ triageFails \/ recordTriage \/ keepBucket \/ refile
    \/ \E v \in Verdicts : onTriaged(v)
    \/ \E s \in Signatures : rebucket(s)

HandlerStep(h) ==
    \/ \E op \in {"Replay", "Minimize"}, d \in Digests : ask(h, op, d)
    \/ \E s \in {"verified", "unverified", "flaky"} : Replay(h, s)
    \/ Minimize(h)
    \/ \E d \in Digests, j \in Judgements : SetDisposition(h, d, j)

Next ==
    \/ \E p \in Pumps : PumpStep(p)
    \/ TriageStep
    \/ \E h \in Handlers : HandlerStep(h)

Spec == Init /\ [][Next]_vars

-----------------------------------------------------------------------------
(* Properties. *)

\* The types of the finding tables and of the goroutines' positions.
TypeOK ==
    /\ row \in [Digests -> Row \cup {NoRow}]
    /\ DOMAIN bucket \subseteq Signatures
    /\ \A s \in DOMAIN bucket : bucket[s] \in Nat
    /\ DOMAIN bucketOf \subseteq Digests \cup {NoID}
    /\ \A i \in DOMAIN bucketOf : bucketOf[i] \in Signatures
    /\ \A p \in Pumps : pump[p].at \in {"idle", "saved", "filed"}
    /\ queue \in Seq(Digests \cup {NoID}) /\ Len(queue) <= QueueCap
    /\ dropped \in Nat
    /\ failed \subseteq Digests \cup {NoID}
    /\ triager.at \in {"idle", "busy", "read", "updated", "moved"}
    /\ \A h \in Handlers : call[h].at \in {"idle", "Replay", "Minimize"}

In(s) == {d \in Digests : row[d] # NoRow /\ row[d].bucket = s}

\* The headline number is not a lie: every finding is in a bucket of the table,
\* and a bucket's count is the number of findings in it, duplicates reported by
\* two workers and moves by triage included.
CountsAreExact ==
    /\ \A d \in Digests : row[d] # NoRow => row[d].bucket \in DOMAIN bucket
    /\ \A s \in DOMAIN bucket : bucket[s] = Cardinality(In(s))

\* A judgement is kept: only SetDisposition, never a triage, a replay or a
\* minimisation that read the finding before it was judged, changes it.
JudgementIsKept ==
    [][\A d \in Digests :
          row[d] # NoRow /\ row'[d] # NoRow /\ row'[d].judged # row[d].judged
              => UNCHANGED <<triager, call, pump>>]_vars

\* The campaign's own view of a finding's bucket is the store's, once nobody is
\* on the way to it: a provisional bucket never replaces the one triage found.
BucketOfAgrees ==
    \A d \in Digests :
        /\ row[d] # NoRow
        /\ \A p \in Pumps : pump[p].at = "saved" => pump[p].id # d
        /\ triager.at = "moved" => triager.id # d
        => d \in DOMAIN bucketOf /\ bucketOf[d] = row[d].bucket

\* No finding is left untriaged in silence: one that is still new has its job on
\* the way or waiting, or triage failed on it, or a dropped job was counted.
NewIsAccountedFor ==
    \A d \in Digests :
        row[d] # NoRow /\ row[d].state = "new" =>
            \/ \E p \in Pumps : pump[p].at # "idle" /\ pump[p].id = d
            \/ \E i \in 1 .. Len(queue) : queue[i] = d
            \/ triager.at # "idle" /\ triager.id = d
            \/ d \in failed
            \/ dropped > 0

\* triage.go, Minimize: minimisation does not upgrade a finding that does not
\* reliably reproduce.
MinimizeNeverUpgrades ==
    [][\A h \in Handlers :
          call[h].at = "Minimize" /\ call'[h].at = "idle" =>
              LET d == call[h].id IN
              row[d].state \in {"unverified", "flaky"} => row'[d].state # "minimized"
      ]_vars
=============================================================================
