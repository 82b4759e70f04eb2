------------------------------ MODULE AuditLog ------------------------------
(***************************************************************************)
(* The hash-chained audit log of a store (internal/store/audit.go).  Audit *)
(* appends an entry in one transaction and records the new head;           *)
(* VerifyAudit recomputes the chain.  The table may also be changed by     *)
(* something other than Audit, a manual edit or a damaged page: that is    *)
(* what VerifyAudit is for.  The recorded head is not changed with it.     *)
(*                                                                         *)
(* SHA-256 over the length-prefixed fields is abstracted to the tuple of   *)
(* the fields: distinct contents have distinct hashes, equal contents equal*)
(* ones.                                                                   *)
(***************************************************************************)
EXTENDS Naturals, Sequences

CONSTANTS
    Texts,      \* what an entry says: actor, action and detail
    MaxEntries, \* bound: entries appended
    MaxEdits    \* bound: changes not made by Audit

VARIABLES
    log,    \* the audit table in id order: [id, text, prev, hash]
    head,   \* metaAuditHead
    saved,  \* history: the entries as Audit wrote them
    sealed, \* history: every Audit found a log that ended at the recorded head
    edits   \* bound

vars == <<log, head, saved, sealed, edits>>

NoHash == << >>

\* The fields that are hashed; the time stamp is part of the text.
auditHash(id, text, prev) == <<id, text, prev>>

Init ==
    /\ log = << >> /\ head = NoHash
    /\ saved = << >> /\ sealed = TRUE /\ edits = 0

LastHash(l) == IF l = << >> THEN NoHash ELSE l[Len(l)].hash
LastID(l)   == IF l = << >> THEN 0 ELSE l[Len(l)].id

\* Audit: read the last entry, chain to it, record the head; one transaction.
\* The head recorded before is overwritten unread.
Audit(text) ==
    /\ Len(saved) < MaxEntries
    /\ LET id == LastID(log) + 1
           e  == [id |-> id, text |-> text, prev |-> LastHash(log),
                  hash |-> auditHash(id, text, LastHash(log))] IN
       /\ log' = Append(log, e)
       /\ head' = e.hash
       /\ saved' = Append(saved, e)
    /\ sealed' = (sealed /\ LastHash(log) = head)
    /\ UNCHANGED edits

-----------------------------------------------------------------------------
(* Changes made by something other than Audit. *)

Edited(l) ==
    /\ edits < MaxEdits
    /\ edits' = edits + 1
    /\ log' = l
    /\ UNCHANGED <<head, saved, sealed>>

Without(l, i) == SubSeq(l, 1, i - 1) \o SubSeq(l, i + 1, Len(l))

\* An entry's text is changed, with or without its own hash.
rewrite(i, text) ==
    \/ Edited([log EXCEPT ![i].text = text])
    \/ Edited([log EXCEPT ![i] = [id |-> @.id, text |-> text, prev |-> @.prev,
                                  hash |-> auditHash(@.id, text, @.prev)]])

remove(i) == Edited(Without(log, i))

\* The entries from i on are renumbered and chained and hashed afresh.
rechain(i) ==
    LET prev[j \in 0 .. Len(log)] ==
            IF j < i THEN IF j = 0 THEN NoHash ELSE log[j].hash
            ELSE auditHash(j, log[j].text, prev[j - 1]) IN
    Edited([j \in 1 .. Len(log) |->
        IF j < i THEN log[j]
        ELSE [id |-> j, text |-> log[j].text, prev |-> prev[j - 1],
              hash |-> auditHash(j, log[j].text, prev[j - 1])]])

Next ==
    \/ \E t \in Texts : Audit(t)
    \/ \E i \in 1 .. Len(log) :
        \/ \E t \in Texts : rewrite(i, t)
        \/ remove(i)
        \/ rechain(i)

Spec == Init /\ [][Next]_vars

-----------------------------------------------------------------------------
(* VerifyAudit. *)

\* Mistake in VerifyAudit: the recorded head is not compared.
VerifyWithoutHead(l, h) ==
    \A i \in 1 .. Len(l) :
        /\ l[i].id = i
        /\ l[i].prev = (IF i = 1 THEN NoHash ELSE l[i - 1].hash)
        /\ l[i].hash = auditHash(l[i].id, l[i].text, l[i].prev)

\* Numbered without a gap, chained, each hashing to what it records, and ending
\* where the head says.
VerifyAudit(l, h) ==
    /\ \A i \in 1 .. Len(l) :
        /\ l[i].id = i
        /\ l[i].prev = (IF i = 1 THEN NoHash ELSE l[i - 1].hash)
        /\ l[i].hash = auditHash(l[i].id, l[i].text, l[i].prev)
    /\ h = LastHash(l)

\* The log verifies exactly when it is the log Audit wrote: an entry changed,
\* removed from the middle or cut off the end, and a chain recomputed after the
\* change, are all noticed, and an intact log is never called tampered with.
\* The one way to lose the evidence is an Audit that chains to a log which no
\* longer ends at the recorded head.
VerifiesIffIntact == sealed => (VerifyAudit(log, head) <=> log = saved)

\* audit.go, metaAuditHead: the head is kept outside the table so that truncation
\* shows up.
TruncationShows == Len(log) < Len(saved) => ~VerifyAudit(log, head)
=============================================================================
