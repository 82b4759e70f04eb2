------------------------------ MODULE BlobStore -----------------------------
(***************************************************************************)
(* Payloads and the rows that point at them: the content-addressed blob    *)
(* store (internal/store/blob.go), SaveTestcases (internal/store/          *)
(* testcase.go), and culling and collection (internal/store/budget.go).    *)
(*                                                                         *)
(* Files are changed outside any transaction, rows inside one.  Writers,   *)
(* readers and the collector are goroutines of one daemon; a crash stops   *)
(* all of them between any two steps and the store is opened again.        *)
(* Payloads are abstracted to their digests and every entry to one byte,   *)
(* so a budget counts entries.                                             *)
(***************************************************************************)
EXTENDS Naturals, FiniteSets

CONSTANTS
    Digests,
    Writers,
    Readers,
    MaxKept,    \* Budget.MaxEntries
    MaxSaves,   \* bound: batches saved
    MaxFaults   \* bound: crashes and files that go bad

VARIABLES
    file,     \* of each digest: none, ok, or bad (does not hash to its name)
    aged,     \* files older than the collector's grace
    entry,    \* the testcase table: none, plain or favoured
    cited,    \* digests the finding table refers to
    writer,   \* where each writer is
    reader,   \* readers that have read a bad file and not yet quarantined it
    gc,       \* the collector
    cull,     \* Enforce
    held,     \* history: files a Put found in place and did not write
    spoiled,  \* history: files that went bad
    saves, faults  \* bounds

rowVars  == <<entry, cited>>
fileVars == <<file, aged>>
vars == <<fileVars, rowVars, writer, reader, gc, cull, held, spoiled, saves, faults>>

Free   == [at |-> "idle", now |-> {}, todo |-> {}, batch |-> {}, kind |-> "plain"]
Rested == [at |-> "idle", live |-> {}, before |-> {}, doomed |-> {}]
NoCull == [at |-> "idle", all |-> {}, safe |-> {}]

Init ==
    /\ file = [d \in Digests |-> "none"]
    /\ aged = {}
    /\ entry = [d \in Digests |-> "none"]
    /\ cited = {}
    /\ writer = [w \in Writers |-> Free]
    /\ reader = [r \in Readers |-> {}]
    /\ gc = Rested
    /\ cull = NoCull
    /\ held = {}
    /\ spoiled = {}
    /\ saves = 0
    /\ faults = 0

Entries == {d \in Digests : entry[d] # "none"}
Files   == {d \in Digests : file[d] # "none"}

-----------------------------------------------------------------------------
(* SaveTestcases and SaveFinding: every blob first, then the rows. *)

Kinds == {"plain", "favoured", "finding"}

Save(w, batch, kind) ==
    /\ writer[w].at = "idle"
    /\ saves < MaxSaves
    /\ saves' = saves + 1
    /\ batch # {}
    /\ kind = "finding" => Cardinality(batch) = 1
    /\ writer' = [writer EXCEPT ![w] =
           [at |-> "put", now |-> {}, todo |-> batch, batch |-> batch, kind |-> kind]]
    /\ UNCHANGED <<fileVars, rowVars, reader, gc, cull, held, spoiled, faults>>

\* Put finds the file in place and leaves it as it is, whatever its age.
putHit(w, d) ==
    /\ writer[w].at = "put"
    /\ d \in writer[w].todo
    /\ file[d] # "none"
    /\ writer' = [writer EXCEPT ![w].todo = @ \ {d}]
    /\ held' = held \cup {d}
    /\ UNCHANGED <<fileVars, rowVars, reader, gc, cull, spoiled, saves, faults>>

\* Put misses it and writes a temporary file.
putMiss(w, d) ==
    /\ writer[w].at = "put"
    /\ d \in writer[w].todo
    /\ file[d] = "none"
    /\ writer' = [writer EXCEPT ![w].at = "write", ![w].now = {d}, ![w].todo = @ \ {d}]
    /\ UNCHANGED <<fileVars, rowVars, reader, gc, cull, held, spoiled, saves, faults>>

\* The rename, which replaces a file that has come up since; the time stamp is
\* new, later than the cutoff of a collection under way.
putRename(w, d) ==
    /\ writer[w].at = "write"
    /\ d \in writer[w].now
    /\ file' = [file EXCEPT ![d] = "ok"]
    /\ aged' = aged \ {d}
    /\ gc' = [gc EXCEPT !.before = @ \ {d}]
    /\ writer' = [writer EXCEPT ![w].at = "put", ![w].now = {}]
    /\ UNCHANGED <<rowVars, reader, cull, held, spoiled, saves, faults>>

\* Every blob is in place: one transaction inserts the rows, or updates them.
commit(w) ==
    /\ writer[w].at = "put"
    /\ writer[w].todo = {}
    /\ entry' = [d \in Digests |->
           IF d \in writer[w].batch /\ writer[w].kind # "finding"
           THEN writer[w].kind ELSE entry[d]]
    /\ cited' = cited \cup (IF writer[w].kind = "finding" THEN writer[w].batch ELSE {})
    /\ writer' = [writer EXCEPT ![w] = Free]
    /\ UNCHANGED <<fileVars, reader, gc, cull, held, spoiled, saves, faults>>

\* A Put or the transaction fails: what was put stays behind as an orphan.
saveFails(w) ==
    /\ writer[w].at # "idle"
    /\ writer' = [writer EXCEPT ![w] = Free]
    /\ UNCHANGED <<fileVars, rowVars, reader, gc, cull, held, spoiled, saves, faults>>

-----------------------------------------------------------------------------
(* Collection and culling. *)

\* Time passes the grace for a file.  The grace is longer than a batch takes from
\* its first Put to its transaction, which is what it is chosen for.
Age(d) ==
    /\ file[d] # "none"
    /\ d \notin aged
    /\ \A w \in Writers : d \in writer[w].batch \ writer[w].todo => d \in held
    /\ aged' = aged \cup {d}
    /\ UNCHANGED <<file, rowVars, writer, reader, gc, cull, held, spoiled, saves, faults>>

\* CollectBlobs: the live digests and the cutoff.
CollectBlobs ==
    /\ gc.at = "idle"
    /\ Files # {}
    /\ gc' = [at |-> "walk", live |-> Entries \cup cited, before |-> aged, doomed |-> {}]
    /\ UNCHANGED <<fileVars, rowVars, writer, reader, cull, held, spoiled, saves, faults>>

\* Mistake in collectWalk: the grace is not looked at.
collectWalkAll ==
    /\ gc.at = "walk"
    /\ gc' = [gc EXCEPT !.at = "delete", !.doomed = Files \ gc.live]
    /\ UNCHANGED <<fileVars, rowVars, writer, reader, cull, held, spoiled, saves, faults>>

\* The walk: files that are not live and older than the cutoff.
collectWalk ==
    /\ gc.at = "walk"
    /\ gc' = [gc EXCEPT !.at = "delete", !.doomed = (Files \ gc.live) \cap gc.before]
    /\ UNCHANGED <<fileVars, rowVars, writer, reader, cull, held, spoiled, saves, faults>>

\* Delete for one of them, or nothing if it is gone.
collectDelete(d) ==
    /\ gc.at = "delete"
    /\ d \in gc.doomed
    /\ file' = [file EXCEPT ![d] = "none"]
    /\ aged' = aged \ {d}
    /\ gc' = [gc EXCEPT !.doomed = @ \ {d}]
    /\ UNCHANGED <<rowVars, writer, reader, cull, held, spoiled, saves, faults>>

collectEnd ==
    /\ gc.at = "delete"
    /\ gc.doomed = {}
    /\ gc' = Rested
    /\ UNCHANGED <<fileVars, rowVars, writer, reader, cull, held, spoiled, saves, faults>>

\* Enforce reads what is protected and what there is.
Enforce ==
    /\ cull.at = "idle"
    /\ Cardinality(Entries) > MaxKept
    /\ cull' = [at |-> "cull", all |-> Entries,
                safe |-> {d \in Entries : entry[d] = "favoured"} \cup cited]
    /\ UNCHANGED <<fileVars, rowVars, writer, reader, gc, held, spoiled, saves, faults>>

\* And deletes, in one transaction, as many of the rest as it takes.
enforceDelete(gone) ==
    LET rest == cull.all \ cull.safe
        over == Cardinality(cull.all) - MaxKept IN
    /\ cull.at = "cull"
    /\ gone \subseteq rest
    /\ Cardinality(gone) = (IF over < Cardinality(rest) THEN over ELSE Cardinality(rest))
    /\ entry' = [d \in Digests |-> IF d \in gone THEN "none" ELSE entry[d]]
    /\ cull' = NoCull
    /\ UNCHANGED <<fileVars, cited, writer, reader, gc, held, spoiled, saves, faults>>

-----------------------------------------------------------------------------
(* Faults. *)

\* A file's content changes on the disk.
Spoil(d) ==
    /\ file[d] = "ok"
    /\ faults < MaxFaults
    /\ faults' = faults + 1
    /\ file' = [file EXCEPT ![d] = "bad"]
    /\ spoiled' = spoiled \cup {d}
    /\ UNCHANGED <<aged, rowVars, writer, reader, gc, cull, held, saves>>

\* Get reads a file that does not hash to its name.
Get(r, d) ==
    /\ reader[r] = {}
    /\ file[d] = "bad"
    /\ reader' = [reader EXCEPT ![r] = {d}]
    /\ UNCHANGED <<fileVars, rowVars, writer, gc, cull, held, spoiled, saves, faults>>

\* And moves aside what is under that name by then.
Quarantine(r, d) ==
    /\ d \in reader[r]
    /\ file' = [file EXCEPT ![d] = "none"]
    /\ aged' = aged \ {d}
    /\ reader' = [reader EXCEPT ![r] = {}]
    /\ UNCHANGED <<rowVars, writer, gc, cull, held, spoiled, saves, faults>>

\* The daemon dies; files and rows are what is left, and the store opens on them.
Crash ==
    /\ faults < MaxFaults
    /\ faults' = faults + 1
    /\ writer' = [w \in Writers |-> Free]
    /\ reader' = [r \in Readers |-> {}]
    /\ gc' = Rested
    /\ cull' = NoCull
    /\ UNCHANGED <<fileVars, rowVars, held, spoiled, saves>>

-----------------------------------------------------------------------------
WriterStep(w) ==
    \/ \E batch \in SUBSET Digests, kind \in Kinds : Save(w, batch, kind)
    \/ \E d \in Digests : putHit(w, d) \/ putMiss(w, d) \/ putRename(w, d)
    \/ commit(w) \/ saveFails(w)

CollectorStep ==
    \/ CollectBlobs \/ collectWalk \/ collectEnd
    \/ \E d \in Digests : collectDelete(d)

Next ==
    \/ \E w \in Writers : WriterStep(w)
    \/ CollectorStep
    \/ Enforce \/ \E gone \in SUBSET Digests : enforceDelete(gone)
    \/ \E d \in Digests : Age(d) \/ Spoil(d)
    \/ \E r \in Readers, d \in Digests : Get(r, d) \/ Quarantine(r, d)
    \/ Crash

Spec == Init /\ [][Next]_vars

-----------------------------------------------------------------------------
(* Properties. *)

\* The types of the store's state.
TypeOK ==
    /\ file \in [Digests -> {"none", "ok", "bad"}]
    /\ aged \subseteq Files
    /\ entry \in [Digests -> {"none", "plain", "favoured"}]
    /\ cited \subseteq Digests
    /\ writer \in [Writers -> [at : {"idle", "put", "write"}, now : SUBSET Digests,
                               todo : SUBSET Digests, batch : SUBSET Digests,
                               kind : Kinds]]
    /\ reader \in [Readers -> SUBSET Digests]
    /\ gc \in [at : {"idle", "walk", "delete"}, live : SUBSET Digests,
               before : SUBSET Digests, doomed : SUBSET Digests]
    /\ cull \in [at : {"idle", "cull"}, all : SUBSET Digests, safe : SUBSET Digests]
    /\ held \subseteq Digests
    /\ spoiled \subseteq Digests

\* A row never promises a payload that does not exist: wherever a crash, a failed
\* batch, a cull and a collection fall, an entry or a finding whose payload was
\* written by its own Put, and was not damaged by the disk, still has it.
RowsHavePayloads ==
    \A d \in (Entries \cup cited) \ (held \cup spoiled) : file[d] = "ok"
=============================================================================
