----------------------------- MODULE DataProofs -----------------------------
(***************************************************************************)
(* Proofs about the parts of MCData, the blob store with its collector,    *)
(* the findings, the audit log and the triage of an input, for any         *)
(* digests, goroutines, buckets, texts and inputs, and any bounds.         *)
(***************************************************************************)
EXTENDS MCData, FiniteSetTheorems, SequenceTheorems, WellFoundedInduction, TLAPS

-----------------------------------------------------------------------------
(* Payloads and the rows that point at them (BlobStore).                     *)

WriterType ==
    [at : {"idle", "put", "write"}, now : SUBSET Digests, todo : SUBSET Digests,
     batch : SUBSET Digests, kind : Blobs!Kinds]

CollectorType ==
    [at : {"idle", "walk", "delete"}, live : SUBSET Digests, before : SUBSET Digests,
     doomed : SUBSET Digests]

CullType == [at : {"idle", "cull"}, all : SUBSET Digests, safe : SUBSET Digests]

BlobTypes ==
    /\ file \in [Digests -> {"none", "ok", "bad"}] /\ aged \in SUBSET Digests
    /\ entry \in [Digests -> {"none", "plain", "favoured"}] /\ cited \in SUBSET Digests
    /\ writer \in [Writers -> WriterType] /\ reader \in [Readers -> SUBSET Digests]
    /\ gc \in CollectorType /\ cull \in CullType
    /\ held \in SUBSET Digests /\ spoiled \in SUBSET Digests

Row(d) == entry[d] # "none" \/ d \in cited

\* A batch under way has put d, or is about to rename it into place.
Putting(w, d) == d \in writer[w].batch /\ d \notin writer[w].todo

\* Only a file that went bad is bad, and only such files are moved aside.
FaultsAreSpoiled ==
    /\ \A d \in Digests : file[d] = "bad" => d \in spoiled
    /\ \A r \in Readers : reader[r] \subseteq spoiled

\* What has an age is there, and what the collector is going to delete too.
AgedAreFiles ==
    /\ \A d \in aged : file[d] # "none"
    /\ \A d \in gc.doomed \ spoiled : file[d] # "none"
    /\ gc.at = "walk" => \A d \in gc.before \ spoiled : file[d] # "none"
    /\ gc.at # "delete" => gc.doomed = {}

\* A collection under way is going to pass over d.
Passed(d) == d \notin gc.doomed /\ (gc.at = "walk" => d \in gc.live \/ d \notin gc.before)

\* A batch holds the files it has written itself: they are in place, too young for
\* any collection, and what it is writing is neither put nor left to put.
BatchesHold ==
    /\ \A w \in Writers : writer[w].at # "write" => writer[w].now = {}
    /\ \A w \in Writers : \A d, e \in writer[w].now : d = e
    /\ \A w \in Writers : writer[w].todo \subseteq writer[w].batch
    /\ \A w \in Writers : writer[w].now \subseteq writer[w].batch \ writer[w].todo
    /\ \A w \in Writers : \A d \in Digests \ (held \cup spoiled) :
           Putting(w, d) =>
               /\ d \notin writer[w].now => file[d] = "ok"
               /\ d \notin aged /\ d \notin gc.doomed
               /\ gc.at = "walk" => d \notin gc.before

\* A row has its payload, and no collection under way is going to take it.
RowsHold ==
    \A d \in Digests \ (held \cup spoiled) : Row(d) => file[d] = "ok" /\ Passed(d)

BlobInv == BlobTypes /\ FaultsAreSpoiled /\ AgedAreFiles /\ BatchesHold /\ RowsHold

\* A store that was just created is empty.
LEMMA InitBlobInv == Init => BlobInv
<1> SUFFICES ASSUME Blobs!Init PROVE BlobInv
  BY DEF Init
<1> USE DEF Blobs!Init, Blobs!Free, Blobs!Rested, Blobs!NoCull
<1>1. BlobTypes
  BY DEF BlobTypes, WriterType, CollectorType, CullType, Blobs!Kinds
<1>2. FaultsAreSpoiled /\ AgedAreFiles
  BY DEF FaultsAreSpoiled, AgedAreFiles
<1>3. BatchesHold /\ RowsHold
  BY DEF BatchesHold, RowsHold, Putting, Row
<1> QED BY <1>1, <1>2, <1>3 DEF BlobInv

\* One writer moves on, with a record of its own type.
LEMMA WriterMoves ==
    ASSUME BlobTypes, NEW w \in Writers, NEW x \in WriterType,
           writer' = [writer EXCEPT ![w] = x]
    PROVE  /\ writer' \in [Writers -> WriterType] /\ writer'[w] = x
           /\ \A v \in Writers \ {w} : writer'[v] = writer[v]
BY DEF BlobTypes

\* The steps of a batch keep the invariant.  Save, putHit and putMiss write nothing:
\* what they find in place is none of theirs, and what is missing has no age.
LEMMA WriterPuts ==
    ASSUME BlobInv, NEW w \in Writers,
           \/ \E batch \in SUBSET Digests, kind \in Blobs!Kinds : Blobs!Save(w, batch, kind)
           \/ \E d \in Digests : Blobs!putHit(w, d) \/ Blobs!putMiss(w, d)
    PROVE  BlobInv'
<1> USE DEF BlobInv
<1>t. writer[w] \in WriterType
  BY DEF BlobTypes
<1>1. ASSUME NEW batch \in SUBSET Digests, NEW kind \in Blobs!Kinds, Blobs!Save(w, batch, kind)
      PROVE  BlobInv'
  <2>1. PICK x \in WriterType : /\ x.at = "put" /\ x.now = {} /\ x.todo = batch /\ x.batch = batch
                                /\ writer' = [writer EXCEPT ![w] = x]
    <3>1. [at |-> "put", now |-> {}, todo |-> batch, batch |-> batch, kind |-> kind] \in WriterType
      BY DEF WriterType
    <3> QED BY <1>1, <3>1 DEF Blobs!Save
  <2>2. UNCHANGED <<file, aged, entry, cited, reader, gc, cull, held, spoiled>>
    BY <1>1 DEF Blobs!Save, Blobs!fileVars, Blobs!rowVars
  <2>3. /\ writer' \in [Writers -> WriterType] /\ writer'[w] = x
        /\ \A v \in Writers \ {w} : writer'[v] = writer[v]
    BY <2>1, WriterMoves
  <2>4. BatchesHold'
    BY <2>1, <2>2, <2>3 DEF BatchesHold, Putting
  <2> QED BY <2>2, <2>3, <2>4
          DEF BlobTypes, FaultsAreSpoiled, AgedAreFiles, RowsHold, Row, Passed
<1>2. ASSUME NEW d \in Digests, Blobs!putHit(w, d) PROVE BlobInv'
  <2>1. PICK x \in WriterType : /\ x.at = "put" /\ x.now = writer[w].now
                                /\ x.todo = writer[w].todo \ {d} /\ x.batch = writer[w].batch
                                /\ writer' = [writer EXCEPT ![w] = x]
    <3>1. PICK b \in WriterType : b = writer[w]
      BY <1>t
    <3>2. [b EXCEPT !.todo = b.todo \ {d}] \in WriterType
      BY DEF WriterType
    <3>3. writer' = [writer EXCEPT ![w] = [b EXCEPT !.todo = b.todo \ {d}]]
      BY <1>2, <3>1 DEF Blobs!putHit
    <3>4. b.at = "put"
      BY <1>2, <3>1 DEF Blobs!putHit
    <3> QED BY <3>1, <3>2, <3>3, <3>4 DEF WriterType
  <2>2. /\ writer[w].at = "put" /\ held' = held \cup {d}
        /\ UNCHANGED <<file, aged, entry, cited, reader, gc, cull, spoiled>>
    BY <1>2 DEF Blobs!putHit, Blobs!fileVars, Blobs!rowVars
  <2>3. /\ writer' \in [Writers -> WriterType] /\ writer'[w] = x
        /\ \A v \in Writers \ {w} : writer'[v] = writer[v]
    BY <2>1, WriterMoves
  <2>4. BatchesHold'
    <3>1. \A v \in Writers : writer'[v].now = writer[v].now /\ writer'[v].at = writer[v].at
      BY <2>1, <2>2, <2>3
    <3>2. \A v \in Writers : \A e \in Digests \ {d} : Putting(v, e)' <=> Putting(v, e)
      BY <2>1, <2>3 DEF Putting
    <3>3. \A v \in Writers : /\ \A b, e \in writer'[v].now : b = e
                             /\ writer'[v].now \subseteq writer'[v].batch \ writer'[v].todo
                             /\ writer'[v].todo \subseteq writer'[v].batch
      BY <2>1, <2>2, <2>3 DEF BatchesHold
    <3> QED BY <2>2, <3>1, <3>2, <3>3 DEF BatchesHold
  <2>5. BlobTypes'
    BY <2>2, <2>3 DEF BlobTypes
  <2> QED BY <2>2, <2>4, <2>5 DEF FaultsAreSpoiled, AgedAreFiles, RowsHold, Row, Passed
<1>3. ASSUME NEW d \in Digests, Blobs!putMiss(w, d) PROVE BlobInv'
  <2>1. PICK x \in WriterType : /\ x.at = "write" /\ x.now = {d}
                                /\ x.todo = writer[w].todo \ {d} /\ x.batch = writer[w].batch
                                /\ writer' = [writer EXCEPT ![w] = x]
    <3>1. PICK b \in WriterType : b = writer[w]
      BY <1>t
    <3>2. PICK x \in WriterType : x = [b EXCEPT !.at = "write", !.now = {d}, !.todo = b.todo \ {d}]
      BY DEF WriterType
    <3>3. writer' = [writer EXCEPT ![w] = [b EXCEPT !.at = "write", !.now = {d}, !.todo = b.todo \ {d}]]
      BY <1>3, <3>1 DEF Blobs!putMiss, BlobTypes
    <3> QED BY <3>1, <3>2, <3>3 DEF WriterType
  <2>2. /\ writer[w].at = "put" /\ d \in writer[w].todo /\ file[d] = "none"
        /\ UNCHANGED <<file, aged, entry, cited, reader, gc, cull, held, spoiled>>
    BY <1>3 DEF Blobs!putMiss, Blobs!fileVars, Blobs!rowVars
  <2>3. /\ writer' \in [Writers -> WriterType] /\ writer'[w] = x
        /\ \A v \in Writers \ {w} : writer'[v] = writer[v]
    BY <2>1, WriterMoves
  <2>4. BatchesHold'
    <3>1. \A v \in Writers : writer'[v].at # "write" => writer'[v].now = {}
      BY <2>1, <2>2, <2>3 DEF BatchesHold
    <3>2. \A v \in Writers : v # w => writer'[v].now = writer[v].now
      BY <2>3
    <3>3. \A e \in Digests \ {d} : Putting(w, e)' => Putting(w, e) /\ e \notin writer[w].now
      BY <2>1, <2>2, <2>3 DEF Putting, BatchesHold
    <3>4. d \in aged \cup gc.doomed \/ (gc.at = "walk" /\ d \in gc.before) => d \in spoiled
      BY <2>2 DEF AgedAreFiles
    <3>5. \A v \in Writers : v # w => \A e \in Digests : Putting(v, e)' <=> Putting(v, e)
      BY <2>3 DEF Putting
    <3>6. ASSUME NEW e \in Digests \ (held \cup spoiled), Putting(w, e)'
          PROVE  /\ e \notin writer'[w].now => file[e] = "ok"
                 /\ e \notin aged /\ e \notin gc.doomed
                 /\ gc.at = "walk" => e \notin gc.before
      <4>1. CASE e = d
        BY <2>1, <2>3, <3>4, <3>6, <4>1
      <4>2. CASE e # d
        BY <3>3, <3>6, <4>2 DEF BatchesHold
      <4> QED BY <4>1, <4>2
    <3>7. \A v \in Writers : /\ \A b, e \in writer'[v].now : b = e
                             /\ writer'[v].now \subseteq writer'[v].batch \ writer'[v].todo
                             /\ writer'[v].todo \subseteq writer'[v].batch
      BY <2>1, <2>2, <2>3 DEF BatchesHold
    <3> QED BY <2>2, <3>1, <3>2, <3>5, <3>6, <3>7 DEF BatchesHold
  <2>5. BlobTypes'
    BY <2>2, <2>3 DEF BlobTypes
  <2> QED BY <2>2, <2>4, <2>5 DEF FaultsAreSpoiled, AgedAreFiles, RowsHold, Row, Passed
<1> QED BY <1>1, <1>2, <1>3

\* The rename makes the file whole and young; the row that follows it is that of a
\* file no collection takes, since the batch has held it ever since.
LEMMA WriterEnds ==
    ASSUME BlobInv, NEW w \in Writers,
           \/ \E d \in Digests : Blobs!putRename(w, d)
           \/ Blobs!commit(w) \/ Blobs!saveFails(w)
    PROVE  BlobInv'
<1> USE DEF BlobInv
<1>t. writer[w] \in WriterType
  BY DEF BlobTypes
<1>f. Blobs!Free \in WriterType /\ Blobs!Free.now = {} /\ Blobs!Free.todo = {}
      /\ Blobs!Free.batch = {}
  BY DEF Blobs!Free, WriterType, Blobs!Kinds
<1>1. ASSUME NEW d \in Digests, Blobs!putRename(w, d) PROVE BlobInv'
  <2>1. PICK x \in WriterType : /\ x.at = "put" /\ x.now = {}
                                /\ x.todo = writer[w].todo /\ x.batch = writer[w].batch
                                /\ writer' = [writer EXCEPT ![w] = x]
    <3>1. PICK b \in WriterType : b = writer[w]
      BY <1>t
    <3>2. PICK x \in WriterType : x = [b EXCEPT !.at = "put", !.now = {}]
      BY DEF WriterType
    <3>3. writer' = [writer EXCEPT ![w] = [b EXCEPT !.at = "put", !.now = {}]]
      BY <1>1, <3>1 DEF Blobs!putRename, BlobTypes
    <3> QED BY <3>1, <3>2, <3>3 DEF WriterType
  <2>2. /\ d \in writer[w].now
        /\ file' = [file EXCEPT ![d] = "ok"] /\ aged' = aged \ {d}
        /\ UNCHANGED <<entry, cited, reader, cull, held, spoiled>>
    BY <1>1 DEF Blobs!putRename, Blobs!fileVars, Blobs!rowVars
  <2>3. /\ gc' \in CollectorType /\ gc'.at = gc.at /\ gc'.live = gc.live
        /\ gc'.before = gc.before \ {d} /\ gc'.doomed = gc.doomed
    <3>1. PICK b \in CollectorType : b = gc
      BY DEF BlobTypes
    <3>2. gc' = [b EXCEPT !.before = b.before \ {d}]
      BY <1>1, <3>1 DEF Blobs!putRename
    <3> QED BY <3>1, <3>2 DEF CollectorType
  <2>4. /\ writer' \in [Writers -> WriterType] /\ writer'[w] = x
        /\ \A v \in Writers \ {w} : writer'[v] = writer[v]
    BY <2>1, WriterMoves
  <2>5. BlobTypes'
    BY <2>2, <2>3, <2>4 DEF BlobTypes
  <2>6. file'[d] = "ok" /\ \A e \in Digests \ {d} : file'[e] = file[e]
    BY <2>2 DEF BlobTypes
  <2>7. FaultsAreSpoiled' /\ AgedAreFiles'
    <3>1. FaultsAreSpoiled'
      BY <2>2, <2>6 DEF FaultsAreSpoiled
    <3>2. aged \subseteq Digests /\ gc.doomed \subseteq Digests /\ gc.before \subseteq Digests
      BY DEF BlobTypes, CollectorType
    <3> QED BY <2>2, <2>3, <2>6, <3>1, <3>2 DEF AgedAreFiles
  <2>8. BatchesHold'
    <3>1. \A v \in Writers : /\ writer'[v].at # "write" => writer'[v].now = {}
                             /\ \A b, e \in writer'[v].now : b = e
                             /\ writer'[v].now \subseteq writer'[v].batch \ writer'[v].todo
                             /\ writer'[v].todo \subseteq writer'[v].batch
      BY <2>1, <2>4 DEF BatchesHold
    <3>2. \A v \in Writers : \A e \in Digests : Putting(v, e)' <=> Putting(v, e)
      BY <2>1, <2>4 DEF Putting
    <3>3. \A v \in Writers : \A e \in Digests : v # w => writer'[v].now = writer[v].now
      BY <2>4
    <3>4. \A e \in Digests : e # d => e \notin writer[w].now
      <4>1. writer[w].now \subseteq {d}
        BY <2>2 DEF BatchesHold
      <4> QED BY <4>1
    <3> QED BY <2>1, <2>2, <2>3, <2>4, <2>6, <3>1, <3>2, <3>3, <3>4 DEF BatchesHold
  <2>9. RowsHold'
    BY <2>2, <2>3, <2>6 DEF RowsHold, Row, Passed
  <2> QED BY <2>5, <2>7, <2>8, <2>9
<1>2. CASE Blobs!commit(w)
  <2>1. /\ writer[w].at = "put" /\ writer[w].todo = {}
        /\ entry' = [d \in Digests |->
               IF d \in writer[w].batch /\ writer[w].kind # "finding"
               THEN writer[w].kind ELSE entry[d]]
        /\ cited' = cited \cup (IF writer[w].kind = "finding" THEN writer[w].batch ELSE {})
        /\ writer' = [writer EXCEPT ![w] = Blobs!Free]
        /\ UNCHANGED <<file, aged, reader, gc, cull, held, spoiled>>
    BY <1>2 DEF Blobs!commit, Blobs!fileVars
  <2>2. /\ writer' \in [Writers -> WriterType] /\ writer'[w] = Blobs!Free
        /\ \A v \in Writers \ {w} : writer'[v] = writer[v]
    BY <1>f, <2>1, WriterMoves
  <2>3. BlobTypes'
    <3>1. writer[w].kind \in {"plain", "favoured", "finding"} /\ writer[w].batch \in SUBSET Digests
      BY <1>t DEF WriterType, Blobs!Kinds
    <3>2. entry' \in [Digests -> {"none", "plain", "favoured"}] /\ cited' \in SUBSET Digests
      BY <2>1, <3>1 DEF BlobTypes
    <3> QED BY <2>1, <2>2, <3>2 DEF BlobTypes
  <2>4. BatchesHold'
    BY <1>f, <2>1, <2>2 DEF BatchesHold, Putting
  <2>5. RowsHold'
    <3>1. ASSUME NEW d \in Digests \ (held \cup spoiled), Row(d)'
          PROVE  file[d] = "ok" /\ Passed(d)
      <4>1. CASE d \in writer[w].batch
        <5>1. Putting(w, d) /\ d \notin writer[w].now
          BY <2>1, <4>1 DEF Putting, BatchesHold
        <5> QED BY <5>1 DEF BatchesHold, Passed
      <4>2. CASE d \notin writer[w].batch
        <5>1. Row(d)
          BY <2>1, <3>1, <4>2 DEF Row
        <5> QED BY <5>1 DEF RowsHold
      <4> QED BY <4>1, <4>2
    <3> QED BY <2>1, <3>1 DEF RowsHold, Passed
  <2> QED BY <2>1, <2>3, <2>4, <2>5 DEF FaultsAreSpoiled, AgedAreFiles
<1>3. CASE Blobs!saveFails(w)
  <2>1. /\ writer' = [writer EXCEPT ![w] = Blobs!Free]
        /\ UNCHANGED <<file, aged, entry, cited, reader, gc, cull, held, spoiled>>
    BY <1>3 DEF Blobs!saveFails, Blobs!fileVars, Blobs!rowVars
  <2>2. /\ writer' \in [Writers -> WriterType] /\ writer'[w] = Blobs!Free
        /\ \A v \in Writers \ {w} : writer'[v] = writer[v]
    BY <1>f, <2>1, WriterMoves
  <2>3. BatchesHold'
    BY <1>f, <2>1, <2>2 DEF BatchesHold, Putting
  <2> QED BY <2>1, <2>2, <2>3
          DEF BlobTypes, FaultsAreSpoiled, AgedAreFiles, RowsHold, Row, Passed
<1> QED BY <1>1, <1>2, <1>3

\* Collection takes what was no row, and old, when it began; no batch that has put
\* such a file since has left it to the collector.
LEMMA CollectorSteps == BlobInv /\ Blobs!CollectorStep => BlobInv'
<1> SUFFICES ASSUME BlobInv, Blobs!CollectorStep PROVE BlobInv'
  OBVIOUS
<1> USE DEF BlobInv
<1>t. /\ aged \in SUBSET Digests /\ cited \in SUBSET Digests
      /\ gc \in CollectorType /\ file \in [Digests -> {"none", "ok", "bad"}]
  BY DEF BlobTypes
<1>1. CASE Blobs!CollectBlobs
  <2>1. /\ gc' \in CollectorType /\ gc'.at = "walk" /\ gc'.live = Blobs!Entries \cup cited
        /\ gc'.before = aged /\ gc'.doomed = {}
    <3>1. Blobs!Entries \cup cited \in SUBSET Digests
      BY <1>t DEF Blobs!Entries
    <3> QED BY <1>1, <1>t, <3>1 DEF Blobs!CollectBlobs, CollectorType
  <2>2. UNCHANGED <<file, aged, entry, cited, writer, reader, cull, held, spoiled>>
    BY <1>1 DEF Blobs!CollectBlobs, Blobs!fileVars, Blobs!rowVars
  <2>3. AgedAreFiles' /\ BatchesHold'
    BY <2>1, <2>2 DEF AgedAreFiles, BatchesHold, Putting
  <2>4. RowsHold'
    BY <2>1, <2>2 DEF RowsHold, Row, Passed, Blobs!Entries
  <2> QED BY <2>1, <2>2, <2>3, <2>4 DEF BlobTypes, FaultsAreSpoiled
<1>2. CASE Blobs!collectWalk
  <2>1. PICK dead \in SUBSET Digests : dead = (Blobs!Files \ gc.live) \cap gc.before
    BY DEF Blobs!Files
  <2>2. /\ gc' \in CollectorType /\ gc'.at = "delete" /\ gc'.live = gc.live
        /\ gc'.before = gc.before /\ gc'.doomed = dead
    <3>1. PICK b \in CollectorType : b = gc
      BY <1>t
    <3>2. gc' = [b EXCEPT !.at = "delete", !.doomed = dead]
      BY <1>2, <2>1, <3>1 DEF Blobs!collectWalk
    <3> QED BY <3>1, <3>2 DEF CollectorType
  <2>3. /\ gc.at = "walk"
        /\ UNCHANGED <<file, aged, entry, cited, writer, reader, cull, held, spoiled>>
    BY <1>2 DEF Blobs!collectWalk, Blobs!fileVars, Blobs!rowVars
  <2>4. AgedAreFiles'
    BY <2>1, <2>2, <2>3 DEF AgedAreFiles, Blobs!Files
  <2>5. BatchesHold'
    BY <2>1, <2>2, <2>3 DEF BatchesHold, Putting
  <2>6. RowsHold'
    BY <2>1, <2>2, <2>3 DEF RowsHold, Row, Passed
  <2> QED BY <2>2, <2>3, <2>4, <2>5, <2>6 DEF BlobTypes, FaultsAreSpoiled
<1>3. ASSUME NEW d \in Digests, Blobs!collectDelete(d) PROVE BlobInv'
  <2>1. /\ gc' \in CollectorType /\ gc'.at = gc.at /\ gc'.live = gc.live
        /\ gc'.before = gc.before /\ gc'.doomed = gc.doomed \ {d}
    <3>1. PICK b \in CollectorType : b = gc
      BY <1>t
    <3>2. gc' = [b EXCEPT !.doomed = b.doomed \ {d}]
      BY <1>3, <3>1 DEF Blobs!collectDelete
    <3> QED BY <3>1, <3>2 DEF CollectorType
  <2>2. /\ gc.at = "delete" /\ d \in gc.doomed
        /\ file' = [file EXCEPT ![d] = "none"] /\ aged' = aged \ {d}
        /\ UNCHANGED <<entry, cited, writer, reader, cull, held, spoiled>>
    BY <1>3 DEF Blobs!collectDelete, Blobs!rowVars
  <2>3. file'[d] = "none" /\ \A e \in Digests \ {d} : file'[e] = file[e]
    BY <1>t, <2>2
  <2>4. BlobTypes'
    BY <2>1, <2>2 DEF BlobTypes
  <2>5. FaultsAreSpoiled' /\ AgedAreFiles'
    <3>1. gc.doomed \subseteq Digests
      BY <1>t DEF CollectorType
    <3> QED BY <1>t, <2>1, <2>2, <2>3, <3>1 DEF FaultsAreSpoiled, AgedAreFiles
  <2>6. BatchesHold'
    <3>1. \A v \in Writers : \A e \in Digests : Putting(v, e)' <=> Putting(v, e)
      BY <2>2 DEF Putting
    <3> QED BY <2>1, <2>2, <2>3, <3>1 DEF BatchesHold
  <2>7. RowsHold'
    BY <2>1, <2>2, <2>3 DEF RowsHold, Row, Passed
  <2> QED BY <2>4, <2>5, <2>6, <2>7
<1>4. CASE Blobs!collectEnd
  <2>1. /\ gc' \in CollectorType /\ gc'.at = "idle" /\ gc'.doomed = {}
    BY <1>4 DEF Blobs!collectEnd, Blobs!Rested, CollectorType
  <2>2. UNCHANGED <<file, aged, entry, cited, writer, reader, cull, held, spoiled>>
    BY <1>4 DEF Blobs!collectEnd, Blobs!fileVars, Blobs!rowVars
  <2>3. AgedAreFiles' /\ BatchesHold' /\ RowsHold'
    BY <2>1, <2>2 DEF AgedAreFiles, BatchesHold, Putting, RowsHold, Row, Passed
  <2> QED BY <2>1, <2>2, <2>3 DEF BlobTypes, FaultsAreSpoiled
<1> QED BY <1>1, <1>2, <1>3, <1>4 DEF Blobs!CollectorStep

\* Culling takes rows and no file.
LEMMA CullSteps ==
    ASSUME BlobInv, Blobs!Enforce \/ \E gone \in SUBSET Digests : Blobs!enforceDelete(gone)
    PROVE  BlobInv'
<1> USE DEF BlobInv
<1>1. CASE Blobs!Enforce
  <2>1. cull' \in CullType
    <3>1. Blobs!Entries \in SUBSET Digests /\ cited \in SUBSET Digests
      BY DEF Blobs!Entries, BlobTypes
    <3> QED BY <1>1, <3>1 DEF Blobs!Enforce, CullType
  <2>2. UNCHANGED <<file, aged, entry, cited, writer, reader, gc, held, spoiled>>
    BY <1>1 DEF Blobs!Enforce, Blobs!fileVars, Blobs!rowVars
  <2> QED BY <2>1, <2>2 DEF BlobTypes, FaultsAreSpoiled, AgedAreFiles, BatchesHold, Putting,
                            RowsHold, Row, Passed
<1>2. ASSUME NEW gone \in SUBSET Digests, Blobs!enforceDelete(gone) PROVE BlobInv'
  <2>1. /\ entry' = [d \in Digests |-> IF d \in gone THEN "none" ELSE entry[d]]
        /\ cull' = Blobs!NoCull
        /\ UNCHANGED <<file, aged, cited, writer, reader, gc, held, spoiled>>
    BY <1>2 DEF Blobs!enforceDelete, Blobs!fileVars
  <2>2. cull' \in CullType
    BY <2>1 DEF Blobs!NoCull, CullType
  <2>3. \A d \in Digests : Row(d)' => Row(d)
    BY <2>1 DEF Row
  <2>4. RowsHold'
    BY <2>1, <2>3 DEF RowsHold, Passed
  <2> QED BY <2>1, <2>2, <2>4 DEF BlobTypes, FaultsAreSpoiled, AgedAreFiles, BatchesHold, Putting
<1> QED BY <1>1, <1>2

\* Time, damage, readers that move a damaged file aside, and a crash.
LEMMA FaultSteps ==
    ASSUME BlobInv,
           \/ \E d \in Digests : Blobs!Age(d) \/ Blobs!Spoil(d)
           \/ \E r \in Readers, d \in Digests : Blobs!Get(r, d) \/ Blobs!Quarantine(r, d)
           \/ Blobs!Crash
    PROVE  BlobInv'
<1> USE DEF BlobInv
<1>t. /\ aged \in SUBSET Digests /\ gc.doomed \in SUBSET Digests /\ gc.before \in SUBSET Digests
      /\ file \in [Digests -> {"none", "ok", "bad"}]
  BY DEF BlobTypes, CollectorType
<1>1. ASSUME NEW d \in Digests, Blobs!Age(d) PROVE BlobInv'
  <2>1. /\ file[d] # "none" /\ aged' = aged \cup {d}
        /\ \A w \in Writers : d \in writer[w].batch \ writer[w].todo => d \in held
        /\ UNCHANGED <<file, entry, cited, writer, reader, gc, cull, held, spoiled>>
    BY <1>1 DEF Blobs!Age, Blobs!rowVars
  <2>2. BatchesHold'
    BY <2>1 DEF BatchesHold, Putting
  <2> QED BY <2>1, <2>2 DEF BlobTypes, FaultsAreSpoiled, AgedAreFiles, RowsHold, Row, Passed
<1>2. ASSUME NEW d \in Digests, Blobs!Spoil(d) PROVE BlobInv'
  <2>1. /\ file' = [file EXCEPT ![d] = "bad"] /\ spoiled' = spoiled \cup {d}
        /\ UNCHANGED <<aged, entry, cited, writer, reader, gc, cull, held>>
    BY <1>2 DEF Blobs!Spoil, Blobs!rowVars
  <2>2. file'[d] = "bad" /\ \A e \in Digests \ {d} : file'[e] = file[e]
    BY <1>t, <2>1
  <2>3. \A v \in Writers : \A e \in Digests : Putting(v, e)' <=> Putting(v, e)
    BY <2>1 DEF Putting
  <2>4. BatchesHold'
    BY <2>1, <2>2, <2>3 DEF BatchesHold
  <2>5. RowsHold' /\ AgedAreFiles' /\ FaultsAreSpoiled'
    BY <1>t, <2>1, <2>2 DEF RowsHold, Row, Passed, AgedAreFiles, FaultsAreSpoiled
  <2> QED BY <2>1, <2>4, <2>5 DEF BlobTypes
<1>3. ASSUME NEW r \in Readers, NEW d \in Digests, Blobs!Get(r, d) PROVE BlobInv'
  <2>1. /\ file[d] = "bad" /\ reader' = [reader EXCEPT ![r] = {d}]
        /\ UNCHANGED <<file, aged, entry, cited, writer, gc, cull, held, spoiled>>
    BY <1>3 DEF Blobs!Get, Blobs!fileVars, Blobs!rowVars
  <2>2. FaultsAreSpoiled' /\ reader' \in [Readers -> SUBSET Digests]
    BY <2>1 DEF FaultsAreSpoiled, BlobTypes
  <2> QED BY <2>1, <2>2 DEF BlobTypes, AgedAreFiles, BatchesHold, Putting, RowsHold, Row, Passed
<1>4. ASSUME NEW r \in Readers, NEW d \in Digests, Blobs!Quarantine(r, d) PROVE BlobInv'
  <2>1. /\ d \in reader[r] /\ file' = [file EXCEPT ![d] = "none"] /\ aged' = aged \ {d}
        /\ reader' = [reader EXCEPT ![r] = {}]
        /\ UNCHANGED <<entry, cited, writer, gc, cull, held, spoiled>>
    BY <1>4 DEF Blobs!Quarantine, Blobs!rowVars
  <2>2. d \in spoiled
    BY <2>1 DEF FaultsAreSpoiled
  <2>3. file'[d] = "none" /\ \A e \in Digests \ {d} : file'[e] = file[e]
    BY <1>t, <2>1
  <2>4. \A v \in Writers : \A e \in Digests : Putting(v, e)' <=> Putting(v, e)
    BY <2>1 DEF Putting
  <2>5. BatchesHold' /\ RowsHold'
    BY <2>1, <2>2, <2>3, <2>4 DEF BatchesHold, RowsHold, Row, Passed
  <2>6. AgedAreFiles' /\ FaultsAreSpoiled'
    BY <1>t, <2>1, <2>2, <2>3 DEF AgedAreFiles, FaultsAreSpoiled, BlobTypes
  <2> QED BY <2>1, <2>5, <2>6 DEF BlobTypes
<1>5. CASE Blobs!Crash
  <2>1. /\ writer' = [w \in Writers |-> Blobs!Free] /\ reader' = [r \in Readers |-> {}]
        /\ gc' = Blobs!Rested /\ cull' = Blobs!NoCull
        /\ UNCHANGED <<file, aged, entry, cited, held, spoiled>>
    BY <1>5 DEF Blobs!Crash, Blobs!fileVars, Blobs!rowVars
  <2>2. BlobTypes'
    BY <2>1 DEF BlobTypes, Blobs!Free, Blobs!Rested, Blobs!NoCull, WriterType, CollectorType,
                CullType, Blobs!Kinds
  <2>3. FaultsAreSpoiled' /\ AgedAreFiles'
    BY <2>1 DEF FaultsAreSpoiled, AgedAreFiles, Blobs!Rested
  <2>4. BatchesHold' /\ RowsHold'
    BY <2>1 DEF BatchesHold, Putting, RowsHold, Row, Passed, Blobs!Free, Blobs!Rested
  <2> QED BY <2>2, <2>3, <2>4
<1> QED BY <1>1, <1>2, <1>3, <1>4, <1>5

LEMMA StepBlobInv == BlobInv /\ [Next]_vars => BlobInv'
<1>1. BlobInv /\ UNCHANGED blobVars => BlobInv'
  BY DEF blobVars, BlobInv, BlobTypes, FaultsAreSpoiled, AgedAreFiles, BatchesHold, RowsHold,
         Row, Putting, Passed
<1>2. BlobInv /\ Blobs!Next => BlobInv'
  BY WriterPuts, WriterEnds, CollectorSteps, CullSteps, FaultSteps DEF Blobs!Next, Blobs!WriterStep
<1> QED BY <1>1, <1>2 DEF Next, vars, storeVars

\* Wherever crashes, failed batches, culls, collections and damage fall, a row whose
\* payload its own batch wrote, and no fault touched, has that payload.
THEOREM PayloadsCorrect == Spec => [](Blobs!TypeOK /\ Blobs!RowsHavePayloads)
<1> DEFINE Sound == Blobs!TypeOK /\ Blobs!RowsHavePayloads
<1>1. BlobInv => Sound
  BY DEF BlobInv, BlobTypes, WriterType, CollectorType, CullType, AgedAreFiles, RowsHold, Row,
         Blobs!TypeOK, Blobs!RowsHavePayloads, Blobs!Entries, Blobs!Files
<1> HIDE DEF Sound
<1>2. Spec => []Sound
  BY <1>1, InitBlobInv, StepBlobInv, PTL DEF Spec
<1> QED BY <1>2 DEF Sound

-----------------------------------------------------------------------------
(* The audit log (AuditLog).                                                 *)

\* An entry says what its number is, and so does its hash, whoever changed it.
IsEntry(e) ==
    /\ e = [id |-> e.id, text |-> e.text, prev |-> e.prev, hash |-> e.hash]
    /\ e.id \in Nat
    /\ \E text, prev : e.hash = <<e.id, text, prev>>

AuditTypes ==
    \E S : (\A e \in S : IsEntry(e)) /\ log \in Seq(S) /\ saved \in Seq(S)

\* As long as no Audit chained to a log that ended elsewhere, what Audit wrote is a
\* chain that ends at the recorded head.
AuditInv == AuditTypes /\ (sealed => Audits!VerifyAudit(saved, head))

\* Two chains that end in one hash are one chain: each hash determines its entry
\* and the hash before it, down to the first.
LEMMA ChainIsDetermined ==
    ASSUME NEW S, \A e \in S : IsEntry(e), NEW a \in Seq(S), NEW b \in Seq(S), NEW h,
           Audits!VerifyAudit(a, h), Audits!VerifyAudit(b, h)
    PROVE  a = b
<1> USE DEF Audits!VerifyAudit, Audits!LastHash, Audits!NoHash
<1>1. Len(a) \in Nat /\ Len(b) \in Nat
      /\ (\A i \in 1 .. Len(a) : a[i] \in S) /\ (\A i \in 1 .. Len(b) : b[i] \in S)
  OBVIOUS
<1>2. \A e \in S : e.hash # << >>
  <2> SUFFICES ASSUME NEW e \in S PROVE e.hash # << >>
    OBVIOUS
  <2>1. PICK text, prev : e.hash = <<e.id, text, prev>>
    BY DEF IsEntry
  <2> QED BY <2>1
<1>3. a = << >> <=> b = << >>
  <2>1. a # << >> => Len(a) \in 1 .. Len(a)
    BY <1>1
  <2>2. b # << >> => Len(b) \in 1 .. Len(b)
    BY <1>1
  <2> QED BY <1>1, <1>2, <2>1, <2>2
<1>4. ASSUME a # << >> PROVE a = b
  <2> DEFINE n == Len(a)
             Differ == {k \in Nat : k < n /\ a[n - k] # b[n - k]}
  <2>1. n \in 1 .. Len(a) /\ Len(b) \in 1 .. Len(b)
    BY <1>1, <1>3, <1>4
  \* The hash of the last entry tells its number, which is the length.
  <2>2. n = Len(b) /\ a[n].hash = b[n].hash
    <3>1. a[n].hash = b[Len(b)].hash
      BY <1>3, <1>4
    <3>2. a[n].hash = Audits!auditHash(a[n].id, a[n].text, a[n].prev) /\ a[n].id = n
      BY <2>1
    <3>3. /\ b[Len(b)].id = Len(b)
          /\ b[Len(b)].hash = Audits!auditHash(b[Len(b)].id, b[Len(b)].text, b[Len(b)].prev)
      BY <2>1
    <3>4. n = Len(b)
      <4>1. <<a[n].id, a[n].text, a[n].prev>>
                = <<b[Len(b)].id, b[Len(b)].text, b[Len(b)].prev>>
        BY ONLY <3>1, <3>2, <3>3 DEF Audits!auditHash
      <4> QED BY ONLY <3>2, <3>3, <4>1
    <3> QED BY <3>1, <3>4
  \* Equal hashes: equal entries.
  <2>3. ASSUME NEW i \in 1 .. n, a[i].hash = b[i].hash
        PROVE  a[i] = b[i]
    <3>1. /\ a[i].hash = <<a[i].id, a[i].text, a[i].prev>>
          /\ b[i].hash = <<b[i].id, b[i].text, b[i].prev>>
      BY <2>2 DEF Audits!auditHash
    <3>2. a[i].id = b[i].id /\ a[i].text = b[i].text /\ a[i].prev = b[i].prev
      <4>1. <<a[i].id, a[i].text, a[i].prev>> = <<b[i].id, b[i].text, b[i].prev>>
        BY ONLY <2>3, <3>1
      <4> QED BY ONLY <4>1
    <3>3. a[i] \in S /\ b[i] \in S
      BY <1>1, <2>2
    <3> QED BY <2>3, <3>2, <3>3 DEF IsEntry
  <2>4. Differ = {}
    <3> SUFFICES ASSUME Differ # {} PROVE FALSE
      OBVIOUS
    <3>1. Differ \subseteq Nat
      OBVIOUS
    <3> HIDE DEF Differ
    <3>2. PICK k \in Differ : \A j \in Differ : <<j, k>> \notin OpToRel(<, Nat)
      BY ONLY <3>1, Differ # {}, WFMin, NatLessThanWellFounded
    <3>3. k \in Nat /\ k < n /\ a[n - k] # b[n - k]
      BY DEF Differ
    <3>4. k = 0 => FALSE
      BY <2>1, <2>2, <2>3, <3>3
    <3>5. ASSUME k # 0 PROVE FALSE
      <4>1. k - 1 \in Nat /\ k - 1 < n /\ <<k - 1, k>> \in OpToRel(<, Nat)
        BY <3>3, <3>5 DEF OpToRel
      <4>2. k - 1 \notin Differ
        BY <3>2, <4>1
      <4>3. a[n - (k - 1)] = b[n - (k - 1)]
        BY <4>1, <4>2 DEF Differ
      <4>4. PICK i \in 1 .. n : i = n - (k - 1) /\ i # 1 /\ i - 1 = n - k
        <5>1. n \in Nat
          BY <1>1
        <5>2. n - (k - 1) \in 1 .. n /\ n - (k - 1) # 1 /\ n - (k - 1) - 1 = n - k
          BY ONLY <3>3, <3>5, <5>1
        <5> QED BY ONLY <5>2
      <4>5. a[i].prev = a[i - 1].hash /\ b[i].prev = b[i - 1].hash
        BY <2>2, <4>4
      <4>6. a[n - k].hash = b[n - k].hash /\ n - k \in 1 .. n
        BY <4>3, <4>4, <4>5
      <4> QED BY <2>3, <3>3, <4>6
    <3> QED BY <3>4, <3>5
  <2>5. \A i \in 1 .. n : a[i] = b[i]
    <3> SUFFICES ASSUME NEW i \in 1 .. n PROVE a[i] = b[i]
      OBVIOUS
    <3>1. n - i \in Nat /\ n - i < n /\ n - (n - i) = i
      BY <1>1
    <3>2. n - i \notin Differ
      BY <2>4
    <3> QED BY <3>1, <3>2
  <2> QED BY <2>2, <2>5, SeqEqual
<1> QED BY <1>3, <1>4

\* A change of the log that was not made by Audit leaves entries behind.
LEMMA EditedTypes ==
    ASSUME AuditTypes, NEW T, \A e \in T : IsEntry(e), log' \in Seq(T), saved' = saved
    PROVE  AuditTypes'
<1>1. PICK S : (\A e \in S : IsEntry(e)) /\ saved \in Seq(S)
  BY DEF AuditTypes
<1>2. log' \in Seq(S \cup T) /\ saved' \in Seq(S \cup T)
  BY <1>1
<1>3. \A e \in S \cup T : IsEntry(e)
  BY <1>1
<1>4. \E U : (\A e \in U : IsEntry(e)) /\ log' \in Seq(U) /\ saved' \in Seq(U)
  BY ONLY <1>2, <1>3
<1> QED BY <1>4 DEF AuditTypes, IsEntry

\* Audit appends to the chain it wrote, unless the log no longer ends where it did.
LEMMA AuditStep ==
    ASSUME AuditInv, NEW text, Audits!Audit(text)
    PROVE  AuditInv'
<1> DEFINE last == Audits!LastHash(log)
           e == [id |-> Audits!LastID(log) + 1, text |-> text, prev |-> last,
                 hash |-> Audits!auditHash(Audits!LastID(log) + 1, text, last)]
<1>1. /\ log' = Append(log, e) /\ head' = e.hash /\ saved' = Append(saved, e)
      /\ sealed' = (sealed /\ last = head)
  BY DEF Audits!Audit
<1>2. PICK S : (\A x \in S : IsEntry(x)) /\ log \in Seq(S) /\ saved \in Seq(S)
  BY DEF AuditInv, AuditTypes
<1>l. /\ Len(log) \in Nat /\ Len(saved) \in Nat
      /\ log # << >> => Len(log) \in 1 .. Len(log) /\ log[Len(log)] \in S
      /\ saved # << >> => Len(saved) \in 1 .. Len(saved) /\ saved[Len(saved)] \in S
  BY <1>2
<1>3. Audits!LastID(log) \in Nat
  BY <1>2, <1>l DEF Audits!LastID, IsEntry
<1>4. IsEntry(e)
  BY <1>3 DEF IsEntry, Audits!auditHash
<1>5. AuditTypes'
  <2>1. PICK y : y = e
    OBVIOUS
  <2> HIDE DEF e
  <2>2. log' \in Seq(S \cup {y}) /\ saved' \in Seq(S \cup {y})
    BY <1>1, <1>2, <2>1
  <2>3. \A x \in S \cup {y} : IsEntry(x)
    BY <1>2, <1>4, <2>1
  <2>4. \E U : (\A x \in U : IsEntry(x)) /\ log' \in Seq(U) /\ saved' \in Seq(U)
    BY ONLY <2>2, <2>3
  <2> QED BY <2>4 DEF AuditTypes, IsEntry
<1>6. ASSUME sealed' PROVE Audits!VerifyAudit(saved', head')
  <2>1. Audits!VerifyAudit(saved, head) /\ Audits!LastHash(saved) = last
    BY <1>1, <1>6 DEF AuditInv, Audits!VerifyAudit
  \* The number after that of the last entry of the log is the next one.
  <2>2. Audits!LastID(log) = Len(saved)
    <3>1. ASSUME NEW l \in Seq(S), l # << >>
          PROVE  /\ l[Len(l)] \in S /\ Len(l) \in 1 .. Len(l)
                 /\ \E t, p : Audits!LastHash(l) = <<Audits!LastID(l), t, p>>
      <4>1. Len(l) \in 1 .. Len(l) /\ l[Len(l)] \in S
        BY <3>1
      <4> QED BY <1>2, <3>1, <4>1 DEF IsEntry, Audits!LastHash, Audits!LastID
    <3>2. CASE log = << >>
      <4>1. last = << >>
        BY <3>2 DEF Audits!LastHash, Audits!NoHash
      <4>2. saved = << >>
        <5> SUFFICES ASSUME saved # << >> PROVE FALSE
          OBVIOUS
        <5>1. PICK t, p : last = <<Audits!LastID(saved), t, p>>
          BY <1>2, <2>1, <3>1
        <5> QED BY ONLY <4>1, <5>1
      <4> QED BY <3>2, <4>2 DEF Audits!LastID
    <3>3. CASE log # << >>
      <4>1. PICK t, p : last = <<Audits!LastID(log), t, p>>
        BY <1>2, <3>1, <3>3
      <4>2. saved # << >>
        <5> SUFFICES ASSUME saved = << >> PROVE FALSE
          OBVIOUS
        <5>1. last = << >>
          BY <2>1 DEF Audits!LastHash, Audits!NoHash
        <5> QED BY ONLY <4>1, <5>1
      <4>3. PICK u, q : last = <<Audits!LastID(saved), u, q>>
        BY <1>2, <2>1, <3>1, <4>2
      <4>4. Audits!LastID(log) = Audits!LastID(saved)
        BY ONLY <4>1, <4>3
      <4>5. Audits!LastID(saved) = Len(saved)
        BY <1>l, <2>1, <4>2 DEF Audits!LastID, Audits!VerifyAudit
      <4> QED BY <4>4, <4>5
    <3> QED BY <3>2, <3>3
  <2>3. /\ e.id = Len(saved) + 1 /\ e.prev = Audits!LastHash(saved)
        /\ e.hash = Audits!auditHash(e.id, e.text, e.prev)
    BY <2>1, <2>2
  <2>4. PICK y : y = e
    OBVIOUS
  <2>5. IsEntry(y) /\ saved' = Append(saved, y) /\ head' = y.hash
        /\ y.id = Len(saved) + 1 /\ y.prev = Audits!LastHash(saved)
        /\ y.hash = Audits!auditHash(y.id, y.text, y.prev)
    BY <1>1, <1>4, <2>3, <2>4
  <2> HIDE DEF e, last
  <2>6. /\ Len(saved') = Len(saved) + 1 /\ saved'[Len(saved) + 1] = y
        /\ \A i \in 1 .. Len(saved) : saved'[i] = saved[i]
        /\ saved' # << >>
    BY <1>2, <1>l, <2>5
  <2>7. ASSUME NEW i \in 1 .. Len(saved')
        PROVE  /\ saved'[i].id = i
               /\ saved'[i].prev = (IF i = 1 THEN Audits!NoHash ELSE saved'[i - 1].hash)
               /\ saved'[i].hash = Audits!auditHash(saved'[i].id, saved'[i].text, saved'[i].prev)
    <3>1. CASE i = Len(saved) + 1
      <4>1. saved'[i] = y
        BY <2>6, <3>1
      <4>2. CASE saved = << >>
        <5>1. i = 1
          BY <3>1, <4>2
        <5> QED BY <2>5, <4>1, <4>2, <5>1, <3>1 DEF Audits!LastHash
      <4>3. CASE saved # << >>
        <5>1. i # 1 /\ i - 1 = Len(saved) /\ saved'[i - 1] = saved[Len(saved)]
          BY <1>l, <2>6, <3>1, <4>3
        <5>2. y.prev = saved'[i - 1].hash
          BY <2>5, <4>3, <5>1 DEF Audits!LastHash
        <5> QED BY <2>5, <3>1, <4>1, <5>1, <5>2
      <4> QED BY <4>2, <4>3
    <3>2. CASE i # Len(saved) + 1
      <4>1. i \in 1 .. Len(saved) /\ saved'[i] = saved[i]
            /\ (i # 1 => saved'[i - 1] = saved[i - 1])
        BY <1>l, <2>6, <3>2
      <4> QED BY <2>1, <4>1 DEF Audits!VerifyAudit
    <3> QED BY <3>1, <3>2
  <2>8. head' = Audits!LastHash(saved')
    BY <2>5, <2>6 DEF Audits!LastHash
  <2> QED BY <2>7, <2>8 DEF Audits!VerifyAudit
<1> QED BY <1>5, <1>6 DEF AuditInv

\* Whatever is changed in the table, entries are left, and the record of what Audit
\* wrote stays as it was.
LEMMA EditStep ==
    ASSUME AuditInv, NEW i \in 1 .. Len(log),
           \/ \E t \in Texts : Audits!rewrite(i, t)
           \/ Audits!remove(i) \/ Audits!rechain(i)
    PROVE  AuditInv'
<1>1. PICK S : (\A x \in S : IsEntry(x)) /\ log \in Seq(S) /\ saved \in Seq(S)
  BY DEF AuditInv, AuditTypes
<1>2. Len(log) \in Nat /\ \A j \in 1 .. Len(log) : log[j] \in S
  BY <1>1
<1>k. UNCHANGED <<head, saved, sealed>>
  BY DEF Audits!rewrite, Audits!remove, Audits!rechain, Audits!Edited
\* The log of entries of some set is all that is left to show.
<1>e. ASSUME NEW T, \A x \in T : IsEntry(x), log' \in Seq(T)
      PROVE  AuditInv'
  <2>1. AuditTypes
    BY DEF AuditInv
  <2>2. AuditTypes'
    BY ONLY <1>e, <1>k, <2>1, EditedTypes
  <2> QED BY <1>k, <2>2 DEF AuditInv, Audits!VerifyAudit, Audits!LastHash
\* One entry is replaced by another.
<1>r. ASSUME NEW x, IsEntry(x), log' = [log EXCEPT ![i] = x]
      PROVE  AuditInv'
  <2>1. log' \in Seq(S \cup {x})
    <3>1. log \in Seq(S \cup {x}) /\ x \in S \cup {x}
      BY <1>1
    <3> QED BY ONLY <1>r, <3>1, i \in 1 .. Len(log), ExceptSeq
  <2>2. \A y \in S \cup {x} : IsEntry(y)
    BY <1>1, <1>r
  <2> QED BY ONLY <1>e, <2>1, <2>2
<1>n. PICK n, x, p, h : /\ log[i] = [id |-> n, text |-> x, prev |-> p, hash |-> h]
                        /\ n \in Nat /\ \E t, q : h = <<n, t, q>>
  <2>1. IsEntry(log[i])
    BY <1>1, <1>2
  <2>2. /\ log[i] = [id |-> log[i].id, text |-> log[i].text, prev |-> log[i].prev,
                     hash |-> log[i].hash]
        /\ log[i].id \in Nat /\ \E t, q : log[i].hash = <<log[i].id, t, q>>
    BY <2>1 DEF IsEntry
  <2> QED BY ONLY <2>2
<1>3. ASSUME NEW t \in Texts, Audits!rewrite(i, t) PROVE AuditInv'
  <2>1. CASE Audits!Edited([log EXCEPT ![i].text = t])
    <3>1. log' = [log EXCEPT ![i] = [id |-> n, text |-> t, prev |-> p, hash |-> h]]
      <4>1. log' = [log EXCEPT ![i] = [log[i] EXCEPT !.text = t]]
        BY <2>1 DEF Audits!Edited
      <4>2. [log[i] EXCEPT !.text = t] = [id |-> n, text |-> t, prev |-> p, hash |-> h]
        BY ONLY <1>n
      <4> QED BY ONLY <4>1, <4>2
    <3>2. IsEntry([id |-> n, text |-> t, prev |-> p, hash |-> h])
      BY <1>n DEF IsEntry
    <3> QED BY <1>r, <3>1, <3>2
  <2>2. CASE Audits!Edited([log EXCEPT ![i] =
                               [id |-> @.id, text |-> t, prev |-> @.prev,
                                hash |-> Audits!auditHash(@.id, t, @.prev)]])
    <3>1. log' = [log EXCEPT ![i] = [id |-> n, text |-> t, prev |-> p, hash |-> <<n, t, p>>]]
      <4>1. log[i].id = n /\ log[i].prev = p
        BY <1>n
      <4> QED BY <2>2, <4>1 DEF Audits!Edited, Audits!auditHash
    <3>2. IsEntry([id |-> n, text |-> t, prev |-> p, hash |-> <<n, t, p>>])
      BY <1>n DEF IsEntry
    <3> QED BY <1>r, <3>1, <3>2
  <2> QED BY <1>3, <2>1, <2>2 DEF Audits!rewrite
<1>4. CASE Audits!remove(i)
  <2>1. log' = SubSeq(log, 1, i - 1) \o SubSeq(log, i + 1, Len(log))
    BY <1>4 DEF Audits!remove, Audits!Edited, Audits!Without
  <2>2. i \in Nat /\ i >= 1 /\ i <= Len(log)
    BY <1>2
  <2>3. SubSeq(log, 1, i - 1) \in Seq(S)
    <3>1. 1 \in Int /\ i - 1 \in Int /\ \A j \in 1 .. (i - 1) : log[j] \in S
      BY <1>2, <2>2
    <3> QED BY ONLY <3>1, SubSeqProperties
  <2>4. SubSeq(log, i + 1, Len(log)) \in Seq(S)
    <3>1. i + 1 \in Int /\ Len(log) \in Int /\ \A j \in (i + 1) .. Len(log) : log[j] \in S
      BY <1>2, <2>2
    <3> QED BY ONLY <3>1, SubSeqProperties
  <2>5. log' \in Seq(S)
    BY ONLY <2>1, <2>3, <2>4, ConcatProperties
  <2> QED BY <1>1, <1>e, <2>5
<1>5. CASE Audits!rechain(i)
  <2>1. PICK link : log' = [j \in 1 .. Len(log) |->
                        IF j < i THEN log[j]
                        ELSE [id |-> j, text |-> log[j].text, prev |-> link[j - 1],
                              hash |-> <<j, log[j].text, link[j - 1]>>]]
    BY <1>5 DEF Audits!rechain, Audits!Edited, Audits!auditHash
  <2> DEFINE Linked(j) == IF j < i THEN log[j]
                            ELSE [id |-> j, text |-> log[j].text, prev |-> link[j - 1],
                                  hash |-> <<j, log[j].text, link[j - 1]>>]
             T == {Linked(j) : j \in 1 .. Len(log)}
  <2>2. ASSUME NEW j \in 1 .. Len(log) PROVE IsEntry(Linked(j))
    <3>1. j < i => Linked(j) = log[j]
      OBVIOUS
    <3>2. ~(j < i) => Linked(j) = [id |-> j, text |-> log[j].text, prev |-> link[j - 1],
                              hash |-> <<j, log[j].text, link[j - 1]>>]
      OBVIOUS
    <3> HIDE DEF Linked
    <3>3. CASE j < i
      BY <1>1, <1>2, <3>1, <3>3
    <3>4. CASE ~(j < i)
      <4>1. j \in Nat
        BY <1>2
      <4> QED BY ONLY <3>2, <3>4, <4>1 DEF IsEntry
    <3> QED BY <3>3, <3>4
  <2>3. log' = [j \in 1 .. Len(log) |-> Linked(j)]
    BY <2>1
  <2> HIDE DEF Linked
  <2>4. log' \in [1 .. Len(log) -> T]
    BY <2>3
  <2> HIDE DEF T
  <2>5. log' \in Seq(T)
    BY ONLY <1>2, <2>4
  <2>6. \A y \in T : IsEntry(y)
    BY <2>2 DEF T
  <2> QED BY ONLY <1>e, <2>5, <2>6
<1> QED BY <1>3, <1>4, <1>5

LEMMA AuditInvariant == (Init => AuditInv) /\ (AuditInv /\ [Next]_vars => AuditInv')
<1>1. Init => AuditInv
  <2> SUFFICES ASSUME Audits!Init PROVE AuditInv
    BY DEF Init
  <2>1. \A x \in {} : IsEntry(x)
    OBVIOUS
  <2>2. log \in Seq({}) /\ saved \in Seq({})
    BY DEF Audits!Init
  <2>3. \E S : (\A x \in S : IsEntry(x)) /\ log \in Seq(S) /\ saved \in Seq(S)
    BY ONLY <2>1, <2>2
  <2> QED BY <2>3
          DEF Audits!Init, Audits!NoHash, Audits!VerifyAudit, Audits!LastHash, AuditInv, AuditTypes
<1>2. AuditInv /\ UNCHANGED auditVars => AuditInv'
  BY DEF auditVars, AuditInv, AuditTypes, IsEntry, Audits!VerifyAudit, Audits!LastHash
<1>3. AuditInv /\ Audits!Next => AuditInv'
  BY AuditStep, EditStep DEF Audits!Next
<1> QED BY <1>1, <1>2, <1>3 DEF Next, vars, storeVars

\* The audit log verifies exactly when it is what Audit wrote, for changes of any
\* number and kind, unless an Audit overwrote the head of a changed log.
THEOREM TamperingShows == Spec => []Audits!VerifiesIffIntact
<1>1. AuditInv => Audits!VerifiesIffIntact
  <2> SUFFICES ASSUME AuditInv, sealed PROVE Audits!VerifyAudit(log, head) <=> log = saved
    BY DEF Audits!VerifiesIffIntact
  <2>1. Audits!VerifyAudit(saved, head)
    BY DEF AuditInv
  <2>2. PICK S : (\A x \in S : IsEntry(x)) /\ log \in Seq(S) /\ saved \in Seq(S)
    BY DEF AuditInv, AuditTypes
  <2>3. Audits!VerifyAudit(log, head) => log = saved
    BY ONLY <2>1, <2>2, ChainIsDetermined
  <2> QED BY <2>1, <2>3
<1> QED BY <1>1, AuditInvariant, PTL DEF Spec

\* Rows have their payloads, and the audit log shows what was changed.
THEOREM StorageCorrect == Spec => []StoreIsSound
<1> DEFINE Sound == Blobs!TypeOK /\ Blobs!RowsHavePayloads
           Shows == Audits!VerifiesIffIntact
<1>1. Spec => []Sound
  BY PayloadsCorrect
<1>2. Spec => []Shows
  BY TamperingShows
<1>3. Sound /\ Shows => StoreIsSound
  BY DEF StoreIsSound
<1> HIDE DEF Sound, Shows
<1> QED BY <1>1, <1>2, <1>3, PTL

-----------------------------------------------------------------------------
(* The findings (Findings).                                                  *)

PumpType ==
    {Finds!Idle} \cup [at : {"saved", "filed"}, id : Digests \cup {NoID}, bucket : Signatures]

CallType ==
    {Finds!Idle} \cup [at : {"Replay", "Minimize"}, id : Digests, seen : Finds!Row]

Rows == [Digests -> Finds!Row \cup {NoRow}]

FindTypes ==
    /\ row \in Rows
    /\ DOMAIN bucket \subseteq Signatures /\ bucket \in [DOMAIN bucket -> Nat]
    /\ DOMAIN bucketOf \subseteq Digests \cup {NoID}
    /\ bucketOf \in [DOMAIN bucketOf -> Signatures]
    /\ pump \in [Pumps -> PumpType] /\ call \in [Handlers -> CallType]
    /\ queue \in Seq(Digests \cup {NoID}) /\ Len(queue) <= QueueCap
    /\ dropped \in Nat /\ failed \in SUBSET (Digests \cup {NoID})

\* Where the job of a finding is.
Has(p, d) == pump[p].at # "idle" /\ pump[p].id = d
Queued(d) == \E i \in 1 .. Len(queue) : queue[i] = d
Triaging(d) == triager.at # "idle" /\ triager.id = d

\* Whatever is under way is about a finding of the table.
JobsHaveRows ==
    \A d \in Digests :
        (\E p \in Pumps : Has(p, d)) \/ Queued(d) \/ Triaging(d) => row[d] # NoRow
CallsHaveRows == \A h \in Handlers : call[h].at # "idle" => row[call[h].id] # NoRow
RowsExist == JobsHaveRows /\ CallsHaveRows

\* A report has one pump, which alone files and submits it: nobody is triaging the
\* finding meanwhile, and its bucket is the provisional one.
PumpsOwn ==
    \A d \in Digests : \A p \in Pumps : Has(p, d) =>
        /\ ~Queued(d) /\ ~Triaging(d) /\ row[d].bucket = pump[p].bucket
        /\ \A q \in Pumps : Has(q, d) => q = p

\* What the triage goroutine has in hand at each of its positions.
TriagerHolds ==
    /\ triager.at \in {"idle", "busy", "read", "updated", "moved"}
    /\ triager.at # "idle" => triager.id \in Digests \cup {NoID}
    /\ triager.at \in {"read", "updated", "moved"} => triager.id \in Digests
    /\ triager.at = "read" =>
           triager.verdict.state \in Finds!States \ {"new"} /\ triager.seen \in Finds!Row
    /\ triager.at \in {"updated", "moved"} => row[triager.id].state # "new"
    /\ triager.at = "moved" =>
           triager.bucket \in Signatures /\ triager.bucket = row[triager.id].bucket

FindInv ==
    /\ FindTypes /\ RowsExist /\ PumpsOwn /\ TriagerHolds
    /\ Finds!CountsAreExact /\ Finds!BucketOfAgrees /\ Finds!NewIsAccountedFor

\* Of each finding there is a row exactly when there was one, in the same bucket.
SameBuckets ==
    \A d \in Digests :
        /\ row'[d] # NoRow <=> row[d] # NoRow
        /\ row[d] # NoRow => row'[d].bucket = row[d].bucket

\* Findings counts as everything else does.
LEMMA CountIsCardinality == ASSUME NEW S PROVE Finds!Cardinality(S) = Cardinality(S)
BY DEF Finds!Cardinality, Cardinality

\* A step that moves no finding leaves the counts exact.
LEMMA CountsKept ==
    ASSUME Finds!CountsAreExact, SameBuckets, bucket' = bucket
    PROVE  Finds!CountsAreExact'
<1>1. ASSUME NEW s PROVE Finds!In(s)' = Finds!In(s)
  BY DEF SameBuckets, Finds!In
<1>2. \A d \in Digests : row'[d] # NoRow => row'[d].bucket \in DOMAIN bucket
  BY DEF SameBuckets, Finds!CountsAreExact
<1>3. ASSUME NEW s \in DOMAIN bucket'
      PROVE  bucket'[s] = Finds!Cardinality(Finds!In(s))'
  <2>1. bucket[s] = Finds!Cardinality(Finds!In(s))
    BY DEF Finds!CountsAreExact
  <2>2. Finds!Cardinality(Finds!In(s))' = Finds!Cardinality(Finds!In(s))
    BY <1>1 DEF Finds!Cardinality
  <2> QED BY <2>1, <2>2
<1> QED BY <1>2, <1>3 DEF Finds!CountsAreExact

\* The findings of a bucket are finitely many.
LEMMA InFinite == ASSUME NEW s PROVE IsFiniteSet(Finds!In(s))
<1>1. Finds!In(s) \subseteq Digests
  BY DEF Finds!In
<1> QED BY <1>1, StorageAssumption, FS_Subset

\* UpdateTriage sets the columns of triage, and no other.
LEMMA TriageColumns ==
    ASSUME row \in Rows, NEW d \in Digests, row[d] # NoRow, NEW seen,
           NEW s \in Finds!States, NEW m \in Finds!Minimized,
           Finds!UpdateTriage(d, seen, s, m)
    PROVE  /\ row' \in Rows /\ SameBuckets /\ row'[d].state = s
           /\ \A e \in Digests : row[e] # NoRow => row'[e].judged = row[e].judged
           /\ \A e \in Digests \ {d} : row'[e] = row[e]
<1>1. PICK b \in Finds!Row : b = row[d]
  BY DEF Rows
<1>2. PICK x \in Finds!Row : x = [b EXCEPT !.state = s, !.min = m]
  BY DEF Finds!Row
<1>3. row' = [row EXCEPT ![d] = [b EXCEPT !.state = s, !.min = m]]
  BY <1>1 DEF Finds!UpdateTriage, Rows
<1>4. row' \in Rows /\ row'[d] = x /\ \A e \in Digests \ {d} : row'[e] = row[e]
  BY <1>2, <1>3 DEF Rows
<1>5. x.state = s /\ x.bucket = b.bucket /\ x.judged = b.judged /\ x # NoRow
  BY <1>2, StorageAssumption DEF Finds!Row
<1> QED BY <1>1, <1>4, <1>5 DEF SameBuckets

\* A campaign that has just begun has no findings.
LEMMA InitFindInv == Init => FindInv
<1> SUFFICES ASSUME Finds!Init PROVE FindInv
  BY DEF Init
<1> USE DEF Finds!Init, Finds!Idle
<1>1. FindTypes
  <2>1. << >> \in Seq(Digests \cup {NoID}) /\ Len(<< >>) = 0
    OBVIOUS
  <2> QED BY <2>1, StorageAssumption DEF FindTypes, Rows, PumpType, CallType
<1>2. \A d \in Digests : ~Queued(d)
  BY DEF Queued
<1>3. RowsExist /\ PumpsOwn /\ TriagerHolds
  BY <1>2 DEF RowsExist, JobsHaveRows, CallsHaveRows, PumpsOwn, TriagerHolds, Has, Triaging
<1>4. Finds!CountsAreExact /\ Finds!BucketOfAgrees /\ Finds!NewIsAccountedFor
  BY DEF Finds!CountsAreExact, Finds!BucketOfAgrees, Finds!NewIsAccountedFor
<1> QED BY <1>1, <1>3, <1>4 DEF FindInv

\* What filing a finding changes of the campaign's own view.
LEMMA FiledUnder ==
    ASSUME bucketOf \in [DOMAIN bucketOf -> Signatures], NEW x, NEW v \in Signatures,
           bucketOf' = Finds!With(bucketOf, x, v)
    PROVE  /\ DOMAIN bucketOf' = DOMAIN bucketOf \cup {x}
           /\ bucketOf' \in [DOMAIN bucketOf' -> Signatures]
           /\ bucketOf'[x] = v
           /\ \A y \in DOMAIN bucketOf : y # x => bucketOf'[y] = bucketOf[y]
BY DEF Finds!With

\* A pump files the finding it saved under its provisional bucket.
LEMMA FileFindInv ==
    ASSUME FindInv, NEW p \in Pumps, Finds!fileProvisionally(p) PROVE FindInv'
<1>1. PICK b \in PumpType : b = pump[p]
  BY DEF FindInv, FindTypes
<1>2. b.at = "saved" /\ pump' = [pump EXCEPT ![p] = [b EXCEPT !.at = "filed"]]
      /\ bucketOf' = Finds!With(bucketOf, b.id, b.bucket)
  BY <1>1 DEF Finds!fileProvisionally
<1>3. b.id \in Digests \cup {NoID} /\ b.bucket \in Signatures
      /\ [b EXCEPT !.at = "filed"] \in PumpType
      /\ [b EXCEPT !.at = "filed"].at = "filed"
      /\ [b EXCEPT !.at = "filed"].id = b.id
      /\ [b EXCEPT !.at = "filed"].bucket = b.bucket
  BY <1>2 DEF PumpType, Finds!Idle
<1>4. UNCHANGED <<row, bucket, queue, dropped, failed, triager, call>>
  BY DEF Finds!fileProvisionally, Finds!storeVars
<1>5. pump \in [Pumps -> PumpType]
  BY DEF FindInv, FindTypes
<1>6. /\ pump' \in [Pumps -> PumpType]
      /\ \A q \in Pumps : pump'[q].id = pump[q].id /\ pump'[q].bucket = pump[q].bucket
      /\ \A q \in Pumps : pump'[q].at = "idle" <=> pump[q].at = "idle"
      /\ \A q \in Pumps \ {p} : pump'[q] = pump[q]
      /\ pump'[p].at = "filed"
  BY <1>1, <1>2, <1>3, <1>5
<1>7. \A d \in Digests : \A q \in Pumps : Has(q, d)' <=> Has(q, d)
  BY <1>6 DEF Has
<1>8. /\ DOMAIN bucketOf' = DOMAIN bucketOf \cup {b.id}
      /\ bucketOf' \in [DOMAIN bucketOf' -> Signatures] /\ bucketOf'[b.id] = b.bucket
      /\ \A y \in DOMAIN bucketOf : y # b.id => bucketOf'[y] = bucketOf[y]
  <2>1. bucketOf \in [DOMAIN bucketOf -> Signatures]
    BY DEF FindInv, FindTypes
  <2>2. PICK v \in Signatures : v = b.bucket
    BY <1>3
  <2>3. PICK x : x = b.id
    OBVIOUS
  <2>4. bucketOf' = Finds!With(bucketOf, x, v)
    BY <1>2, <2>2, <2>3, Zenon
  <2> QED BY <2>1, <2>2, <2>3, <2>4, FiledUnder
<1>9. FindTypes'
  BY <1>3, <1>4, <1>6, <1>8 DEF FindInv, FindTypes, Rows
<1>10. \A d \in Digests : (Queued(d)' <=> Queued(d)) /\ (Triaging(d)' <=> Triaging(d))
  BY <1>4 DEF Queued, Triaging
<1>11. RowsExist' /\ PumpsOwn' /\ TriagerHolds'
  BY <1>4, <1>6, <1>7, <1>10 DEF FindInv, RowsExist, JobsHaveRows, CallsHaveRows, PumpsOwn, TriagerHolds
<1>12. Finds!CountsAreExact'
  BY <1>4, CountsKept DEF FindInv, SameBuckets
<1>13. Finds!BucketOfAgrees'
  BY <1>1, <1>2, <1>4, <1>6, <1>8 DEF FindInv, PumpsOwn, Has, Finds!BucketOfAgrees
<1>14. Finds!NewIsAccountedFor'
  BY <1>4, <1>6 DEF FindInv, Finds!NewIsAccountedFor
<1> QED BY <1>9, <1>11, <1>12, <1>13, <1>14 DEF FindInv

\* A pump submits the job of the finding it filed, or drops it.
LEMMA SubmitFindInv ==
    ASSUME FindInv, NEW p \in Pumps, Finds!submitTriage(p) PROVE FindInv'
<1>1. PICK b \in PumpType : b = pump[p]
  BY DEF FindInv, FindTypes
<1>2. b.at = "filed" /\ pump' = [pump EXCEPT ![p] = Finds!Idle] /\ Finds!Submit(b.id)
  BY <1>1 DEF Finds!submitTriage
<1>3. b.id \in Digests \cup {NoID}
  BY <1>2 DEF PumpType, Finds!Idle
<1>4. UNCHANGED <<row, bucket, bucketOf, failed, triager, call>>
  BY DEF Finds!submitTriage, Finds!storeVars
<1>5. pump \in [Pumps -> PumpType] /\ queue \in Seq(Digests \cup {NoID})
      /\ Len(queue) <= QueueCap /\ dropped \in Nat
  BY DEF FindInv, FindTypes
<1>6. /\ pump' \in [Pumps -> PumpType] /\ pump'[p].at = "idle"
      /\ \A q \in Pumps \ {p} : pump'[q] = pump[q]
  BY <1>2, <1>5 DEF PumpType, Finds!Idle
<1>7. /\ queue' \in Seq(Digests \cup {NoID}) /\ Len(queue') <= QueueCap
      /\ dropped' \in Nat /\ dropped' >= dropped
      /\ Len(queue') >= Len(queue)
      /\ \A i \in 1 .. Len(queue) : queue'[i] = queue[i]
      /\ \A i \in 1 .. Len(queue') : i <= Len(queue) \/ queue'[i] = b.id
      /\ dropped' > 0 \/ \E i \in 1 .. Len(queue') : queue'[i] = b.id
  <2>1. CASE Len(queue) < QueueCap
    <3>1. queue' = Append(queue, b.id) /\ dropped' = dropped
      BY <1>2, <2>1 DEF Finds!Submit
    <3>2. /\ queue' \in Seq(Digests \cup {NoID}) /\ Len(queue') = Len(queue) + 1
          /\ queue'[Len(queue) + 1] = b.id
          /\ \A i \in 1 .. Len(queue) : queue'[i] = queue[i]
      BY ONLY <3>1, <1>3, <1>5
    <3>3. Len(queue) \in Nat /\ Len(queue) + 1 <= QueueCap
      BY <1>5, <2>1, StorageAssumption
    <3> QED BY <3>1, <3>2, <3>3, <1>5
  <2>2. CASE ~(Len(queue) < QueueCap)
    BY <1>2, <1>5, <2>2 DEF Finds!Submit
  <2> QED BY <2>1, <2>2
<1>8. FindTypes'
  BY <1>4, <1>6, <1>7 DEF FindInv, FindTypes, Rows
<1>9. \A d \in Digests : \A q \in Pumps : Has(q, d)' <=> q # p /\ Has(q, d)
  BY <1>6 DEF Has
<1>10. \A d \in Digests : (Triaging(d)' <=> Triaging(d))
  BY <1>4 DEF Triaging
<1>11. \A d \in Digests : Queued(d) => Queued(d)'
  BY <1>5, <1>7 DEF Queued
<1>12. \A d \in Digests : Queued(d)' => Queued(d) \/ Has(p, d)
  BY <1>1, <1>2, <1>5, <1>7 DEF Queued, Has
<1>13. RowsExist' /\ PumpsOwn' /\ TriagerHolds'
  BY <1>4, <1>6, <1>9, <1>10, <1>12 DEF FindInv, RowsExist, JobsHaveRows, CallsHaveRows, PumpsOwn, TriagerHolds
<1>14. Finds!CountsAreExact'
  BY <1>4, CountsKept DEF FindInv, SameBuckets
<1>15. Finds!BucketOfAgrees'
  BY <1>1, <1>2, <1>4, <1>6 DEF FindInv, Finds!BucketOfAgrees
<1>16. ASSUME NEW d \in Digests, (row[d] # NoRow /\ row[d].state = "new")'
       PROVE  (\E q \in Pumps : Has(q, d))' \/ Queued(d)' \/ Triaging(d)' \/ d \in failed'
              \/ dropped' > 0
  <2>1. (\E q \in Pumps : Has(q, d)) \/ Queued(d) \/ Triaging(d) \/ d \in failed
        \/ dropped > 0
    BY <1>4, <1>16 DEF FindInv, Finds!NewIsAccountedFor, Has, Queued, Triaging
  <2>2. CASE Has(p, d)
    BY <1>1, <1>7, <2>2 DEF Has, Queued
  <2>3. CASE ~Has(p, d)
    BY <1>4, <1>5, <1>7, <1>9, <1>10, <1>11, <2>1, <2>3
  <2> QED BY <2>2, <2>3
<1>17. Finds!NewIsAccountedFor'
  BY <1>16 DEF Finds!NewIsAccountedFor, Has, Queued, Triaging
<1> QED BY <1>8, <1>13, <1>14, <1>15, <1>17 DEF FindInv

\* The triage goroutine takes the job that waited longest.
LEMMA TakeFindInv == ASSUME FindInv, Finds!take PROVE FindInv'
<1>1. /\ triager.at = "idle" /\ queue # << >>
      /\ triager' = [at |-> "busy", id |-> Head(queue)] /\ queue' = Tail(queue)
      /\ UNCHANGED <<row, bucket, bucketOf, pump, dropped, failed, call>>
  BY DEF Finds!take, Finds!storeVars
<1>2. queue \in Seq(Digests \cup {NoID}) /\ Len(queue) <= QueueCap
  BY DEF FindInv, FindTypes
<1>3. /\ queue' \in Seq(Digests \cup {NoID}) /\ Len(queue') = Len(queue) - 1
      /\ Len(queue) \in Nat /\ Len(queue) >= 1
      /\ Head(queue) = queue[1] /\ Head(queue) \in Digests \cup {NoID}
      /\ \A i \in 1 .. Len(queue') : queue'[i] = queue[i + 1]
  BY <1>1, <1>2
<1>4. FindTypes'
  BY <1>1, <1>2, <1>3, StorageAssumption DEF FindInv, FindTypes, Rows
<1>5. triager'.at = "busy" /\ triager'.id = queue[1]
  BY <1>1, <1>3
<1>6. \A d \in Digests : Queued(d)' => Queued(d)
  BY <1>3 DEF Queued
<1>7. \A d \in Digests : Triaging(d)' => Queued(d)
  BY <1>3, <1>5 DEF Queued, Triaging
<1>8. ASSUME NEW d \in Digests, Queued(d) PROVE Queued(d)' \/ Triaging(d)'
  <2>1. PICK i \in 1 .. Len(queue) : queue[i] = d
    BY <1>8 DEF Queued
  <2>2. CASE i = 1
    BY <1>5, <2>1, <2>2 DEF Triaging
  <2>3. CASE i # 1
    <3>1. i - 1 \in 1 .. Len(queue') /\ queue'[i - 1] = d
      BY <1>3, <2>1, <2>3
    <3> QED BY <3>1 DEF Queued
  <2> QED BY <2>2, <2>3
<1>9. \A d \in Digests : ~Triaging(d)
  BY <1>1 DEF Triaging
<1>10. \A d \in Digests : \A q \in Pumps : Has(q, d)' <=> Has(q, d)
  BY <1>1 DEF Has
<1>11. RowsExist' /\ PumpsOwn'
  BY <1>1, <1>6, <1>7, <1>10 DEF FindInv, RowsExist, JobsHaveRows, CallsHaveRows, PumpsOwn
<1>12. TriagerHolds'
  BY <1>3, <1>5 DEF TriagerHolds
<1>13. Finds!CountsAreExact'
  BY <1>1, CountsKept DEF FindInv, SameBuckets
<1>14. Finds!BucketOfAgrees'
  BY <1>1, <1>5 DEF FindInv, Finds!BucketOfAgrees
<1>15. ASSUME NEW d \in Digests, (row[d] # NoRow /\ row[d].state = "new")'
       PROVE  (\E q \in Pumps : Has(q, d))' \/ Queued(d)' \/ Triaging(d)' \/ d \in failed'
              \/ dropped' > 0
  <2>1. (\E q \in Pumps : Has(q, d)) \/ Queued(d) \/ d \in failed \/ dropped > 0
    BY <1>1, <1>9, <1>15 DEF FindInv, Finds!NewIsAccountedFor, Has, Queued, Triaging
  <2> QED BY <1>1, <1>8, <1>10, <2>1
<1>16. Finds!NewIsAccountedFor'
  BY <1>15 DEF Finds!NewIsAccountedFor, Has, Queued, Triaging
<1> QED BY <1>4, <1>11, <1>12, <1>13, <1>14, <1>16 DEF FindInv

\* Triage gives up, knows its verdict, has no bucket to offer, or files the finding
\* in the campaign's own view.
LEMMA TriagerFindInv ==
    ASSUME FindInv,
           \/ Finds!triageFails \/ Finds!keepBucket \/ Finds!refile
           \/ \E v \in Finds!Verdicts : Finds!onTriaged(v)
    PROVE  FindInv'
<1>1. UNCHANGED <<row, bucket, pump, queue, dropped, call>>
  BY DEF Finds!triageFails, Finds!keepBucket, Finds!refile, Finds!onTriaged, Finds!storeVars
<1>2. \A d \in Digests : \A q \in Pumps : Has(q, d)' <=> Has(q, d)
  BY <1>1 DEF Has
<1>3. \A d \in Digests : Queued(d)' <=> Queued(d)
  BY <1>1 DEF Queued
<1>4. Finds!CountsAreExact'
  BY <1>1, CountsKept DEF FindInv, SameBuckets
<1>5. row \in Rows /\ failed \subseteq Digests \cup {NoID}
      /\ bucketOf \in [DOMAIN bucketOf -> Signatures]
      /\ DOMAIN bucketOf \subseteq Digests \cup {NoID}
  BY DEF FindInv, FindTypes
<1>6. CASE Finds!triageFails
  <2>1. /\ triager.at \in {"busy", "read"} /\ triager'.at = "idle"
        /\ failed' = failed \cup {triager.id} /\ bucketOf' = bucketOf
    BY <1>6 DEF Finds!triageFails, Finds!Idle
  <2>2. FindTypes'
    BY <1>1, <2>1 DEF FindInv, FindTypes, TriagerHolds, Rows
  <2>3. \A d \in Digests : ~Triaging(d)'
    BY <2>1 DEF Triaging
  <2>4. RowsExist' /\ PumpsOwn' /\ TriagerHolds'
    BY <1>1, <1>2, <1>3, <2>1, <2>3 DEF FindInv, RowsExist, JobsHaveRows, CallsHaveRows, PumpsOwn, TriagerHolds
  <2>5. Finds!BucketOfAgrees'
    BY <1>1, <2>1 DEF FindInv, Finds!BucketOfAgrees
  <2>6. Finds!NewIsAccountedFor'
    BY <1>1, <2>1 DEF FindInv, Finds!NewIsAccountedFor
  <2> QED BY <1>4, <2>2, <2>4, <2>5, <2>6 DEF FindInv
<1>7. CASE Finds!keepBucket
  <2>1. /\ triager.at = "updated" /\ triager'.at = "idle"
        /\ failed' = failed /\ bucketOf' = bucketOf
    BY <1>7 DEF Finds!keepBucket, Finds!Idle
  <2>2. FindTypes'
    BY <1>1, <2>1 DEF FindInv, FindTypes, Rows
  <2>3. \A d \in Digests : ~Triaging(d)'
    BY <2>1 DEF Triaging
  <2>4. RowsExist' /\ PumpsOwn' /\ TriagerHolds'
    BY <1>1, <1>2, <1>3, <2>1, <2>3 DEF FindInv, RowsExist, JobsHaveRows, CallsHaveRows, PumpsOwn, TriagerHolds
  <2>5. Finds!BucketOfAgrees'
    BY <1>1, <2>1 DEF FindInv, Finds!BucketOfAgrees
  <2>6. row[triager.id].state # "new"
    BY <2>1 DEF FindInv, TriagerHolds
  <2>7. Finds!NewIsAccountedFor'
    BY <1>1, <2>1, <2>6 DEF FindInv, Finds!NewIsAccountedFor
  <2> QED BY <1>4, <2>2, <2>4, <2>5, <2>7 DEF FindInv
<1>8. CASE Finds!refile
  <2>1. /\ triager.at = "moved" /\ triager'.at = "idle" /\ failed' = failed
        /\ bucketOf' = Finds!With(bucketOf, triager.id, triager.bucket)
    BY <1>8 DEF Finds!refile, Finds!Idle
  <2>2. /\ triager.id \in Digests /\ triager.bucket \in Signatures
        /\ row[triager.id].state # "new" /\ triager.bucket = row[triager.id].bucket
    BY <2>1 DEF FindInv, TriagerHolds
  <2>3. PICK v \in Signatures, i \in Digests : v = triager.bucket /\ i = triager.id
    BY <2>2
  <2>4. bucketOf' = Finds!With(bucketOf, i, v)
    BY <2>1, <2>3, Zenon
  <2>5. /\ DOMAIN bucketOf' = DOMAIN bucketOf \cup {i}
        /\ bucketOf' \in [DOMAIN bucketOf' -> Signatures] /\ bucketOf'[i] = v
        /\ \A y \in DOMAIN bucketOf : y # i => bucketOf'[y] = bucketOf[y]
    BY <1>5, <2>4, FiledUnder
  <2>6. FindTypes'
    BY <1>1, <1>5, <2>1, <2>5 DEF FindInv, FindTypes, Rows
  <2>7. \A d \in Digests : ~Triaging(d)'
    BY <2>1 DEF Triaging
  <2>8. RowsExist' /\ PumpsOwn' /\ TriagerHolds'
    BY <1>1, <1>2, <1>3, <2>1, <2>7 DEF FindInv, RowsExist, JobsHaveRows, CallsHaveRows, PumpsOwn, TriagerHolds
  <2>9. Finds!BucketOfAgrees'
    BY <1>1, <2>1, <2>2, <2>3, <2>5 DEF FindInv, Finds!BucketOfAgrees
  <2>10. Finds!NewIsAccountedFor'
    BY <1>1, <2>1, <2>2 DEF FindInv, Finds!NewIsAccountedFor
  <2> QED BY <1>4, <2>6, <2>8, <2>9, <2>10 DEF FindInv
<1>9. ASSUME NEW v \in Finds!Verdicts, Finds!onTriaged(v) PROVE FindInv'
  <2>1. /\ triager.at = "busy" /\ triager.id # NoID
        /\ triager'.at = "read" /\ triager'.id = triager.id
        /\ triager'.verdict = v /\ triager'.seen = row[triager.id]
        /\ failed' = failed /\ bucketOf' = bucketOf
    BY <1>9 DEF Finds!onTriaged
  <2>2. FindTypes'
    BY <1>1, <2>1 DEF FindInv, FindTypes, Rows
  <2>3. \A d \in Digests : Triaging(d)' <=> Triaging(d)
    BY <2>1 DEF Triaging
  <2>4. RowsExist' /\ PumpsOwn'
    BY <1>1, <1>2, <1>3, <2>3 DEF FindInv, RowsExist, JobsHaveRows, CallsHaveRows, PumpsOwn
  <2>5. triager.id \in Digests
    BY <2>1 DEF FindInv, TriagerHolds
  <2>6. row[triager.id] \in Finds!Row
    BY <1>5, <2>1, <2>5 DEF FindInv, RowsExist, JobsHaveRows, CallsHaveRows, Triaging, Rows
  <2>7. v.state \in Finds!States \ {"new"}
    BY DEF Finds!Verdicts, Finds!States
  <2>8. TriagerHolds'
    BY <2>1, <2>5, <2>6, <2>7 DEF TriagerHolds
  <2>9. Finds!BucketOfAgrees'
    BY <1>1, <2>1 DEF FindInv, Finds!BucketOfAgrees
  <2>10. Finds!NewIsAccountedFor'
    BY <1>1, <2>1 DEF FindInv, Finds!NewIsAccountedFor
  <2> QED BY <1>4, <2>2, <2>4, <2>8, <2>9, <2>10 DEF FindInv
<1> QED BY <1>6, <1>7, <1>8, <1>9

\* No finding becomes new again.
NewIsOver ==
    \A d \in Digests : row[d] # NoRow /\ row'[d].state = "new" => row[d].state = "new"

\* What a step that only changes columns of the table keeps.
LEMMA ColumnsKept ==
    ASSUME FindInv, row' \in Rows, SameBuckets, NewIsOver,
           UNCHANGED <<bucket, bucketOf, pump, queue, dropped, failed>>,
           \/ triager' = triager
           \/ triager.at = "read" /\ triager'.at \in {"idle", "updated"},
           triager'.at # "idle" => triager'.id = triager.id
    PROVE  /\ Finds!CountsAreExact' /\ Finds!BucketOfAgrees' /\ PumpsOwn'
           /\ JobsHaveRows'
<1>1. Finds!CountsAreExact'
  BY CountsKept DEF FindInv
<1>2. Finds!BucketOfAgrees'
  BY DEF FindInv, Finds!BucketOfAgrees, SameBuckets
<1>3. \A d \in Digests : \A q \in Pumps : Has(q, d)' <=> Has(q, d)
  BY DEF Has
<1>4. \A d \in Digests : (Queued(d)' <=> Queued(d)) /\ (Triaging(d)' => Triaging(d))
  BY DEF Queued, Triaging
<1>5. PumpsOwn'
  BY <1>3, <1>4 DEF FindInv, PumpsOwn, RowsExist, JobsHaveRows, CallsHaveRows, SameBuckets
<1> QED BY <1>1, <1>2, <1>3, <1>4, <1>5 DEF FindInv, RowsExist, JobsHaveRows, CallsHaveRows, SameBuckets

\* A handler that begins, or that has changed columns of the table.
LEMMA HandlerKeeps ==
    ASSUME FindInv, row' \in Rows, SameBuckets, NewIsOver,
           UNCHANGED <<bucket, bucketOf, pump, queue, dropped, failed, triager>>,
           call' \in [Handlers -> CallType],
           \A h \in Handlers : call'[h].at # "idle" => row'[call'[h].id] # NoRow
    PROVE  FindInv'
<1>1. FindTypes'
  BY DEF FindInv, FindTypes
<1>2. Finds!CountsAreExact' /\ Finds!BucketOfAgrees' /\ PumpsOwn' /\ JobsHaveRows'
  BY ColumnsKept
<1>3. RowsExist'
  BY <1>2 DEF RowsExist, CallsHaveRows
<1>4. TriagerHolds'
  BY DEF FindInv, TriagerHolds, SameBuckets, NewIsOver, RowsExist, JobsHaveRows, CallsHaveRows, Triaging
<1>5. Finds!NewIsAccountedFor'
  BY DEF FindInv, Finds!NewIsAccountedFor, SameBuckets, NewIsOver
<1> QED BY <1>1, <1>2, <1>3, <1>4, <1>5 DEF FindInv

\* A person asks for a replay or a minimisation, which reads the finding.
LEMMA AskFindInv ==
    ASSUME FindInv, NEW h \in Handlers, NEW op \in {"Replay", "Minimize"}, NEW d \in Digests,
           Finds!ask(h, op, d)
    PROVE  FindInv'
<1>1. /\ row[d] # NoRow
      /\ call' = [call EXCEPT ![h] = [at |-> op, id |-> d, seen |-> row[d]]]
      /\ UNCHANGED <<row, bucket, bucketOf, pump, queue, dropped, failed, triager>>
  BY DEF Finds!ask, Finds!storeVars
<1>2. row \in Rows /\ call \in [Handlers -> CallType]
  BY DEF FindInv, FindTypes
<1>3. row[d] \in Finds!Row
  BY <1>1, <1>2 DEF Rows
<1>4. PICK c \in CallType : c = [at |-> op, id |-> d, seen |-> row[d]]
  BY <1>3 DEF CallType
<1>5. call' = [call EXCEPT ![h] = c] /\ c.id = d
  BY <1>1, <1>4
<1>6. call' \in [Handlers -> CallType]
      /\ \A g \in Handlers : call'[g].at # "idle" => row'[call'[g].id] # NoRow
  BY <1>1, <1>2, <1>5 DEF FindInv, RowsExist, JobsHaveRows, CallsHaveRows
<1>7. SameBuckets /\ NewIsOver /\ row' \in Rows
  BY <1>1, <1>2 DEF SameBuckets, NewIsOver
<1> QED BY <1>1, <1>6, <1>7, HandlerKeeps

\* A replay or a minimisation records its outcome.
LEMMA AnswerFindInv ==
    ASSUME FindInv, NEW h \in Handlers,
           \/ \E s \in {"verified", "unverified", "flaky"} : Finds!Replay(h, s)
           \/ Finds!Minimize(h)
    PROVE  FindInv'
<1>1. PICK c \in CallType : c = call[h]
  BY DEF FindInv, FindTypes
<1>2. PICK s \in Finds!States \ {"new"}, m \in Finds!Minimized :
          /\ c.at # "idle" /\ Finds!UpdateTriage(c.id, c.seen, s, m)
          /\ call' = [call EXCEPT ![h] = Finds!Idle]
          /\ UNCHANGED <<bucket, bucketOf, pump, queue, dropped, failed, triager>>
  <2>1. CASE Finds!Minimize(h)
    BY <1>1, <2>1 DEF Finds!Minimize, Finds!States, Finds!Minimized
  <2>2. ASSUME NEW s \in {"verified", "unverified", "flaky"}, Finds!Replay(h, s)
        PROVE  /\ c.at # "idle" /\ Finds!UpdateTriage(c.id, c.seen, s, c.seen.min)
               /\ call' = [call EXCEPT ![h] = Finds!Idle]
               /\ UNCHANGED <<bucket, bucketOf, pump, queue, dropped, failed, triager>>
    BY <1>1, <2>2 DEF Finds!Replay
  <2>3. c.at # "idle" => c.seen.min \in Finds!Minimized
    BY DEF CallType, Finds!Idle, Finds!Row
  <2> QED BY <2>1, <2>2, <2>3 DEF Finds!States
<1>3. c.id \in Digests /\ row[c.id] # NoRow
  BY <1>1, <1>2 DEF CallType, Finds!Idle, FindInv, RowsExist, JobsHaveRows, CallsHaveRows
<1>4. row \in Rows /\ call \in [Handlers -> CallType]
  BY DEF FindInv, FindTypes
<1>5. PICK d \in Digests : d = c.id
  BY <1>3
<1>6. PICK seen : Finds!UpdateTriage(d, seen, s, m) /\ row[d] # NoRow
  BY <1>2, <1>3, <1>5, Zenon
<1>7. /\ row' \in Rows /\ SameBuckets /\ row'[d].state = s
      /\ \A e \in Digests \ {d} : row'[e] = row[e]
  BY <1>4, <1>6, TriageColumns
<1>8. NewIsOver
  BY <1>7 DEF NewIsOver
<1>9. call' \in [Handlers -> CallType]
      /\ \A g \in Handlers : call'[g].at # "idle" => row'[call'[g].id] # NoRow
  <2>1. Finds!Idle \in CallType /\ Finds!Idle.at = "idle"
    BY DEF CallType, Finds!Idle
  <2>2. call' \in [Handlers -> CallType]
        /\ \A g \in Handlers : call'[g].at # "idle" => call'[g] = call[g] /\ call[g].id \in Digests
    BY <1>2, <1>4, <2>1 DEF CallType, Finds!Idle
  <2> QED BY <1>7, <2>2 DEF FindInv, RowsExist, JobsHaveRows, CallsHaveRows, SameBuckets
<1> QED BY <1>2, <1>7, <1>8, <1>9, HandlerKeeps

\* What a judgement changes of the table.
LEMMA JudgementColumn ==
    ASSUME row \in Rows, NEW d \in Digests, row[d] # NoRow, NEW j \in Finds!Judgements,
           row' = [row EXCEPT ![d].judged = j]
    PROVE  row' \in Rows /\ SameBuckets /\ NewIsOver
<1>1. PICK b \in Finds!Row : b = row[d]
  BY DEF Rows
<1>2. PICK x \in Finds!Row : x = [b EXCEPT !.judged = j]
  BY DEF Finds!Row
<1>3. row' = [row EXCEPT ![d] = x]
  BY <1>1, <1>2 DEF Rows
<1>4. row' \in Rows /\ row'[d] = x /\ \A e \in Digests \ {d} : row'[e] = row[e]
  BY <1>3 DEF Rows
<1>5. x.state = b.state /\ x.bucket = b.bucket /\ x # NoRow
  BY <1>2, StorageAssumption DEF Finds!Row
<1> QED BY <1>1, <1>4, <1>5 DEF SameBuckets, NewIsOver

\* A person judges a finding.
LEMMA JudgeFindInv ==
    ASSUME FindInv, NEW h \in Handlers, NEW d \in Digests, NEW j \in Finds!Judgements,
           Finds!SetDisposition(h, d, j)
    PROVE  FindInv'
<1>1. /\ row[d] # NoRow /\ row' = [row EXCEPT ![d].judged = j]
      /\ UNCHANGED <<bucket, bucketOf, pump, queue, dropped, failed, triager, call>>
  BY DEF Finds!SetDisposition
<1>2. row \in Rows /\ call \in [Handlers -> CallType]
  BY DEF FindInv, FindTypes
<1>3. row' \in Rows /\ SameBuckets /\ NewIsOver
  BY <1>1, <1>2, JudgementColumn
<1>4. \A g \in Handlers : call'[g].at # "idle" => row'[call'[g].id] # NoRow
  <2>1. \A g \in Handlers : call[g].at # "idle" => call[g].id \in Digests
    BY <1>2 DEF CallType, Finds!Idle
  <2> QED BY <1>1, <1>3, <2>1 DEF FindInv, RowsExist, JobsHaveRows, CallsHaveRows, SameBuckets
<1> QED BY <1>1, <1>2, <1>3, <1>4, HandlerKeeps

\* Triage records its verdict.
LEMMA RecordFindInv == ASSUME FindInv, Finds!recordTriage PROVE FindInv'
<1>1. /\ triager.at = "read" /\ triager.id \in Digests
      /\ triager.verdict.state \in Finds!States \ {"new"} /\ triager.seen \in Finds!Row
  BY DEF FindInv, TriagerHolds, Finds!recordTriage
<1>2. PICK d \in Digests : d = triager.id
  BY <1>1
<1>3. PICK v \in Finds!States \ {"new"} : v = triager.verdict.state
  BY <1>1
<1>4. triager.seen.min \in Finds!Minimized
  BY <1>1 DEF Finds!Row
<1>5. PICK m \in Finds!Minimized :
          m = IF triager.verdict.smaller THEN "auto" ELSE triager.seen.min
  BY <1>4 DEF Finds!Minimized
<1>6. PICK seen : Finds!UpdateTriage(d, seen, v, m)
  BY <1>2, <1>3, <1>5, Zenon DEF Finds!recordTriage
<1>7. /\ UNCHANGED <<bucket, bucketOf, pump, queue, dropped, failed, call>>
      /\ triager'.at \in {"idle", "updated"}
      /\ triager'.at # "idle" => triager'.id = triager.id
  BY DEF Finds!recordTriage, Finds!Idle
<1>8. row \in Rows /\ row[d] # NoRow
  BY <1>1, <1>2 DEF FindInv, FindTypes, RowsExist, JobsHaveRows, Triaging
<1>9. /\ row' \in Rows /\ SameBuckets /\ row'[d].state = v
      /\ \A e \in Digests \ {d} : row'[e] = row[e]
  BY <1>6, <1>8, TriageColumns
<1>10. NewIsOver
  BY <1>9 DEF NewIsOver
<1>11. Finds!CountsAreExact' /\ Finds!BucketOfAgrees' /\ PumpsOwn' /\ JobsHaveRows'
  <2>1. \/ triager' = triager
        \/ triager.at = "read" /\ triager'.at \in {"idle", "updated"}
    BY <1>1, <1>7
  <2> QED BY <1>7, <1>9, <1>10, <2>1, ColumnsKept
<1>12. FindTypes'
  BY <1>7, <1>9 DEF FindInv, FindTypes
<1>13. CallsHaveRows'
  BY <1>7, <1>9 DEF FindInv, FindTypes, CallType, Finds!Idle, RowsExist, CallsHaveRows,
     SameBuckets
<1>14. TriagerHolds'
  BY <1>1, <1>2, <1>7, <1>9 DEF TriagerHolds
<1>15. ASSUME NEW e \in Digests, (row[e] # NoRow /\ row[e].state = "new")'
       PROVE  (\E q \in Pumps : Has(q, e))' \/ Queued(e)' \/ Triaging(e)' \/ e \in failed'
              \/ dropped' > 0
  <2>1. e # d /\ row[e] # NoRow /\ row[e].state = "new"
    BY <1>9, <1>15
  <2>2. (\E q \in Pumps : Has(q, e)) \/ Queued(e) \/ e \in failed \/ dropped > 0
    BY <1>2, <2>1 DEF FindInv, Finds!NewIsAccountedFor, Has, Queued
  <2> QED BY <1>7, <2>2 DEF Has, Queued
<1>16. Finds!NewIsAccountedFor'
  BY <1>15 DEF Finds!NewIsAccountedFor, Has, Queued, Triaging
<1> QED BY <1>11, <1>12, <1>13, <1>14, <1>16 DEF FindInv, RowsExist

\* A bucket that is made sure of is there, and still counts what is in it.
LEMMA EnsuredCounts ==
    ASSUME FindTypes, Finds!CountsAreExact, NEW s \in Signatures
    PROVE  /\ DOMAIN Finds!ensured(s) = DOMAIN bucket \cup {s}
           /\ Finds!ensured(s) \in [DOMAIN bucket \cup {s} -> Nat]
           /\ \A x \in DOMAIN bucket \cup {s} : Finds!ensured(s)[x] = Cardinality(Finds!In(x))
<1>1. bucket \in [DOMAIN bucket -> Nat]
  BY DEF FindTypes
<1>2. \A x \in DOMAIN bucket : bucket[x] = Cardinality(Finds!In(x))
  <2>1. ASSUME NEW x \in DOMAIN bucket PROVE bucket[x] = Cardinality(Finds!In(x))
    <3>1. bucket[x] = Finds!Cardinality(Finds!In(x))
      BY DEF Finds!CountsAreExact
    <3> QED BY <3>1, CountIsCardinality
  <2> QED BY <2>1
<1>3. CASE s \in DOMAIN bucket
  <2>1. Finds!ensured(s) = bucket
    BY <1>3 DEF Finds!ensured
  <2> QED BY <1>1, <1>2, <1>3, <2>1
<1>4. CASE s \notin DOMAIN bucket
  <2>1. Finds!ensured(s) = [y \in DOMAIN bucket \cup {s} |-> IF y = s THEN 0 ELSE bucket[y]]
    BY <1>4 DEF Finds!ensured, Finds!With
  <2>2. Finds!In(s) = {}
    BY <1>4 DEF Finds!CountsAreExact, Finds!In
  <2>3. Cardinality(Finds!In(s)) = 0
    BY <2>2, FS_EmptySet
  <2> QED BY <1>1, <1>2, <1>4, <2>1, <2>3
<1> QED BY <1>3, <1>4

\* What is in each bucket after a new finding is inserted.
LEMMA CountsGrow ==
    ASSUME FindTypes, Finds!CountsAreExact, NEW d \in Digests, NEW s \in Signatures,
           row[d] = NoRow, row' \in Rows, row'[d] # NoRow, row'[d].bucket = s,
           \A e \in Digests \ {d} : row'[e] = row[e],
           bucket' = [Finds!ensured(s) EXCEPT ![s] = @ + 1]
    PROVE  /\ Finds!CountsAreExact'
           /\ DOMAIN bucket' \subseteq Signatures /\ bucket' \in [DOMAIN bucket' -> Nat]
<1>1. PICK f : f = Finds!ensured(s)
  OBVIOUS
<1>2. /\ DOMAIN f = DOMAIN bucket \cup {s} /\ f \in [DOMAIN f -> Nat]
      /\ \A x \in DOMAIN f : f[x] = Cardinality(Finds!In(x))
  BY <1>1, EnsuredCounts
<1>3. /\ bucket' = [f EXCEPT ![s] = f[s] + 1] /\ DOMAIN bucket' = DOMAIN f
      /\ bucket'[s] = f[s] + 1 /\ \A x \in DOMAIN f \ {s} : bucket'[x] = f[x]
      /\ bucket' \in [DOMAIN bucket' -> Nat]
  BY <1>1, <1>2
<1>4. Finds!In(s)' = Finds!In(s) \cup {d} /\ d \notin Finds!In(s)
  BY DEF Finds!In
<1>5. ASSUME NEW x, x # s PROVE Finds!In(x)' = Finds!In(x)
  BY <1>5 DEF Finds!In
<1>6. Cardinality(Finds!In(s) \cup {d}) = Cardinality(Finds!In(s)) + 1
  BY <1>4, InFinite, FS_AddElement
<1>7. ASSUME NEW x \in DOMAIN bucket' PROVE bucket'[x] = Cardinality(Finds!In(x)')
  <2>1. CASE x = s
    BY <1>2, <1>3, <1>4, <1>6, <2>1
  <2>2. CASE x # s
    BY <1>2, <1>3, <1>5, <2>2
  <2> QED BY <2>1, <2>2
<1>8. ASSUME NEW x \in DOMAIN bucket' PROVE bucket'[x] = Finds!Cardinality(Finds!In(x))'
  <2>1. Finds!Cardinality(Finds!In(x))' = Cardinality(Finds!In(x)')
    BY DEF Finds!Cardinality, Cardinality
  <2> QED BY <1>7, <2>1
<1>9. \A e \in Digests : row'[e] # NoRow => row'[e].bucket \in DOMAIN bucket'
  BY <1>2, <1>3 DEF Finds!CountsAreExact
<1>10. Finds!CountsAreExact'
  BY <1>8, <1>9 DEF Finds!CountsAreExact
<1>11. DOMAIN bucket' \subseteq Signatures
  BY <1>2, <1>3 DEF FindTypes
<1> QED BY <1>3, <1>10, <1>11

\* What is in each bucket after a duplicate made sure of one.
LEMMA CountsEnsured ==
    ASSUME FindTypes, Finds!CountsAreExact, NEW s \in Signatures, row' = row,
           bucket' = Finds!ensured(s)
    PROVE  /\ Finds!CountsAreExact'
           /\ DOMAIN bucket' \subseteq Signatures /\ bucket' \in [DOMAIN bucket' -> Nat]
<1>1. /\ DOMAIN bucket' = DOMAIN bucket \cup {s} /\ bucket' \in [DOMAIN bucket' -> Nat]
      /\ \A x \in DOMAIN bucket' : bucket'[x] = Cardinality(Finds!In(x))
  BY EnsuredCounts
<1>2. ASSUME NEW x \in DOMAIN bucket' PROVE bucket'[x] = Finds!Cardinality(Finds!In(x))'
  <2>1. Finds!Cardinality(Finds!In(x))' = Cardinality(Finds!In(x)')
    BY DEF Finds!Cardinality, Cardinality
  <2>2. Finds!In(x)' = Finds!In(x)
    BY DEF Finds!In
  <2> QED BY <1>1, <2>1, <2>2
<1>3. Finds!CountsAreExact'
  BY <1>1, <1>2 DEF Finds!CountsAreExact
<1> QED BY <1>1, <1>3 DEF FindTypes

\* The counts with one finding moved from old to s.
Moved(s, old) == [Finds!ensured(s) EXCEPT ![s] = @ + 1, ![old] = @ - 1]

\* What is in each bucket after triage moved a finding from one to another.
LEMMA CountsMove ==
    ASSUME FindTypes, Finds!CountsAreExact, NEW d \in Digests, NEW s \in Signatures,
           NEW old \in Signatures, old # s, row[d] # NoRow, row[d].bucket = old,
           row' \in Rows, row'[d] # NoRow, row'[d].bucket = s,
           \A e \in Digests \ {d} : row'[e] = row[e],
           NEW more, more = Moved(s, old),
           bucket' = [x \in {y \in DOMAIN more : y # old \/ more[y] > 0} |-> more[x]]
    PROVE  /\ Finds!CountsAreExact'
           /\ DOMAIN bucket' \subseteq Signatures /\ bucket' \in [DOMAIN bucket' -> Nat]
<1>1. PICK f : f = Finds!ensured(s)
  OBVIOUS
<1>2. /\ DOMAIN f = DOMAIN bucket \cup {s} /\ f \in [DOMAIN f -> Nat]
      /\ \A x \in DOMAIN f : f[x] = Cardinality(Finds!In(x))
  BY <1>1, EnsuredCounts
<1>3. old \in DOMAIN bucket
  BY DEF Finds!CountsAreExact
<1>4. /\ DOMAIN more = DOMAIN f /\ more[s] = f[s] + 1 /\ more[old] = f[old] - 1
      /\ \A x \in DOMAIN f \ {s, old} : more[x] = f[x]
  <2>1. more = [[f EXCEPT ![s] = f[s] + 1] EXCEPT ![old] = f[old] - 1]
    <3>1. more = [Finds!ensured(s) EXCEPT ![s] = @ + 1, ![old] = @ - 1]
      BY DEF Moved
    <3> QED BY <1>1, <1>2, <1>3, <3>1
  <2> QED BY <1>2, <1>3, <2>1
<1>5. Finds!In(s)' = Finds!In(s) \cup {d} /\ d \notin Finds!In(s)
  BY DEF Finds!In
<1>6. Finds!In(old)' = Finds!In(old) \ {d} /\ d \in Finds!In(old)
  BY DEF Finds!In
<1>7. ASSUME NEW x, x # s, x # old PROVE Finds!In(x)' = Finds!In(x)
  BY <1>7 DEF Finds!In
<1>8. Cardinality(Finds!In(s) \cup {d}) = Cardinality(Finds!In(s)) + 1
  BY <1>5, InFinite, FS_AddElement
<1>9. Cardinality(Finds!In(old) \ {d}) = Cardinality(Finds!In(old)) - 1
  BY <1>6, InFinite, FS_RemoveElement
<1>10. IsFiniteSet(Finds!In(old) \ {d})
  BY InFinite, FS_Subset
<1>11. more[old] \in Nat /\ (more[old] = 0 <=> Finds!In(old) \ {d} = {})
  <2>1. Cardinality(Finds!In(old) \ {d}) \in Nat
    BY <1>10, FS_CardinalityType
  <2>2. Cardinality(Finds!In(old) \ {d}) = 0 <=> Finds!In(old) \ {d} = {}
    BY <1>10, FS_EmptySet
  <2>3. old \in DOMAIN f /\ more[old] = f[old] - 1
    BY <1>2, <1>3, <1>4
  <2>4. more[old] = Cardinality(Finds!In(old)) - 1
    BY <1>2, <2>3
  <2>5. more[old] = Cardinality(Finds!In(old) \ {d})
    BY ONLY <1>9, <2>4
  <2> QED BY ONLY <2>1, <2>2, <2>5
<1>12. /\ DOMAIN bucket' = {y \in DOMAIN more : y # old \/ more[y] > 0}
       /\ \A x \in DOMAIN bucket' : bucket'[x] = more[x]
  OBVIOUS
<1>13. ASSUME NEW x \in DOMAIN bucket' PROVE bucket'[x] = Cardinality(Finds!In(x)')
  <2>1. CASE x = s
    BY <1>2, <1>4, <1>5, <1>8, <1>12, <2>1
  <2>2. CASE x = old
    <3>1. bucket'[x] = more[old] /\ old \in DOMAIN f
      BY <1>2, <1>3, <1>12, <2>2
    <3>2. more[old] = Cardinality(Finds!In(old)) - 1
      BY <1>2, <1>4, <3>1
    <3>3. Finds!In(x)' = Finds!In(old) \ {d}
      BY <1>6, <2>2
    <3> QED BY ONLY <1>9, <3>1, <3>2, <3>3
  <2>3. CASE x # s /\ x # old
    <3>1. x \in DOMAIN f \ {s, old} /\ bucket'[x] = more[x]
      BY <1>4, <1>12, <2>3
    <3>2. bucket'[x] = Cardinality(Finds!In(x))
      BY <1>2, <1>4, <3>1
    <3>3. Finds!In(x)' = Finds!In(x)
      BY <1>7, <2>3
    <3> QED BY ONLY <3>2, <3>3
  <2> QED BY <2>1, <2>2, <2>3
<1>14. ASSUME NEW x \in DOMAIN bucket' PROVE bucket'[x] = Finds!Cardinality(Finds!In(x))'
  <2>1. Finds!Cardinality(Finds!In(x))' = Cardinality(Finds!In(x)')
    BY DEF Finds!Cardinality, Cardinality
  <2> QED BY <1>13, <2>1
<1>15. ASSUME NEW e \in Digests, row'[e] # NoRow PROVE row'[e].bucket \in DOMAIN bucket'
  <2>1. CASE e = d
    BY <1>2, <1>4, <1>12, <2>1
  <2>2. CASE e # d /\ row[e].bucket = old
    <3>1. e \in Finds!In(old) \ {d}
      BY <1>15, <2>2 DEF Finds!In
    <3>2. more[old] > 0
      <4>1. Finds!In(old) \ {d} # {}
        BY <3>1
      <4>2. more[old] # 0
        BY ONLY <1>11, <4>1, Zenon
      <4>3. more[old] \in Nat
        BY <1>11
      <4> QED BY ONLY <4>2, <4>3
    <3>3. row'[e].bucket = old
      BY <2>2
    <3>4. old \in DOMAIN more
      BY <1>2, <1>3, <1>4
    <3>5. old \in {y \in DOMAIN more : y # old \/ more[y] > 0}
      BY ONLY <3>2, <3>4
    <3>6. old \in DOMAIN bucket'
      BY ONLY <1>12, <3>5, Zenon
    <3> QED BY ONLY <3>3, <3>6, Zenon
  <2>3. CASE e # d /\ row[e].bucket # old
    BY <1>2, <1>4, <1>12, <1>15, <2>3 DEF Finds!CountsAreExact
  <2> QED BY <2>1, <2>2, <2>3
<1>16. Finds!CountsAreExact'
  BY <1>14, <1>15 DEF Finds!CountsAreExact
<1>17. DOMAIN bucket' \subseteq Signatures
  BY <1>2, <1>4, <1>12 DEF FindTypes
<1>18. \A x \in DOMAIN bucket' : bucket'[x] \in Nat
  BY <1>2, <1>4, <1>11, <1>12
<1> QED BY <1>12, <1>16, <1>17, <1>18

\* A pump saves the finding a worker reported, or meets one the table has.
LEMMA ReportFindInv ==
    ASSUME FindInv, NEW p \in Pumps, NEW d \in Digests, NEW s \in Signatures,
           Finds!onFinding(p, d, s)
    PROVE  FindInv'
<1>1. /\ pump[p].at = "idle" /\ Finds!SaveFinding(d, s)
      /\ UNCHANGED <<bucketOf, queue, dropped, failed, triager, call>>
  BY DEF Finds!onFinding
<1>2. PICK i \in Digests \cup {NoID} : i = IF row[d] = NoRow THEN d ELSE NoID
  OBVIOUS
<1>3. PICK b \in PumpType : b = [at |-> "saved", id |-> i, bucket |-> s]
  BY DEF PumpType
<1>4. pump' = [pump EXCEPT ![p] = b]
  BY <1>2, <1>3 DEF Finds!onFinding
<1>5. FindTypes /\ row \in Rows /\ pump \in [Pumps -> PumpType]
  BY DEF FindInv, FindTypes
<1>6. /\ pump' \in [Pumps -> PumpType] /\ pump'[p].at = "saved" /\ pump'[p].id = i
      /\ pump'[p].bucket = s /\ \A q \in Pumps \ {p} : pump'[q] = pump[q]
  BY <1>3, <1>4, <1>5
<1>7. \A e \in Digests : (Queued(e)' <=> Queued(e)) /\ (Triaging(e)' <=> Triaging(e))
  BY <1>1 DEF Queued, Triaging
<1>8. \A e \in Digests : \A q \in Pumps :
          Has(q, e)' <=> (Has(q, e) \/ (q = p /\ i = e))
  BY <1>1, <1>6 DEF Has
<1>9. CASE row[d] # NoRow
  <2>1. i = NoID /\ row' = row /\ bucket' = Finds!ensured(s)
    BY <1>1, <1>2, <1>9 DEF Finds!SaveFinding
  <2>2. i \notin Digests
    BY <2>1, StorageAssumption
  <2>3. /\ Finds!CountsAreExact'
        /\ DOMAIN bucket' \subseteq Signatures /\ bucket' \in [DOMAIN bucket' -> Nat]
    BY <1>5, <2>1, CountsEnsured DEF FindInv
  <2>4. FindTypes'
    BY <1>1, <1>6, <2>1, <2>3 DEF FindInv, FindTypes, Rows
  <2>5. \A e \in Digests : \A q \in Pumps : Has(q, e)' <=> Has(q, e)
    BY <1>8, <2>2
  <2>6. \A e \in Digests : \A q \in Pumps : Has(q, e) => pump'[q].bucket = pump[q].bucket
    BY <1>1, <1>6 DEF Has
  <2>7. RowsExist' /\ TriagerHolds'
    BY <1>1, <1>7, <2>1, <2>5 DEF FindInv, RowsExist, JobsHaveRows, CallsHaveRows,
       TriagerHolds
  <2>8. PumpsOwn'
    BY <1>7, <2>1, <2>5, <2>6 DEF FindInv, PumpsOwn
  <2>9. Finds!BucketOfAgrees'
    BY <1>1, <1>6, <2>1 DEF FindInv, Finds!BucketOfAgrees
  <2>10. Finds!NewIsAccountedFor'
    BY <1>1, <1>6, <2>1 DEF FindInv, Finds!NewIsAccountedFor
  <2> QED BY <2>3, <2>4, <2>7, <2>8, <2>9, <2>10 DEF FindInv
<1>10. CASE row[d] = NoRow
  <2>1. /\ i = d /\ bucket' = [Finds!ensured(s) EXCEPT ![s] = @ + 1]
        /\ row' = [row EXCEPT ![d] = [bucket |-> s, state |-> "new", min |-> "none",
                                      judged |-> "pending"]]
    BY <1>1, <1>2, <1>10 DEF Finds!SaveFinding
  <2>2. PICK r \in Finds!Row :
            r = [bucket |-> s, state |-> "new", min |-> "none", judged |-> "pending"]
    BY DEF Finds!Row, Finds!States, Finds!Minimized, Finds!Judgements
  <2>3. r.bucket = s /\ r # NoRow
    BY <2>2, StorageAssumption
  <2>4. row' = [row EXCEPT ![d] = r]
    BY <2>1, <2>2
  <2>5. row' \in Rows /\ row'[d] = r /\ \A e \in Digests \ {d} : row'[e] = row[e]
    BY <1>5, <2>4 DEF Rows
  <2>6. /\ Finds!CountsAreExact'
        /\ DOMAIN bucket' \subseteq Signatures /\ bucket' \in [DOMAIN bucket' -> Nat]
    BY <1>5, <1>10, <2>1, <2>3, <2>5, CountsGrow DEF FindInv
  <2>7. FindTypes'
    BY <1>1, <1>6, <2>5, <2>6 DEF FindInv, FindTypes
  <2>8. ~Queued(d) /\ ~Triaging(d) /\ \A q \in Pumps : ~Has(q, d)
    BY <1>10 DEF FindInv, RowsExist, JobsHaveRows
  <2>9. \A e \in Digests \ {d} : \A q \in Pumps : Has(q, e)' <=> Has(q, e)
    BY <1>8, <2>1
  <2>10. \A e \in Digests : \A q \in Pumps : Has(q, e) => pump'[q].bucket = pump[q].bucket
    BY <1>1, <1>6 DEF Has
  <2>11. \A q \in Pumps : Has(q, d)' <=> q = p
    BY <1>8, <2>1, <2>8
  <2>12. JobsHaveRows'
    BY <1>7, <2>3, <2>5, <2>9 DEF FindInv, RowsExist, JobsHaveRows
  <2>13. CallsHaveRows'
    BY <1>1, <2>3, <2>5 DEF FindInv, FindTypes, CallType, Finds!Idle, RowsExist, CallsHaveRows
  <2>14. TriagerHolds'
    BY <1>1, <2>5, <2>8 DEF FindInv, TriagerHolds, Triaging
  <2>15. PumpsOwn'
    <3>1. ASSUME NEW e \in Digests, NEW q \in Pumps, Has(q, e)'
          PROVE  (/\ ~Queued(e) /\ ~Triaging(e) /\ row[e].bucket = pump[q].bucket
                  /\ \A g \in Pumps : Has(g, e) => g = q)'
      <4>1. CASE e = d
        BY <1>6, <1>7, <2>3, <2>5, <2>8, <2>11, <3>1, <4>1
      <4>2. CASE e # d
        BY <1>7, <2>5, <2>9, <2>10, <3>1, <4>2 DEF FindInv, PumpsOwn
      <4> QED BY <4>1, <4>2
    <3> QED BY <3>1 DEF PumpsOwn
  <2>16. Finds!BucketOfAgrees'
    BY <1>1, <1>6, <2>1, <2>5 DEF FindInv, Finds!BucketOfAgrees
  <2>17. Finds!NewIsAccountedFor'
    BY <1>1, <1>6, <2>1, <2>5 DEF FindInv, Finds!NewIsAccountedFor
  <2> QED BY <2>6, <2>7, <2>12, <2>13, <2>14, <2>15, <2>16, <2>17 DEF FindInv, RowsExist
<1> QED BY <1>9, <1>10

\* Triage moves the finding it judged to the bucket of its own signature.
LEMMA MoveFindInv ==
    ASSUME FindInv, NEW s \in Signatures, Finds!rebucket(s) PROVE FindInv'
<1>1. /\ triager.at = "updated" /\ Finds!Rebucket(triager.id, s)
      /\ triager'.at = "moved" /\ triager'.id = triager.id /\ triager'.bucket = s
      /\ UNCHANGED <<bucketOf, pump, queue, dropped, failed, call>>
  BY DEF Finds!rebucket
<1>2. PICK d \in Digests : d = triager.id
  BY <1>1 DEF FindInv, TriagerHolds
<1>3. FindTypes /\ row \in Rows
  BY DEF FindInv, FindTypes
<1>4. /\ row[d] # NoRow /\ row[d].state # "new" /\ row[d] \in Finds!Row
      /\ \A p \in Pumps : ~Has(p, d)
  BY <1>1, <1>2, <1>3 DEF FindInv, TriagerHolds, RowsExist, JobsHaveRows, PumpsOwn, Triaging,
     Rows
<1>5. PICK old \in Signatures : old = row[d].bucket
  BY <1>4 DEF Finds!Row
<1>6. \A e \in Digests : (Queued(e)' <=> Queued(e)) /\ (Triaging(e)' <=> Triaging(e))
  BY <1>1 DEF Queued, Triaging
<1>7. \A e \in Digests : \A q \in Pumps : Has(q, e)' <=> Has(q, e)
  BY <1>1 DEF Has
<1>8. /\ row' \in Rows /\ row'[d] # NoRow /\ row'[d].bucket = s /\ row'[d].state # "new"
      /\ \A e \in Digests \ {d} : row'[e] = row[e]
      /\ Finds!CountsAreExact'
      /\ DOMAIN bucket' \subseteq Signatures /\ bucket' \in [DOMAIN bucket' -> Nat]
  <2>1. CASE s = old
    <3>1. row' = row /\ bucket' = bucket
      BY <1>1, <1>2, <1>5, <2>1 DEF Finds!Rebucket
    <3>2. Finds!CountsAreExact'
      BY <3>1, CountsKept DEF FindInv, SameBuckets
    <3> QED BY <1>3, <1>4, <1>5, <2>1, <3>1, <3>2 DEF FindTypes
  <2>2. CASE s # old
    <3>0. PICK more : more = Moved(s, old)
      OBVIOUS
    <3>1. /\ row' = [row EXCEPT ![d].bucket = s]
          /\ bucket' = [x \in {y \in DOMAIN more : y # old \/ more[y] > 0} |-> more[x]]
      <4>1. Finds!Rebucket(d, s)
        BY <1>1, <1>2, Zenon
      <4> QED BY <1>5, <2>2, <3>0, <4>1 DEF Finds!Rebucket, Moved
    <3>2. PICK b \in Finds!Row : b = row[d]
      BY <1>4
    <3>3. PICK x \in Finds!Row : x = [b EXCEPT !.bucket = s]
      BY DEF Finds!Row
    <3>4. x.bucket = s /\ x.state = b.state /\ x # NoRow
      BY <3>3, StorageAssumption DEF Finds!Row
    <3>5. row' = [row EXCEPT ![d] = x]
      BY <1>3, <3>1, <3>2, <3>3 DEF Rows
    <3>6. /\ row' \in Rows /\ row'[d] = x /\ \A e \in Digests \ {d} : row'[e] = row[e]
      BY <1>3, <3>5 DEF Rows
    <3>7. row'[d] # NoRow /\ row'[d].bucket = s /\ row'[d].state # "new"
      BY <1>4, <3>2, <3>4, <3>6
    <3>8. Finds!CountsAreExact
      BY DEF FindInv
    <3>9. /\ Finds!CountsAreExact'
          /\ DOMAIN bucket' \subseteq Signatures /\ bucket' \in [DOMAIN bucket' -> Nat]
      <4>1. old # s /\ row[d].bucket = old /\ \A e \in Digests \ {d} : row'[e] = row[e]
        BY <1>5, <2>2, <3>6
      <4>2. row[d] # NoRow /\ d \in Digests /\ s \in Signatures /\ old \in Signatures
        BY <1>4
      <4>3. bucket' = [y \in {z \in DOMAIN more : z # old \/ more[z] > 0} |-> more[y]]
        BY <3>1
      <4>4. row' \in Rows /\ row'[d] # NoRow /\ row'[d].bucket = s
        BY <3>6, <3>7
      <4> QED BY ONLY <1>3, <3>0, <3>8, <4>1, <4>2, <4>3, <4>4, CountsMove
    <3> QED BY <3>6, <3>7, <3>9
  <2> QED BY <2>1, <2>2
<1>9. FindTypes'
  BY <1>1, <1>8 DEF FindInv, FindTypes
<1>10. JobsHaveRows'
  BY <1>6, <1>7, <1>8 DEF FindInv, RowsExist, JobsHaveRows
<1>11. CallsHaveRows'
  BY <1>1, <1>8 DEF FindInv, FindTypes, CallType, Finds!Idle, RowsExist, CallsHaveRows
<1>12. PumpsOwn'
  BY <1>1, <1>4, <1>6, <1>7, <1>8 DEF FindInv, PumpsOwn
<1>13. TriagerHolds'
  BY <1>1, <1>2, <1>8 DEF TriagerHolds
<1>14. Finds!BucketOfAgrees'
  BY <1>1, <1>2, <1>8 DEF FindInv, Finds!BucketOfAgrees
<1>15. Finds!NewIsAccountedFor'
  BY <1>1, <1>8 DEF FindInv, Finds!NewIsAccountedFor
<1> QED BY <1>8, <1>9, <1>10, <1>11, <1>12, <1>13, <1>14, <1>15 DEF FindInv, RowsExist

\* Every step of the findings keeps what is known about them.
LEMMA StepFindInv == FindInv /\ [Next]_vars => FindInv'
<1> SUFFICES ASSUME FindInv, [Next]_vars PROVE FindInv'
  OBVIOUS
<1>1. CASE Finds!Next
  <2>1. ASSUME NEW p \in Pumps, Finds!PumpStep(p) PROVE FindInv'
    BY <2>1, ReportFindInv, FileFindInv, SubmitFindInv DEF Finds!PumpStep
  <2>2. CASE Finds!TriageStep
    BY <2>2, TakeFindInv, TriagerFindInv, RecordFindInv, MoveFindInv DEF Finds!TriageStep
  <2>3. ASSUME NEW h \in Handlers, Finds!HandlerStep(h) PROVE FindInv'
    BY <2>3, AskFindInv, AnswerFindInv, JudgeFindInv DEF Finds!HandlerStep
  <2> QED BY <1>1, <2>1, <2>2, <2>3 DEF Finds!Next
<1>2. CASE UNCHANGED findVars
  <2>1. UNCHANGED <<row, bucket, bucketOf, pump, queue, dropped, failed, triager, call>>
    BY <1>2 DEF findVars
  <2>2. SameBuckets /\ NewIsOver /\ row' \in Rows /\ call' \in [Handlers -> CallType]
        /\ \A h \in Handlers : call'[h].at # "idle" => row'[call'[h].id] # NoRow
    BY <2>1 DEF SameBuckets, NewIsOver, FindInv, FindTypes, RowsExist, CallsHaveRows
  <2> QED BY <2>1, <2>2, HandlerKeeps
<1> QED BY <1>1, <1>2 DEF Next, vars, storeVars

\* The headline number is not a lie: however many pumps report, triage moves and
\* persons ask, a bucket's count is the number of findings in it, the campaign's view
\* of a finding's bucket is the store's, and no finding is left untriaged in silence.
THEOREM FindingsCorrect == Spec => []FindingsAreAccounted
<1>1. FindInv => FindingsAreAccounted
  <2> SUFFICES ASSUME FindInv PROVE Finds!TypeOK
    BY DEF FindInv, FindingsAreAccounted
  <2>1. \A p \in Pumps : pump[p].at \in {"idle", "saved", "filed"}
    BY DEF FindInv, FindTypes, PumpType, Finds!Idle
  <2>2. \A h \in Handlers : call[h].at \in {"idle", "Replay", "Minimize"}
    BY DEF FindInv, FindTypes, CallType, Finds!Idle
  <2> QED BY <2>1, <2>2 DEF FindInv, FindTypes, TriagerHolds, Rows, Finds!TypeOK
<1> QED BY <1>1, InitFindInv, StepFindInv, PTL DEF Spec

\* A step that is not a judgement keeps the judgement of every finding.
JudgedKept ==
    \A d \in Digests : row[d] # NoRow => row'[d].judged = row[d].judged

\* Only SetDisposition changes a judgement.
LEMMA StepJudged ==
    FindInv /\ [Next]_vars => JudgedKept \/ UNCHANGED <<triager, call, pump>>
<1> SUFFICES ASSUME FindInv, [Next]_vars
             PROVE  JudgedKept \/ UNCHANGED <<triager, call, pump>>
  OBVIOUS
<1>1. row \in Rows
  BY DEF FindInv, FindTypes
<1>2. ASSUME NEW p \in Pumps, Finds!PumpStep(p) PROVE JudgedKept
  <2>1. ASSUME NEW d \in Digests, NEW s \in Signatures, Finds!onFinding(p, d, s)
        PROVE  JudgedKept
    BY <1>1, <2>1 DEF Finds!onFinding, Finds!SaveFinding, JudgedKept, Rows
  <2>2. CASE Finds!fileProvisionally(p) \/ Finds!submitTriage(p)
    BY <2>2 DEF Finds!fileProvisionally, Finds!submitTriage, Finds!storeVars, JudgedKept
  <2> QED BY <1>2, <2>1, <2>2 DEF Finds!PumpStep
<1>3. CASE Finds!TriageStep
  <2>1. CASE Finds!recordTriage
    <3>1. PICK d \in Digests : d = triager.id /\ triager.at = "read"
      BY <2>1 DEF FindInv, TriagerHolds, Finds!recordTriage
    <3>2. row[d] # NoRow
      BY <3>1 DEF FindInv, RowsExist, JobsHaveRows, Triaging
    <3>3. PICK s \in Finds!States, m \in Finds!Minimized :
              \E seen : Finds!UpdateTriage(d, seen, s, m)
      <4>1. triager.verdict.state \in Finds!States /\ triager.seen.min \in Finds!Minimized
        BY <3>1 DEF FindInv, TriagerHolds, Finds!Row
      <4> QED BY <2>1, <3>1, <4>1 DEF Finds!recordTriage, Finds!Minimized
    <3> QED BY <1>1, <3>2, <3>3, TriageColumns DEF JudgedKept
  <2>2. ASSUME NEW s \in Signatures, Finds!rebucket(s) PROVE JudgedKept
    <3>1. PICK d : row' = row \/ row' = [row EXCEPT ![d].bucket = s]
      BY <2>2 DEF Finds!rebucket, Finds!Rebucket
    <3>2. CASE row' = row
      BY <3>2 DEF JudgedKept
    <3>3. CASE row' = [row EXCEPT ![d].bucket = s]
      BY <1>1, <3>3 DEF JudgedKept, Rows, Finds!Row
    <3> QED BY <3>1, <3>2, <3>3
  <2>3. ASSUME row' = row PROVE JudgedKept
    BY <2>3 DEF JudgedKept
  <2> QED BY <1>3, <2>1, <2>2, <2>3 DEF Finds!TriageStep, Finds!take, Finds!triageFails,
          Finds!keepBucket, Finds!refile, Finds!onTriaged, Finds!storeVars
<1>4. ASSUME NEW h \in Handlers, Finds!HandlerStep(h)
      PROVE  JudgedKept \/ UNCHANGED <<triager, call, pump>>
  <2>1. ASSUME NEW op \in {"Replay", "Minimize"}, NEW d \in Digests, Finds!ask(h, op, d)
        PROVE  JudgedKept
    BY <2>1 DEF Finds!ask, Finds!storeVars, JudgedKept
  <2>2. ASSUME NEW d \in Digests, NEW j \in Finds!Judgements, Finds!SetDisposition(h, d, j)
        PROVE  UNCHANGED <<triager, call, pump>>
    BY <2>2 DEF Finds!SetDisposition
  <2>3. CASE Finds!Minimize(h) \/ \E s \in {"verified", "unverified", "flaky"} : Finds!Replay(h, s)
    <3>1. PICK c \in CallType : c = call[h] /\ c.at # "idle"
      BY <2>3 DEF FindInv, FindTypes, Finds!Minimize, Finds!Replay
    <3>2. c.id \in Digests /\ c.seen \in Finds!Row /\ row[c.id] # NoRow
      BY <3>1 DEF CallType, Finds!Idle, FindInv, RowsExist, CallsHaveRows
    <3>3. PICK d \in Digests : d = c.id
      BY <3>2
    <3>4. c.seen.min \in Finds!Minimized /\ c.seen.state \in Finds!States
      BY <3>2 DEF Finds!Row
    <3>5. PICK s \in Finds!States, m \in Finds!Minimized :
              \E seen : Finds!UpdateTriage(d, seen, s, m)
      BY <2>3, <3>1, <3>3, <3>4 DEF Finds!Minimize, Finds!Replay, Finds!States, Finds!Minimized
    <3> QED BY <1>1, <3>2, <3>3, <3>5, TriageColumns DEF JudgedKept
  <2> QED BY <1>4, <2>1, <2>2, <2>3 DEF Finds!HandlerStep
<1>5. CASE UNCHANGED findVars
  BY <1>5 DEF findVars
<1> QED BY <1>2, <1>3, <1>4, <1>5 DEF Next, Finds!Next, vars, storeVars

\* A judgement is kept: neither triage nor a replay or a minimisation that read the
\* finding before it was judged ever changes it.
THEOREM JudgementsCorrect == Spec => JudgementIsKept
<1> DEFINE Step == \A d \in Digests :
                       row[d] # NoRow /\ row'[d] # NoRow /\ row'[d].judged # row[d].judged
                           => UNCHANGED <<triager, call, pump>>
<1>1. FindInv /\ [Next]_vars => [Step]_(Finds!vars)
  BY StepJudged DEF JudgedKept
<1>2. Spec => [][Step]_(Finds!vars)
  <2> HIDE DEF Step
  <2> QED BY <1>1, InitFindInv, StepFindInv, PTL DEF Spec
<1> QED BY <1>2 DEF JudgementIsKept, Finds!JudgementIsKept

-----------------------------------------------------------------------------
(* A reproducer through the pipeline (Triage).                               *)

\* What the original shows on a target that always behaves alike.
Seen == Pipe!Classify(Pipe!Original)
Minimizing == {"blocks", "tree", "normalize", "final"}

IsMin(m) ==
    /\ m = [best |-> m.best, tree |-> m.tree, blocks |-> m.blocks, start |-> m.start, at |-> m.at,
            runs |-> m.runs, exhausted |-> m.exhausted]
    /\ m.runs \in 0 .. TrBudget

TrShapes ==
    /\ IsMin(trMin)
    /\ trReport = [trials |-> trReport.trials, reproduced |-> trReport.reproduced,
                   class |-> trReport.class, divergent |-> trReport.divergent]
    /\ trReport.reproduced \in Nat
    /\ trResult = [state |-> trResult.state, minimized |-> trResult.minimized,
                   signature |-> trResult.signature, err |-> trResult.err]
    /\ trResult.err \in BOOLEAN
    /\ trPhase \in Minimizing \cup {"verify", "report", "done"}
    /\ trJob.flaky \in BOOLEAN /\ (trJob.node = TRUE => TrBytes >= 2)

\* Nothing is recorded before the end, and no error was met before the report.
NotYetRecorded ==
    /\ trPhase # "done" =>
           trBlobs = {Pipe!Original} /\ trRow = [state |-> "new", minimized |-> << >>, bucket |-> << >>]
    /\ trPhase \in Minimizing \cup {"verify"} => trResult.err = FALSE

\* On such a target every candidate that was kept, and the result, fails as the original.
SameFailure ==
    trJob.flaky = FALSE =>
        /\ trReport.class \in {"none", Seen}
        /\ trPhase \in Minimizing => Pipe!Classify(trMin.best) = Seen
        /\ trPhase = "report" /\ trResult.err = FALSE =>
               /\ Pipe!Classify(trResult.minimized) = Seen
               /\ trReport.reproduced > 0 => trResult.signature = Pipe!Signature(Seen)

TrInv == TrShapes /\ NotYetRecorded /\ SameFailure /\ Pipe!ReproducerIsKept

\* What a run of an input shows on such a target, and that it is an outcome in any case.
LEMMA TrOutcomes ==
    ASSUME NEW x, NEW o \in Pipe!Outcomes(x)
    PROVE  /\ o \in {"A", "B", "ok"}
           /\ trJob.flaky = FALSE => o = Pipe!Classify(x)
BY DEF Pipe!Outcomes, Pipe!Classify

\* One more number.
LEMMA OneMore ==
    ASSUME NEW n \in Nat, NEW s, s = [i \in 1 .. n |-> i]
    PROVE  s \o <<n + 1>> = [i \in 1 .. n + 1 |-> i]
<1>1. s \in [1 .. n -> Nat]
  OBVIOUS
<1>2. s \in Seq(Nat) /\ Len(s) = n
  BY <1>1
<1>3. PICK t : t = s \o <<n + 1>>
  OBVIOUS
<1>4. PICK u : u = <<n + 1>>
  OBVIOUS
<1>5. u \in Seq(Nat) /\ Len(u) = 1 /\ u[1] = n + 1
  BY <1>4
<1>6. /\ t \in Seq(Nat) /\ Len(t) = Len(s) + Len(u)
       /\ \A i \in 1 .. Len(s) + Len(u) : t[i] = IF i <= Len(s) THEN s[i] ELSE u[i - Len(s)]
  BY ONLY <1>2, <1>3, <1>4, <1>5, ConcatProperties
<1>7. Len(t) = n + 1
  BY <1>2, <1>5, <1>6
<1>8. \A i \in 1 .. n + 1 : t[i] = i
  BY <1>2, <1>5, <1>6
<1> QED BY <1>3, <1>7, <1>8, <1>6

LEMMA Shorter ==
    ASSUME NEW n \in Nat, NEW m \in Nat, m <= n, NEW s, s = [i \in 1 .. n |-> i]
    PROVE  SubSeq(s, 1, m) = [i \in 1 .. m |-> i]
<1>1. s \in [1 .. n -> Nat]
  OBVIOUS
<1>2. s \in Seq(Nat) /\ Len(s) = n
  BY <1>1
<1>3. PICK t : t = SubSeq(s, 1, m)
  OBVIOUS
<1>4. Len(t) = m /\ \A i \in 1 .. m : t[i] = s[i]
  BY <1>2, <1>3
<1>5. t \in Seq(Nat)
  <2>1. 1 \in 1 .. n + 1 /\ m \in 0 .. n
    OBVIOUS
  <2> QED BY ONLY <1>2, <1>3, <2>1, SubSeqProperties
<1> QED BY <1>3, <1>4, <1>5

\* The tree is that of the reproducer.
LEMMA TreeIsOriginal == ASSUME TrBytes >= 2 PROVE Pipe!encode(Pipe!Tree) = Pipe!Original
<1>1. PICK n \in Nat : TrBytes = n + 2
  <2>1. TrBytes \in Nat
    BY StorageAssumption
  <2> QED BY <2>1
<1>2. PICK orig : orig = Pipe!Original
  OBVIOUS
<1>3. orig = [i \in 1 .. n + 2 |-> i]
  BY <1>1, <1>2 DEF Pipe!Original
<1>4. PICK front : front = SubSeq(orig, 1, n)
  OBVIOUS
<1>5. front = [i \in 1 .. n |-> i]
  BY ONLY <1>1, <1>3, <1>4, Shorter
<1>6. Pipe!encode(Pipe!Tree) = (front \o <<n + 1>>) \o <<n + 2>>
  BY <1>1, <1>2, <1>4 DEF Pipe!encode, Pipe!Tree
<1>7. PICK s : s = front \o <<n + 1>>
  OBVIOUS
<1>8. s = [i \in 1 .. n + 1 |-> i]
  BY ONLY <1>1, <1>5, <1>7, OneMore
<1>9. s \o <<(n + 1) + 1>> = [i \in 1 .. (n + 1) + 1 |-> i]
  <2>1. n + 1 \in Nat
    BY <1>1
  <2> QED BY ONLY <2>1, <1>8, OneMore
<1>10. (n + 1) + 1 = n + 2
  BY <1>1
<1> QED BY ONLY <1>2, <1>3, <1>6, <1>7, <1>9, <1>10

\* A finding that has just been reported.
LEMMA InitTrInv == Init => TrInv
<1> SUFFICES ASSUME Pipe!Init PROVE TrInv
  BY DEF Init
<1>1. /\ trMin = Pipe!NoMin /\ trReport = Pipe!NoReport /\ trResult = Pipe!NoResult
      /\ trPhase = "verify" /\ trBlobs = {Pipe!Original}
      /\ trRow = [state |-> "new", minimized |-> << >>, bucket |-> << >>]
  BY DEF Pipe!Init
<1>2. trJob.flaky \in BOOLEAN /\ (trJob.node = TRUE => TrBytes >= 2)
  BY DEF Pipe!Init
<1>3. trMin.runs = 0 /\ 0 \in 0 .. TrBudget
  BY <1>1, StorageAssumption DEF Pipe!NoMin
<1>4. TrShapes
  BY <1>1, <1>2, <1>3 DEF TrShapes, IsMin, Pipe!NoMin, Pipe!NoReport, Pipe!NoResult
<1>5. NotYetRecorded
  BY <1>1 DEF NotYetRecorded, Pipe!NoResult
<1>6. SameFailure
  BY <1>1 DEF SameFailure, Pipe!NoReport, Minimizing
<1>7. Pipe!ReproducerIsKept
  BY <1>1, <1>3 DEF Pipe!ReproducerIsKept, Pipe!NoResult
<1> QED BY <1>4, <1>5, <1>6, <1>7 DEF TrInv

\* Until the end the row is as it was reported.
LEMMA NothingKept ==
    ASSUME StorageAssumption, NotYetRecorded', trPhase' # "done", trMin'.runs \in 0 .. TrBudget
    PROVE  Pipe!ReproducerIsKept'
<1>1. trRow' = [state |-> "new", minimized |-> << >>, bucket |-> << >>]
      /\ trBlobs' = {Pipe!Original'}
  BY DEF NotYetRecorded
<1>2. trRow'.minimized = << >> /\ trRow'.bucket = << >> /\ trRow'.state = "new"
  BY ONLY <1>1
<1>3. trMin'.runs <= TrBudget
  BY StorageAssumption
<1> QED BY ONLY <1>1, <1>2, <1>3 DEF Pipe!ReproducerIsKept, Pipe!Original

\* Changing one field of the minimiser's state.
LEMMA OneField ==
    ASSUME NEW m, IsMin(m), NEW x
    PROVE  /\ LET w == [m EXCEPT !.best = x] IN IsMin(w) /\ w.best = x /\ w.runs = m.runs
           /\ LET w == [m EXCEPT !.tree = x] IN IsMin(w) /\ w.best = m.best /\ w.runs = m.runs
           /\ LET w == [m EXCEPT !.blocks = x] IN IsMin(w) /\ w.best = m.best /\ w.runs = m.runs
           /\ LET w == [m EXCEPT !.start = x] IN IsMin(w) /\ w.best = m.best /\ w.runs = m.runs
           /\ LET w == [m EXCEPT !.at = x] IN IsMin(w) /\ w.best = m.best /\ w.runs = m.runs
           /\ LET w == [m EXCEPT !.exhausted = x] IN IsMin(w) /\ w.best = m.best /\ w.runs = m.runs
           /\ m.runs < TrBudget =>
                LET w == [m EXCEPT !.runs = m.runs + 1] IN IsMin(w) /\ w.best = m.best
<1>1. PICK b, t, k, s, a, r, e :
          /\ m = [best |-> b, tree |-> t, blocks |-> k, start |-> s,
                at |-> a, runs |-> r, exhausted |-> e]
          /\ r \in 0 .. TrBudget
  BY DEF IsMin
<1>2. m.best = b /\ m.runs = r
  BY <1>1
<1>3. \A b2, t2, k2, s2, a2, e2 : \A r2 \in 0 .. TrBudget :
          IsMin([best |-> b2, tree |-> t2, blocks |-> k2, start |-> s2,
                      at |-> a2, runs |-> r2, exhausted |-> e2])
  BY DEF IsMin
<1>4. LET w == [m EXCEPT !.best = x] IN IsMin(w) /\ w.best = x /\ w.runs = r
  <2>1. [m EXCEPT !.best = x] =
               [best |-> x, tree |-> t, blocks |-> k, start |-> s,
                at |-> a, runs |-> r, exhausted |-> e]
    BY ONLY <1>1
  <2> QED BY <1>1, <1>3, <2>1
<1>5. LET w == [m EXCEPT !.tree = x] IN IsMin(w) /\ w.best = b /\ w.runs = r
  <2>1. [m EXCEPT !.tree = x] =
               [best |-> b, tree |-> x, blocks |-> k, start |-> s,
                at |-> a, runs |-> r, exhausted |-> e]
    BY ONLY <1>1
  <2> QED BY <1>1, <1>3, <2>1
<1>6. LET w == [m EXCEPT !.blocks = x] IN IsMin(w) /\ w.best = b /\ w.runs = r
  <2>1. [m EXCEPT !.blocks = x] =
               [best |-> b, tree |-> t, blocks |-> x, start |-> s,
                at |-> a, runs |-> r, exhausted |-> e]
    BY ONLY <1>1
  <2> QED BY <1>1, <1>3, <2>1
<1>7. LET w == [m EXCEPT !.start = x] IN IsMin(w) /\ w.best = b /\ w.runs = r
  <2>1. [m EXCEPT !.start = x] =
               [best |-> b, tree |-> t, blocks |-> k, start |-> x,
                at |-> a, runs |-> r, exhausted |-> e]
    BY ONLY <1>1
  <2> QED BY <1>1, <1>3, <2>1
<1>8. LET w == [m EXCEPT !.at = x] IN IsMin(w) /\ w.best = b /\ w.runs = r
  <2>1. [m EXCEPT !.at = x] =
               [best |-> b, tree |-> t, blocks |-> k, start |-> s,
                at |-> x, runs |-> r, exhausted |-> e]
    BY ONLY <1>1
  <2> QED BY <1>1, <1>3, <2>1
<1>9. LET w == [m EXCEPT !.exhausted = x] IN IsMin(w) /\ w.best = b /\ w.runs = r
  <2>1. [m EXCEPT !.exhausted = x] =
               [best |-> b, tree |-> t, blocks |-> k, start |-> s,
                at |-> a, runs |-> r, exhausted |-> x]
    BY ONLY <1>1
  <2> QED BY <1>1, <1>3, <2>1
<1>10. ASSUME m.runs < TrBudget
       PROVE  LET w == [m EXCEPT !.runs = m.runs + 1] IN IsMin(w) /\ w.best = b
  <2>1. [m EXCEPT !.runs = m.runs + 1] =
               [best |-> b, tree |-> t, blocks |-> k, start |-> s,
                at |-> a, runs |-> r + 1, exhausted |-> e]
    BY <1>1
  <2>2. r + 1 \in 0 .. TrBudget
    BY <1>1, <1>2, <1>10, StorageAssumption
  <2> QED BY <1>3, <2>1, <2>2
<1> QED BY <1>2, <1>4, <1>5, <1>6, <1>7, <1>8, <1>9, <1>10

\* A pass over the blocks of a candidate.
LEMMA NewPass ==
    ASSUME NEW m, IsMin(m), NEW x, NEW n, NEW w, w = Pipe!newPass(m, x, n)
    PROVE  IsMin(w) /\ w.best = x
<1>1. PICK m1 : m1 = [m EXCEPT !.best = x]
  OBVIOUS
<1>2. IsMin(m1) /\ m1.best = x
  BY ONLY IsMin(m), <1>1, OneField
<1>3. PICK m2 : m2 = [m1 EXCEPT !.blocks = n]
  OBVIOUS
<1>4. IsMin(m2) /\ m2.best = x
  BY ONLY <1>2, <1>3, OneField
<1>5. PICK m3 : m3 = [m2 EXCEPT !.start = Len(x) - Len(x) \div n]
  OBVIOUS
<1>6. IsMin(m3) /\ m3.best = x
  BY ONLY <1>4, <1>5, OneField
<1>7. Pipe!newPass(m, x, n) = m3
  BY ONLY <1>1, <1>3, <1>5, Zenon DEF Pipe!newPass
<1> QED BY ONLY <1>6, <1>7, w = Pipe!newPass(m, x, n), Zenon

\* The other updates that the minimiser makes, and the best candidate after each.
LEMMA MinUpdates ==
    ASSUME NEW m, IsMin(m)
    PROVE  /\ LET w == Pipe!nextBlock(m) IN IsMin(w) /\ w.best = m.best
           /\ LET w == [m EXCEPT !.exhausted = TRUE] IN IsMin(w) /\ w.best = m.best
<1>1. LET w == Pipe!nextBlock(m) IN IsMin(w) /\ w.best = m.best
  <2>1. \/ \E n : Pipe!nextBlock(m) = [m EXCEPT !.start = n]
        \/ \E n : Pipe!nextBlock(m) = [m EXCEPT !.blocks = n]
        \/ \E n : Pipe!nextBlock(m) = Pipe!newPass(m, m.best, n)
    BY DEF Pipe!nextBlock
  <2>2. PICK w : w = Pipe!nextBlock(m)
    OBVIOUS
  <2>3. ASSUME NEW n, w = [m EXCEPT !.start = n] PROVE IsMin(w) /\ w.best = m.best
    BY ONLY IsMin(m), <2>3, OneField
  <2>4. ASSUME NEW n, w = [m EXCEPT !.blocks = n] PROVE IsMin(w) /\ w.best = m.best
    BY ONLY IsMin(m), <2>4, OneField
  <2>5. ASSUME NEW n, w = Pipe!newPass(m, m.best, n) PROVE IsMin(w) /\ w.best = m.best
    BY ONLY IsMin(m), <2>5, NewPass
  <2>6. IsMin(w) /\ w.best = m.best
    BY ONLY <2>1, <2>2, <2>3, <2>4, <2>5, Zenon
  <2> QED BY ONLY <2>2, <2>6, Zenon
<1>2. LET w == [m EXCEPT !.exhausted = TRUE] IN IsMin(w) /\ w.best = m.best
  <2>1. PICK yes : yes = TRUE
    OBVIOUS
  <2>2. LET w == [m EXCEPT !.exhausted = yes] IN IsMin(w) /\ w.best = m.best
    BY ONLY IsMin(m), OneField
  <2> QED BY ONLY <2>1, <2>2, Zenon
<1> QED BY <1>1, <1>2

\* One candidate more.
LEMMA OneRun ==
    ASSUME NEW m, IsMin(m), m.runs < TrBudget
    PROVE  LET w == [m EXCEPT !.runs = @ + 1] IN IsMin(w) /\ w.best = m.best
BY OneField

\* A step of the minimiser.
LEMMA StepToTrInv ==
    ASSUME TrInv, trPhase \in {"blocks", "tree", "normalize"}, NEW m, NEW ph \in Minimizing,
           Pipe!stepTo(m, ph), IsMin(m),
           trJob.flaky = FALSE => Pipe!Classify(m.best) = Seen
    PROVE  TrInv'
<1>1. /\ trMin' = m /\ trPhase' \in Minimizing
      /\ UNCHANGED <<trJob, trReport, trResult, trRow, trBlobs>>
  BY DEF Pipe!stepTo, Minimizing
<1>2. TrShapes'
  BY <1>1 DEF TrInv, TrShapes, IsMin
<1>3. trPhase # "done" /\ trPhase \in Minimizing /\ trPhase' # "done" /\ trPhase' # "report"
  BY <1>1 DEF Minimizing
<1>4. NotYetRecorded'
  BY <1>1, <1>3 DEF TrInv, NotYetRecorded, Pipe!Original
<1>5. Seen' = Seen /\ Pipe!Classify(m.best)' = Pipe!Classify(m.best)
  BY <1>1 DEF Seen, Pipe!Classify, Pipe!Original
<1>6. SameFailure'
  BY <1>1, <1>3, <1>5 DEF TrInv, SameFailure, Pipe!Classify
<1>7. Pipe!ReproducerIsKept'
  BY <1>1, <1>3, <1>4, NothingKept, StorageAssumption DEF IsMin
<1> QED BY <1>2, <1>4, <1>6, <1>7 DEF TrInv

\* A candidate that is kept fails as the original.
LEMMA KeptAsSeen ==
    ASSUME TrInv, trPhase \in Minimizing, trJob.flaky = FALSE, NEW x, NEW o \in Pipe!Outcomes(x),
           Pipe!preserve(o)
    PROVE  Pipe!Classify(x) = Seen
<1>1. o = Pipe!Classify(x) /\ o \in {"A", "B", "ok"}
  BY TrOutcomes
<1>2. o = trReport.class
  BY DEF Pipe!preserve
<1>3. trReport.class \in {"none", Seen}
  BY DEF TrInv, SameFailure
<1> QED BY <1>1, <1>2, <1>3

\* The budget is spent.
LEMMA ExhaustTrInv ==
    ASSUME TrInv, trPhase \in {"blocks", "tree", "normalize"}, Pipe!exhaust PROVE TrInv'
<1>1. IsMin(trMin) /\ (trJob.flaky = FALSE => Pipe!Classify(trMin.best) = Seen)
  BY DEF TrInv, TrShapes, SameFailure, Minimizing
<1>2. PICK m : m = [trMin EXCEPT !.exhausted = TRUE]
  OBVIOUS
<1>3. IsMin(m) /\ m.best = trMin.best
  BY ONLY <1>1, <1>2, MinUpdates
<1>4. Pipe!stepTo(m, "final")
  BY ONLY Pipe!exhaust, <1>2, Zenon DEF Pipe!exhaust
<1> QED BY <1>1, <1>3, <1>4, StepToTrInv DEF Minimizing

\* A pass that is over goes on to the next phase.
LEMMA PassIsOver ==
    ASSUME TrInv, trPhase \in {"tree", "normalize"}, Pipe!stepTo(trMin, "final") PROVE TrInv'
<1>1. IsMin(trMin) /\ (trJob.flaky = FALSE => Pipe!Classify(trMin.best) = Seen)
  BY DEF TrInv, TrShapes, SameFailure, Minimizing
<1> QED BY <1>1, StepToTrInv DEF Minimizing

LEMMA BlockTrInv == ASSUME TrInv, Pipe!tryBlock PROVE TrInv'
<1>1. trPhase = "blocks" /\ trPhase \in Minimizing /\ IsMin(trMin)
      /\ (trJob.flaky = FALSE => Pipe!Classify(trMin.best) = Seen)
  BY DEF Pipe!tryBlock, TrInv, TrShapes, SameFailure, Minimizing
<1>2. CASE Pipe!exhaust
  BY <1>1, <1>2, ExhaustTrInv
<1>3. ASSUME ~Pipe!exhaust PROVE TrInv'
  <2>1. PICK input : input = Pipe!without(trMin)
    OBVIOUS
  <2>2. ~(trMin.runs >= TrBudget)
    BY <1>3 DEF Pipe!tryBlock
  <2>3. trMin.runs < TrBudget
    BY <1>1, <2>2, StorageAssumption DEF IsMin
  <2>4. PICK ran : ran = [trMin EXCEPT !.runs = @ + 1]
    OBVIOUS
  <2>5. IsMin(ran) /\ ran.best = trMin.best
    BY ONLY <1>1, <2>3, <2>4, OneRun
  <2>6. PICK o, m :
            /\ o \in Pipe!Outcomes(input)
            /\ m = IF Pipe!preserve(o) THEN Pipe!newPass(ran, input, trMin.blocks)
                   ELSE Pipe!nextBlock(ran)
            /\ Pipe!stepTo(m, IF Pipe!over(m) THEN Pipe!afterBlocks(m) ELSE "blocks")
    BY ONLY Pipe!tryBlock, <2>1, <2>2, <2>4, Zenon DEF Pipe!tryBlock
  <2>7. CASE Pipe!preserve(o)
    <3>1. m = Pipe!newPass(ran, input, trMin.blocks)
      BY ONLY <2>6, <2>7, Zenon
    <3>2. IsMin(m) /\ m.best = input
      BY ONLY <2>5, <3>1, NewPass
    <3>3. trJob.flaky = FALSE => Pipe!Classify(m.best) = Seen
      BY ONLY TrInv, <1>1, <2>6, <2>7, <3>2, KeptAsSeen
    <3>4. (IF Pipe!over(m) THEN Pipe!afterBlocks(m) ELSE "blocks") \in Minimizing
      BY DEF Pipe!afterBlocks, Minimizing
    <3> QED BY ONLY TrInv, <1>1, <2>6, <3>2, <3>3, <3>4, StepToTrInv
  <2>8. CASE ~Pipe!preserve(o)
    <3>1. m = Pipe!nextBlock(ran)
      BY ONLY <2>6, <2>8, Zenon
    <3>2. IsMin(m) /\ m.best = ran.best
      BY ONLY <2>5, <3>1, MinUpdates
    <3>3. trJob.flaky = FALSE => Pipe!Classify(m.best) = Seen
      BY ONLY <1>1, <2>5, <3>2
    <3>4. (IF Pipe!over(m) THEN Pipe!afterBlocks(m) ELSE "blocks") \in Minimizing
      BY DEF Pipe!afterBlocks, Minimizing
    <3> QED BY ONLY TrInv, <1>1, <2>6, <3>2, <3>3, <3>4, StepToTrInv
  <2> QED BY <2>7, <2>8
<1> QED BY <1>2, <1>3

LEMMA FillerTrInv == ASSUME TrInv, Pipe!tryFiller PROVE TrInv'
<1>1. trPhase = "normalize" /\ trPhase \in Minimizing /\ IsMin(trMin)
      /\ (trJob.flaky = FALSE => Pipe!Classify(trMin.best) = Seen)
  BY DEF Pipe!tryFiller, TrInv, TrShapes, SameFailure, Minimizing
<1>2. CASE trMin.at > Len(trMin.best)
  BY <1>1, <1>2, PassIsOver DEF Pipe!tryFiller
<1>3. CASE ~(trMin.at > Len(trMin.best)) /\ trMin.runs >= TrBudget
  BY <1>1, <1>3, ExhaustTrInv DEF Pipe!tryFiller
<1>4. ASSUME ~(trMin.at > Len(trMin.best)), ~(trMin.runs >= TrBudget) PROVE TrInv'
  <2>1. trMin.runs < TrBudget
    BY <1>1, <1>4, StorageAssumption DEF IsMin
  <2>2. PICK input : input = [trMin.best EXCEPT ![trMin.at] = 0]
    OBVIOUS
  <2>4. PICK o, m :
            /\ o \in Pipe!Outcomes(input)
            /\ m = [[trMin EXCEPT !.at = @ + 1] EXCEPT
                       !.runs = @ + 1, !.best = IF Pipe!preserve(o) THEN input ELSE @]
            /\ Pipe!stepTo(m, "normalize")
    BY ONLY Pipe!tryFiller, <1>4, <2>2, Zenon DEF Pipe!tryFiller
  <2>5. PICK m1 : m1 = [trMin EXCEPT !.at = @ + 1]
    OBVIOUS
  <2>6. IsMin(m1) /\ m1.best = trMin.best /\ m1.runs = trMin.runs
    BY ONLY <1>1, <2>5, OneField
  <2>7. PICK m2 : m2 = [m1 EXCEPT !.runs = @ + 1]
    OBVIOUS
  <2>8. IsMin(m2) /\ m2.best = trMin.best
    BY ONLY <2>1, <2>6, <2>7, OneRun
  <2>9. PICK best : best = IF Pipe!preserve(o) THEN input ELSE m2.best
    BY ONLY Zenon
  <2>10. PICK m3 : m3 = [m2 EXCEPT !.best = best]
    OBVIOUS
  <2>11. IsMin(m3) /\ m3.best = best
    BY ONLY <2>8, <2>10, OneField
  <2>12. m = m3
    BY ONLY <2>4, <2>5, <2>7, <2>9, <2>10, Zenon
  <2>13. trJob.flaky = FALSE => Pipe!Classify(best) = Seen
    <3>1. CASE Pipe!preserve(o)
      BY ONLY TrInv, <1>1, <2>4, <2>9, <3>1, KeptAsSeen
    <3>2. CASE ~Pipe!preserve(o)
      BY ONLY <1>1, <2>8, <2>9, <3>2
    <3> QED BY <3>1, <3>2
  <2>14. trJob.flaky = FALSE => Pipe!Classify(m.best) = Seen
    BY ONLY <2>11, <2>12, <2>13
  <2>15. trPhase \in {"blocks", "tree", "normalize"} /\ "normalize" \in Minimizing
    BY <1>1 DEF Minimizing
  <2> QED BY ONLY TrInv, <2>4, <2>11, <2>12, <2>14, <2>15, StepToTrInv
<1> QED BY <1>2, <1>3, <1>4

LEMMA RemovalTrInv == ASSUME TrInv, Pipe!tryRemoval PROVE TrInv'
<1>1. trPhase = "tree" /\ trPhase \in Minimizing /\ IsMin(trMin)
      /\ (trJob.flaky = FALSE => Pipe!Classify(trMin.best) = Seen)
  BY DEF Pipe!tryRemoval, TrInv, TrShapes, SameFailure, Minimizing
<1>2. PICK left : left = Pipe!removals(trMin.tree)
  BY ONLY Zenon
<1>3. CASE trMin.blocks > Len(left)
  BY <1>1, <1>2, <1>3, PassIsOver DEF Pipe!tryRemoval
<1>4. CASE ~(trMin.blocks > Len(left)) /\ trMin.runs >= TrBudget
  BY <1>1, <1>2, <1>4, ExhaustTrInv DEF Pipe!tryRemoval
<1>5. ASSUME ~(trMin.blocks > Len(left)), ~(trMin.runs >= TrBudget) PROVE TrInv'
  <2>1. trMin.runs < TrBudget
    BY <1>1, <1>5, StorageAssumption DEF IsMin
  <2>2. PICK t, input : t = left[trMin.blocks] /\ input = Pipe!encode(t)
    BY ONLY Zenon
  <2>3. PICK o, m :
            /\ o \in Pipe!Outcomes(input)
            /\ m = IF Pipe!preserve(o)
                   THEN [trMin EXCEPT !.runs = @ + 1, !.tree = t, !.best = input, !.blocks = 1]
                   ELSE [trMin EXCEPT !.runs = @ + 1, !.blocks = @ + 1]
            /\ Pipe!stepTo(m, "tree")
    BY ONLY Pipe!tryRemoval, <1>2, <1>5, <2>2, Zenon DEF Pipe!tryRemoval
  <2>4. PICK ran : ran = [trMin EXCEPT !.runs = @ + 1]
    BY ONLY Zenon
  <2>5. IsMin(ran) /\ ran.best = trMin.best
    BY ONLY <1>1, <2>1, <2>4, OneRun
  <2>6. IsMin(m) /\ (trJob.flaky = FALSE => Pipe!Classify(m.best) = Seen)
    <3>1. CASE Pipe!preserve(o)
      <4>1. PICK m1 : m1 = [ran EXCEPT !.tree = t]
        BY ONLY Zenon
      <4>2. IsMin(m1)
        BY ONLY <2>5, <4>1, OneField
      <4>3. PICK m2 : m2 = [m1 EXCEPT !.best = input]
        BY ONLY Zenon
      <4>4. IsMin(m2) /\ m2.best = input
        BY ONLY <4>2, <4>3, OneField
      <4>5. PICK m3 : m3 = [m2 EXCEPT !.blocks = 1]
        BY ONLY Zenon
      <4>6. IsMin(m3) /\ m3.best = input
        BY ONLY <4>4, <4>5, OneField
      <4>7. m = m3
        BY ONLY <2>3, <2>4, <3>1, <4>1, <4>3, <4>5, Zenon
      <4>8. trJob.flaky = FALSE => Pipe!Classify(input) = Seen
        BY ONLY TrInv, <1>1, <2>3, <3>1, KeptAsSeen
      <4> QED BY ONLY <4>6, <4>7, <4>8
    <3>2. CASE ~Pipe!preserve(o)
      <4>1. PICK k : k = ran.blocks + 1
        BY ONLY Zenon
      <4>2. PICK m1 : m1 = [ran EXCEPT !.blocks = k]
        BY ONLY Zenon
      <4>3. IsMin(m1) /\ m1.best = trMin.best
        BY ONLY <2>5, <4>2, OneField
      <4>4. m = m1
        BY ONLY <2>3, <2>4, <3>2, <4>1, <4>2, Zenon
      <4> QED BY ONLY <1>1, <4>3, <4>4
    <3> QED BY <3>1, <3>2
  <2>7. trPhase \in {"blocks", "tree", "normalize"} /\ "tree" \in Minimizing
    BY <1>1 DEF Minimizing
  <2> QED BY ONLY TrInv, <2>3, <2>6, <2>7, StepToTrInv
<1> QED BY <1>3, <1>4, <1>5

\* A trial changes the report within its shape, and the class it notes is that of a run.
LEMMA TrialOf ==
    ASSUME TrShapes, NEW o, NEW rep, rep = Pipe!trial(trReport, o)
    PROVE  /\ rep = [trials |-> rep.trials, reproduced |-> rep.reproduced, class |-> rep.class,
                     divergent |-> rep.divergent]
           /\ rep.reproduced \in Nat
           /\ rep.class \in {trReport.class, o}
<1>1. PICK t, r, c, d : trReport = [trials |-> t, reproduced |-> r, class |-> c, divergent |-> d]
                        /\ r \in Nat
  BY DEF TrShapes
<1>2. trReport.reproduced = r /\ trReport.class = c /\ trReport.trials = t
  BY <1>1
<1>3. CASE ~Pipe!Crashed(o)
  <2>1. rep = [trials |-> t + 1, reproduced |-> r, class |-> c, divergent |-> d]
    BY <1>1, <1>2, <1>3 DEF Pipe!trial
  <2> QED BY <1>1, <1>2, <2>1
<1>4. CASE Pipe!Crashed(o)
  <2>1. PICK cl : cl = IF c = "none" THEN o ELSE c
    BY ONLY Zenon
  <2>2. PICK dv : dv = (trReport.divergent \/ (c # "none" /\ c # o))
    BY ONLY Zenon
  <2>3. rep = [trials |-> t + 1, reproduced |-> r + 1, class |-> cl, divergent |-> dv]
    BY ONLY rep = Pipe!trial(trReport, o), <1>2, <1>4, <2>1, <2>2, Zenon DEF Pipe!trial
  <2> QED BY <1>1, <1>2, <2>1, <2>3
<1> QED BY <1>3, <1>4

LEMMA VerifyTrInv == ASSUME TrInv, Pipe!Verify PROVE TrInv'
<1>1. TrShapes /\ NotYetRecorded /\ SameFailure /\ trPhase = "verify" /\ trResult.err = FALSE
  BY DEF TrInv, NotYetRecorded, Pipe!Verify
<1>2. PICK o \in Pipe!Outcomes(Pipe!Original) :
          /\ trReport' = Pipe!trial(trReport, o)
          /\ trPhase' \in {"verify", "report", "final", "tree", "blocks"}
          /\ trPhase' = "report" => trReport'.reproduced = 0
          /\ trResult' = [trResult EXCEPT !.state = Pipe!State(trReport'), !.minimized = Pipe!Original,
                                          !.signature = <<"unreproducible">>]
  BY DEF Pipe!Verify
<1>3. trMin' = Pipe!minimizer(trJob.node) /\ UNCHANGED <<trJob, trRow, trBlobs>>
  BY DEF Pipe!Verify
<1>4. /\ trReport' = [trials |-> trReport'.trials, reproduced |-> trReport'.reproduced,
                      class |-> trReport'.class, divergent |-> trReport'.divergent]
      /\ trReport'.reproduced \in Nat /\ trReport'.class \in {trReport.class, o}
  BY ONLY <1>1, <1>2, TrialOf
<1>5. PICK st, sg : trResult' = [state |-> st, minimized |-> Pipe!Original, signature |-> sg,
                                 err |-> FALSE]
  <2>1. PICK st, sg : st = Pipe!State(trReport') /\ sg = <<"unreproducible">>
    BY ONLY Zenon
  <2>2. trResult = [state |-> trResult.state, minimized |-> trResult.minimized,
                   signature |-> trResult.signature, err |-> trResult.err]
    BY <1>1 DEF TrShapes
  <2>3. PICK r1 : r1 = [trResult EXCEPT !.state = st]
    BY ONLY Zenon
  <2>4. r1 = [state |-> st, minimized |-> trResult.minimized, signature |-> trResult.signature,
              err |-> FALSE]
    BY ONLY <1>1, <2>2, <2>3
  <2>5. PICK r2 : r2 = [r1 EXCEPT !.minimized = Pipe!Original]
    BY ONLY Zenon
  <2>6. r2 = [state |-> st, minimized |-> Pipe!Original, signature |-> trResult.signature,
              err |-> FALSE]
    BY ONLY <2>4, <2>5
  <2>7. PICK r3 : r3 = [r2 EXCEPT !.signature = sg]
    BY ONLY Zenon
  <2>8. r3 = [state |-> st, minimized |-> Pipe!Original, signature |-> sg, err |-> FALSE]
    BY ONLY <2>6, <2>7
  <2>9. trResult' = r3
    BY ONLY <1>2, <2>1, <2>3, <2>5, <2>7, Zenon
  <2> QED BY ONLY <2>8, <2>9, Zenon
<1>6. IsMin(trMin') /\ trMin'.best = Pipe!Original
  <2>1. PICK m : m = Pipe!NoMin
    BY ONLY Zenon
  <2>2. IsMin(m)
    BY <2>1, StorageAssumption DEF IsMin, Pipe!NoMin
  <2>3. CASE trJob.node = TRUE
    <3>1. Pipe!encode(Pipe!Tree) = Pipe!Original
      BY <1>1, <2>3, TreeIsOriginal DEF TrShapes
    <3>2. PICK best : best = Pipe!Original
      BY ONLY Zenon
    <3>3. PICK m1 : m1 = [m EXCEPT !.best = best]
      BY ONLY Zenon
    <3>4. IsMin(m1) /\ m1.best = best
      BY ONLY <2>2, <3>3, OneField
    <3>5. PICK m2 : m2 = [m1 EXCEPT !.blocks = 1]
      BY ONLY Zenon
    <3>6. IsMin(m2) /\ m2.best = best
      BY ONLY <3>4, <3>5, OneField
    <3>7. trMin' = m2
      BY ONLY <1>3, <2>1, <2>3, <3>1, <3>2, <3>3, <3>5, Zenon DEF Pipe!minimizer
    <3> QED BY ONLY <3>2, <3>6, <3>7, Zenon
  <2>4. CASE ~(trJob.node = TRUE)
    <3>1. PICK best : best = Pipe!Original
      BY ONLY Zenon
    <3>2. trMin' = Pipe!newPass(m, best, 2)
      BY ONLY <1>3, <2>1, <2>4, <3>1, Zenon DEF Pipe!minimizer
    <3>3. PICK w : w = Pipe!newPass(m, best, 2)
      BY ONLY Zenon
    <3>4. IsMin(w) /\ w.best = best
      BY ONLY <2>2, <3>3, NewPass
    <3> QED BY ONLY <3>1, <3>2, <3>3, <3>4, Zenon
  <2> QED BY <2>3, <2>4
<1>7. TrShapes'
  <2>1. IsMin(trMin)'
    BY <1>6 DEF IsMin
  <2>2. trResult' = [state |-> trResult'.state, minimized |-> trResult'.minimized,
                     signature |-> trResult'.signature, err |-> trResult'.err]
        /\ trResult'.err \in BOOLEAN
    BY <1>5
  <2>3. trPhase' \in Minimizing \cup {"verify", "report", "done"}
    BY <1>2 DEF Minimizing
  <2>4. (trJob.flaky \in BOOLEAN /\ (trJob.node = TRUE => TrBytes >= 2))'
    BY <1>1, <1>3 DEF TrShapes
  <2> QED BY <1>4, <2>1, <2>2, <2>3, <2>4 DEF TrShapes
<1>8. NotYetRecorded'
  BY <1>1, <1>3, <1>5 DEF NotYetRecorded, Pipe!Original
<1>9. SameFailure'
  <2> SUFFICES ASSUME trJob.flaky = FALSE PROVE SameFailure'
    BY <1>3 DEF SameFailure
  <2>1. o = Seen /\ Seen' = Seen
    BY <1>2, <1>3, TrOutcomes DEF Seen, Pipe!Classify, Pipe!Original
  <2>2. trReport'.class \in {"none", Seen}
    BY <1>1, <1>4, <2>1 DEF SameFailure
  <2>3. Pipe!Classify(trMin.best)' = Seen /\ Pipe!Classify(trResult.minimized)' = Seen
    <3>1. trResult'.minimized = Pipe!Original
      BY <1>5
    <3> QED BY <1>3, <1>6, <3>1 DEF Seen, Pipe!Classify
  <2>4. trPhase' = "report" => ~(trReport'.reproduced > 0)
    BY <1>2
  <2> QED BY <2>1, <2>2, <2>3, <2>4 DEF SameFailure
<1>10. Pipe!ReproducerIsKept'
  <2>1. trPhase' # "done" /\ trMin'.runs \in 0 .. TrBudget
    BY <1>2, <1>6 DEF IsMin
  <2> QED BY ONLY <1>8, <2>1, NothingKept, StorageAssumption
<1> QED BY <1>7, <1>8, <1>9, <1>10 DEF TrInv

LEMMA BucketTrInv == ASSUME TrInv, Pipe!Bucket PROVE TrInv'
<1>1. TrShapes /\ NotYetRecorded /\ SameFailure /\ trPhase = "final" /\ trPhase \in Minimizing
  BY DEF TrInv, Pipe!Bucket, Minimizing
<1>2. trPhase' = "report" /\ UNCHANGED <<trJob, trReport, trMin, trRow, trBlobs>>
  BY DEF Pipe!Bucket
<1>3. PICK best, o, st :
          /\ best = IF trJob.skip THEN Pipe!Original ELSE trMin.best
          /\ o \in Pipe!Outcomes(best)
          /\ trResult' = [state |-> st, minimized |-> best, signature |-> Pipe!Signature(o),
                          err |-> FALSE]
  BY ONLY Pipe!Bucket, Zenon DEF Pipe!Bucket
<1>4. PICK sg : sg = Pipe!Signature(o)
  BY ONLY Zenon
<1>5. trResult' = [state |-> st, minimized |-> best, signature |-> sg, err |-> FALSE]
  BY ONLY <1>3, <1>4, Zenon
<1>6. TrShapes'
  <2>1. IsMin(trMin)'
    BY <1>1, <1>2 DEF TrShapes, IsMin
  <2>2. trResult' = [state |-> trResult'.state, minimized |-> trResult'.minimized,
                     signature |-> trResult'.signature, err |-> trResult'.err]
        /\ trResult'.err \in BOOLEAN
    BY <1>5
  <2> QED BY <1>1, <1>2, <2>1, <2>2 DEF TrShapes
<1>7. NotYetRecorded'
  BY <1>1, <1>2 DEF NotYetRecorded, Minimizing, Pipe!Original
<1>8. SameFailure'
  <2> SUFFICES ASSUME trJob.flaky = FALSE PROVE SameFailure'
    BY <1>2 DEF SameFailure
  <2>1. Pipe!Classify(best) = Seen
    <3>1. CASE best = Pipe!Original
      BY <3>1 DEF Seen
    <3>2. CASE best = trMin.best
      BY <1>1, <3>2 DEF SameFailure
    <3> QED BY ONLY <1>3, <3>1, <3>2, Zenon
  <2>2. o = Seen
    BY <1>3, <2>1, TrOutcomes
  <2>3. Seen' = Seen /\ trResult'.minimized = best /\ trResult'.signature = sg
    BY <1>2, <1>5 DEF Seen, Pipe!Classify, Pipe!Original
  <2>4. Pipe!Classify(trResult.minimized)' = Seen
    BY <1>2, <2>1, <2>3 DEF Pipe!Classify
  <2>5. Pipe!Signature(Seen)' = sg
    BY <1>4, <2>2, <2>3 DEF Pipe!Signature, Pipe!Crashed
  <2> QED BY <1>1, <1>2, <2>3, <2>4, <2>5 DEF SameFailure, Minimizing
<1>9. Pipe!ReproducerIsKept'
  <2>1. trPhase' # "done" /\ trMin'.runs \in 0 .. TrBudget
    BY <1>1, <1>2 DEF TrShapes, IsMin
  <2> QED BY ONLY <1>7, <2>1, NothingKept, StorageAssumption
<1> QED BY <1>6, <1>7, <1>8, <1>9 DEF TrInv

LEMMA FailsTrInv == ASSUME TrInv, Pipe!runFails PROVE TrInv'
<1>1. TrShapes /\ NotYetRecorded /\ SameFailure /\ trPhase \in Minimizing \cup {"verify"}
  BY DEF TrInv, Pipe!runFails, Minimizing
<1>2. /\ trPhase' = "report" /\ UNCHANGED <<trJob, trReport, trMin, trRow, trBlobs>>
      /\ trResult' = [trResult EXCEPT !.err = TRUE]
  BY DEF Pipe!runFails
<1>3. trResult' = [state |-> trResult.state, minimized |-> trResult.minimized,
                   signature |-> trResult.signature, err |-> TRUE]
  <2>1. PICK yes : yes = TRUE
    BY ONLY Zenon
  <2>2. trResult = [state |-> trResult.state, minimized |-> trResult.minimized,
                    signature |-> trResult.signature, err |-> trResult.err]
    BY <1>1 DEF TrShapes
  <2>3. PICK r : r = [trResult EXCEPT !.err = yes]
    BY ONLY Zenon
  <2>4. r = [state |-> trResult.state, minimized |-> trResult.minimized,
             signature |-> trResult.signature, err |-> yes]
    BY ONLY <2>2, <2>3
  <2> QED BY ONLY <1>2, <2>1, <2>3, <2>4, Zenon
<1>4. TrShapes'
  <2>1. IsMin(trMin)'
    BY <1>1, <1>2 DEF TrShapes, IsMin
  <2>2. trResult' = [state |-> trResult'.state, minimized |-> trResult'.minimized,
                     signature |-> trResult'.signature, err |-> trResult'.err]
        /\ trResult'.err \in BOOLEAN
    BY <1>3
  <2> QED BY <1>1, <1>2, <2>1, <2>2 DEF TrShapes
<1>5. NotYetRecorded'
  BY <1>1, <1>2 DEF NotYetRecorded, Minimizing, Pipe!Original
<1>6. SameFailure'
  <2>1. ~(trResult'.err = FALSE)
    BY <1>3
  <2> QED BY <1>1, <1>2, <2>1
          DEF SameFailure, Minimizing, Seen, Pipe!Classify, Pipe!Original
<1>7. Pipe!ReproducerIsKept'
  <2>1. trPhase' # "done" /\ trMin'.runs \in 0 .. TrBudget
    BY <1>1, <1>2 DEF TrShapes, IsMin
  <2> QED BY ONLY <1>5, <2>1, NothingKept, StorageAssumption
<1> QED BY <1>4, <1>5, <1>6, <1>7 DEF TrInv

\* What the caller is told of a pass, and no more, is recorded.
LEMMA RecordTrInv == ASSUME TrInv, Pipe!onTriaged PROVE TrInv'
<1>1. /\ TrShapes /\ NotYetRecorded /\ SameFailure /\ Pipe!ReproducerIsKept
      /\ trPhase = "report" /\ trPhase' = "done"
      /\ UNCHANGED <<trJob, trReport, trMin, trResult>>
  BY DEF TrInv, Pipe!onTriaged
<1>2. PICK smaller \in BOOLEAN, updated \in BOOLEAN, filed \in BOOLEAN :
          /\ smaller => Len(trResult.minimized) < TrBytes /\ trResult.err = FALSE
          /\ updated => trResult.err = FALSE
          /\ filed => trReport.reproduced > 0
          /\ smaller => trBlobs' = trBlobs \cup {trResult.minimized}
          /\ ~updated => trRow' = trRow
          /\ updated => trRow' = [state |-> trResult.state,
                                  minimized |-> IF smaller THEN trResult.minimized ELSE trRow.minimized,
                                  bucket |-> IF filed THEN trResult.signature ELSE trRow.bucket]
          /\ trResult.err = TRUE => trBlobs' = trBlobs
  <2>1. trResult.err \in BOOLEAN
    BY <1>1 DEF TrShapes
  <2>2. PICK found, stored, upd, fld \in BOOLEAN :
            LET smaller == stored /\ Len(trResult.minimized) < TrBytes IN
            /\ trBlobs' = IF ~trResult.err /\ found /\ smaller THEN trBlobs \cup {trResult.minimized}
                          ELSE trBlobs
            /\ trRow' = IF trResult.err \/ ~found \/ ~upd THEN trRow
                        ELSE [state |-> trResult.state,
                              minimized |-> IF smaller THEN trResult.minimized ELSE trRow.minimized,
                              bucket |-> IF fld /\ trReport.reproduced > 0 THEN trResult.signature
                                         ELSE trRow.bucket]
    BY ONLY Pipe!onTriaged, Zenon DEF Pipe!onTriaged
  <2> DEFINE smaller == found /\ stored /\ Len(trResult.minimized) < TrBytes /\ trResult.err = FALSE
             updated == found /\ upd /\ trResult.err = FALSE
             filed == fld /\ trReport.reproduced > 0
  <2>3. smaller \in BOOLEAN /\ updated \in BOOLEAN /\ filed \in BOOLEAN
    BY ONLY Zenon
  <2>4. trBlobs' = IF smaller THEN trBlobs \cup {trResult.minimized} ELSE trBlobs
    BY ONLY <2>1, <2>2, Zenon
  <2>5. ~updated => trRow' = trRow
    BY ONLY <2>1, <2>2, Zenon
  <2>6. updated => trRow' = [state |-> trResult.state,
                             minimized |-> IF smaller THEN trResult.minimized ELSE trRow.minimized,
                             bucket |-> IF filed THEN trResult.signature ELSE trRow.bucket]
    BY ONLY <2>1, <2>2, Zenon
  <2> HIDE DEF smaller, updated, filed
  <2>7. smaller => Len(trResult.minimized) < TrBytes /\ trResult.err = FALSE
    BY ONLY Zenon DEF smaller
  <2>8. updated => trResult.err = FALSE
    BY ONLY Zenon DEF updated
  <2>9. filed => trReport.reproduced > 0
    BY ONLY Zenon DEF filed
  <2>10. trResult.err = TRUE => trBlobs' = trBlobs
    <3>1. trResult.err = TRUE => ~smaller
      BY ONLY <2>7, Zenon
    <3> QED BY ONLY <2>4, <3>1, Zenon
  <2>11. smaller => trBlobs' = trBlobs \cup {trResult.minimized}
    BY ONLY <2>4, Zenon
  <2> QED BY ONLY <2>3, <2>5, <2>6, <2>7, <2>8, <2>9, <2>10, <2>11, Zenon
<1>3. trRow = [state |-> "new", minimized |-> << >>, bucket |-> << >>] /\ trBlobs = {Pipe!Original}
  BY <1>1 DEF NotYetRecorded
<1>4. trRow.minimized = << >> /\ trRow.bucket = << >> /\ trRow.state = "new"
  BY ONLY <1>3
<1>5. trRow'.minimized # << >> => smaller /\ trRow'.minimized = trResult.minimized
  BY ONLY <1>2, <1>4
<1>6. trRow'.bucket # << >> => updated /\ filed /\ trRow'.bucket = trResult.signature
  BY ONLY <1>2, <1>4
<1>7. TrShapes' /\ NotYetRecorded' /\ SameFailure'
  BY <1>1 DEF TrShapes, IsMin, NotYetRecorded, SameFailure, Minimizing, Seen, Pipe!Classify,
              Pipe!Original
<1>8. trJob.flaky = FALSE /\ trResult.err = FALSE =>
          /\ Pipe!Classify(trResult.minimized) = Seen
          /\ trReport.reproduced > 0 => trResult.signature = Pipe!Signature(Seen)
  BY <1>1 DEF SameFailure
<1>9. Pipe!ReproducerIsKept'
  <2>1. trRow'.minimized # << >> =>
            /\ trRow'.minimized \in trBlobs'
            /\ Len(trRow'.minimized) < TrBytes
            /\ trJob.flaky = FALSE => Pipe!Classify(trRow'.minimized) = Seen
    BY ONLY <1>2, <1>5, <1>8
  <2>2. trJob.flaky = FALSE /\ trRow'.bucket # << >> => trRow'.bucket = Pipe!Signature(Seen)
    BY ONLY <1>2, <1>6, <1>8
  <2>3. trResult.err = TRUE => trRow'.state = "new" /\ trBlobs' = {Pipe!Original}
    BY ONLY <1>2, <1>3, <1>4
  <2>4. trMin.runs <= TrBudget /\ trResult.err \in BOOLEAN /\ trJob.flaky \in BOOLEAN
    BY <1>1 DEF Pipe!ReproducerIsKept, TrShapes
  <2> QED BY ONLY <1>1, <2>1, <2>2, <2>3, <2>4, Zenon
          DEF Pipe!ReproducerIsKept, Seen, Pipe!Classify, Pipe!Original
<1> QED BY <1>7, <1>9 DEF TrInv

LEMMA StepTrInv == TrInv /\ [Next]_vars => TrInv'
<1> SUFFICES ASSUME TrInv, [Next]_vars PROVE TrInv'
  OBVIOUS
<1>1. CASE UNCHANGED trVars
  BY <1>1 DEF trVars, TrInv, TrShapes, IsMin, NotYetRecorded, SameFailure, Seen, Pipe!Classify,
              Pipe!Original, Pipe!Signature, Pipe!Crashed, Pipe!ReproducerIsKept
<1>2. CASE Pipe!cancel
  BY <1>2 DEF Pipe!cancel, TrInv, TrShapes, IsMin, NotYetRecorded, SameFailure, Seen,
              Pipe!Classify, Pipe!Original, Pipe!Signature, Pipe!Crashed, Pipe!ReproducerIsKept
<1>3. CASE Pipe!Next
  BY <1>2, <1>3, VerifyTrInv, BlockTrInv, FillerTrInv, RemovalTrInv, BucketTrInv, FailsTrInv,
     RecordTrInv DEF Pipe!Next
<1> QED BY <1>1, <1>3 DEF Next, vars, storeVars

\* What triage records of a finding is a reproducer of it: the blob it names is stored,
\* it is shorter than the original and, on a target that always behaves alike, it fails
\* as the original did and is filed under that failure.  A pass that met an error records
\* nothing, and the minimiser stays within its budget.
THEOREM ReproducersCorrect == Spec => []ReproducerIsKept
<1>1. TrInv => ReproducerIsKept
  BY DEF TrInv, ReproducerIsKept
<1> QED BY <1>1, InitTrInv, StepTrInv, PTL DEF Spec

-----------------------------------------------------------------------------
(* The level of isolation (Sandbox).                                         *)

\* The host and the policy are as Init chose them.
SbTypes ==
    /\ sbHost \in Sb!DetectSandbox
    /\ sbPolicy \in [hatches : SUBSET Sb!Hatches, require : 0 .. 3]
    /\ sbProbed \in {"unknown", "yes", "no"}
    /\ sbChecked \in {"no", "refused", "accepted"}

\* What is remembered of the probe is what the probe would find, whoever asked first.
ProbeIsTrue == sbProbed # "unknown" => (sbProbed = "yes" <=> Sb!probeReadOnlyRoot)

\* What was accepted has the level it requires.
AcceptedIsEnough == sbChecked = "accepted" => Sb!level >= sbPolicy.require

\* A command was built from an accepted sandbox, by the rules of wrap and namespaces.
CommandIsBuilt ==
    sbCommand # Sb!NoCommand =>
        /\ sbChecked = "accepted"
        /\ sbCommand.args = Sb!wrap.args
        /\ sbCommand.forks \in BOOLEAN /\ sbCommand.cgroup \in Sb!ensureCgroup
        /\ Sb!level > 1 => sbCommand.namespaces = Sb!namespaces(sbCommand.forks)

SbInv == part = "sandbox" => SbTypes /\ ProbeIsTrue /\ AcceptedIsEnough /\ CommandIsBuilt

\* Only a host with the profile of macOS is confined, and it has no helper.
LEMMA ConfinedHasNoHelper ==
    ASSUME SbTypes, Sb!Has("confined") PROVE ~Sb!Has("helper")
BY DEF SbTypes, Sb!DetectSandbox, Sb!Mechanisms, Sb!Has

\* The probe answers alike before and after it was made.
LEMMA ProbeIsRoRoot == ASSUME ProbeIsTrue, SbTypes PROVE Sb!roRoot <=> Sb!probeReadOnlyRoot
BY DEF ProbeIsTrue, SbTypes, Sb!roRoot

LEMMA LevelIsLevel == Sb!level \in 0 .. 3
BY DEF Sb!level

\* What the level promises is on the command line or among the namespaces.
LEMMA LevelIsInForce ==
    ASSUME SbTypes, ProbeIsTrue, NEW forks \in BOOLEAN
    PROVE  /\ Sb!level = 3 => /\ {"ro-root", "uid", "seccomp"} \subseteq Sb!wrap.args
                              /\ "mount" \in Sb!namespaces(forks)
                              /\ forks /\ ~Sb!Asked("hostPIDs") => "pid" \in Sb!namespaces(forks)
                              /\ Sb!ensureCgroup = {"attached", "failed"}
           /\ Sb!level = 2 => \/ "seccomp" \in Sb!wrap.args
                              \/ "mount" \in Sb!namespaces(forks)
                              \/ "confine" \in Sb!wrap.args
<1>1. CASE Sb!Asked("unconfined")
  BY <1>1 DEF Sb!level
<1>2. CASE ~Sb!Asked("unconfined")
  <2>1. Sb!Has("mountNS") => "mount" \in Sb!namespaces(forks)
    BY <1>2 DEF Sb!namespaces
  <2>2. Sb!seccompApplies => "seccomp" \in Sb!wrap.args
    BY <1>2 DEF Sb!seccompApplies, Sb!wrap
  <2>3. Sb!Has("confined") => "confine" \in Sb!wrap.args
    BY <1>2, ConfinedHasNoHelper DEF Sb!wrap
  <2>4. Sb!Has("helper") /\ Sb!Has("root") => "uid" \in Sb!wrap.args
    BY <1>2 DEF Sb!wrap, Sb!dropTo
  <2>5. Sb!Has("helper") /\ Sb!roRoot => "ro-root" \in Sb!wrap.args
    BY <1>2, ProbeIsRoRoot DEF Sb!wrap, Sb!probeReadOnlyRoot
  <2>6. Sb!level = 3 => /\ Sb!Has("helper") /\ Sb!Has("root") /\ Sb!Has("mountNS")
                        /\ Sb!Has("pidNS") /\ Sb!Has("cgroupV2")
                        /\ Sb!seccompApplies /\ Sb!roRoot
    BY <1>2 DEF Sb!level
  <2>8. Sb!Has("pidNS") /\ forks /\ ~Sb!Asked("hostPIDs") => "pid" \in Sb!namespaces(forks)
    BY <1>2 DEF Sb!namespaces
  <2>9. Sb!Has("cgroupV2") => Sb!ensureCgroup = {"attached", "failed"}
    BY <1>2 DEF Sb!ensureCgroup
  <2>7. Sb!level = 2 => Sb!Has("mountNS") \/ Sb!seccompApplies \/ Sb!Has("confined")
    BY <1>2 DEF Sb!level
  <2> QED BY <2>1, <2>2, <2>3, <2>4, <2>5, <2>6, <2>7, <2>8, <2>9
<1> QED BY <1>1, <1>2

LEMMA InitSbInv == Init => SbInv
<1> SUFFICES ASSUME Init, part = "sandbox" PROVE SbInv
  BY DEF SbInv
<1>1. Sb!Init
  BY DEF Init
<1> QED BY <1>1 DEF SbInv, SbTypes, ProbeIsTrue, AcceptedIsEnough, CommandIsBuilt, Sb!Init,
           Sb!Levels, Sb!NoCommand

\* A step that probes, and leaves host and policy alone, changes nothing that is derived
\* from them.
LEMMA DerivedStays ==
    ASSUME SbTypes, ProbeIsTrue, SbTypes', ProbeIsTrue', UNCHANGED <<sbHost, sbPolicy>>
    PROVE  /\ Sb!level' = Sb!level /\ Sb!wrap' = Sb!wrap
           /\ \A forks \in BOOLEAN : Sb!namespaces(forks)' = Sb!namespaces(forks)
           /\ Sb!ensureCgroup' = Sb!ensureCgroup
<1>1. Sb!probeReadOnlyRoot' <=> Sb!probeReadOnlyRoot
  BY DEF Sb!probeReadOnlyRoot, Sb!Asked, Sb!Has
<1>2. Sb!roRoot' <=> Sb!roRoot
  BY <1>1 DEF SbTypes, ProbeIsTrue, Sb!roRoot
<1>3. Sb!seccompApplies' <=> Sb!seccompApplies
  BY DEF Sb!seccompApplies, Sb!Asked, Sb!Has
<1>4. Sb!level' = Sb!level
  BY <1>2, <1>3 DEF Sb!level, Sb!Asked, Sb!Has
<1>5. Sb!wrap' = Sb!wrap
  BY <1>2 DEF Sb!wrap, Sb!dropTo, Sb!Asked, Sb!Has
<1>6. \A forks \in BOOLEAN : Sb!namespaces(forks)' = Sb!namespaces(forks)
  BY DEF Sb!namespaces, Sb!Asked, Sb!Has
<1>7. Sb!ensureCgroup' = Sb!ensureCgroup
  BY DEF Sb!ensureCgroup, Sb!Asked, Sb!Has
<1> QED BY <1>4, <1>5, <1>6, <1>7

\* Probe keeps what it finds.
LEMMA ProbedIsTrue ==
    ASSUME SbTypes, ProbeIsTrue, Sb!Probed, UNCHANGED <<sbHost, sbPolicy>>
    PROVE  sbProbed' \in {"yes", "no"} /\ ProbeIsTrue'
<1>1. sbProbed' = IF Sb!probeReadOnlyRoot THEN "yes" ELSE "no"
  BY ProbeIsRoRoot DEF Sb!Probed
<1>2. Sb!probeReadOnlyRoot' <=> Sb!probeReadOnlyRoot
  BY DEF Sb!probeReadOnlyRoot, Sb!Asked, Sb!Has
<1> QED BY <1>1, <1>2 DEF ProbeIsTrue

LEMMA StepSbInv == SbInv /\ [Next]_vars => SbInv'
<1> SUFFICES ASSUME SbInv, [Next]_vars, part' = "sandbox" PROVE SbInv'
  BY DEF SbInv
<1>1. part = "sandbox"
  BY DEF Next, vars
<1>2. SbTypes /\ ProbeIsTrue /\ AcceptedIsEnough /\ CommandIsBuilt
  BY <1>1 DEF SbInv
<1>3. CASE UNCHANGED sbVars
  BY <1>2, <1>3 DEF SbInv, SbTypes, ProbeIsTrue, AcceptedIsEnough, CommandIsBuilt, sbVars,
     Sb!probeReadOnlyRoot, Sb!roRoot, Sb!level, Sb!seccompApplies, Sb!wrap, Sb!dropTo,
     Sb!namespaces, Sb!ensureCgroup, Sb!Asked, Sb!Has
<1>4. CASE Sb!Check
  <2>1. /\ UNCHANGED <<sbHost, sbPolicy, sbCommand>> /\ sbChecked = "no" /\ Sb!Probed
        /\ sbChecked' \in {"refused", "accepted"}
        /\ sbChecked' = "accepted" => ~(Sb!level < sbPolicy.require)
    BY <1>4 DEF Sb!Check
  <2>2. SbTypes' /\ ProbeIsTrue'
    BY <1>2, <2>1, ProbedIsTrue DEF SbTypes
  <2>3. Sb!level' = Sb!level
    BY <1>2, <2>1, <2>2, DerivedStays
  <2>4. AcceptedIsEnough'
    BY <1>2, <2>1, <2>3, LevelIsLevel DEF AcceptedIsEnough, SbTypes
  <2>5. sbCommand' = Sb!NoCommand
    BY <1>2, <2>1 DEF CommandIsBuilt
  <2>6. CommandIsBuilt'
    BY <2>5 DEF CommandIsBuilt, Sb!NoCommand
  <2> QED BY <2>2, <2>4, <2>6 DEF SbInv
<1>5. ASSUME NEW forks \in BOOLEAN, Sb!command(forks) PROVE SbInv'
  <2>0. PICK cgroup \in Sb!ensureCgroup :
            sbCommand' = [forks |-> forks, helper |-> Sb!wrap.helper, args |-> Sb!wrap.args,
                          namespaces |-> IF sbPolicy.require # 0 \/ Sb!level > 1
                                         THEN Sb!namespaces(forks) ELSE {},
                          cgroup |-> cgroup]
    BY <1>5 DEF Sb!command
  <2>1. UNCHANGED <<sbHost, sbPolicy, sbChecked>> /\ sbChecked = "accepted" /\ Sb!Probed
    BY <1>5 DEF Sb!command
  <2>2. SbTypes' /\ ProbeIsTrue'
    BY <1>2, <2>1, ProbedIsTrue DEF SbTypes
  <2>3. /\ Sb!level' = Sb!level /\ Sb!wrap' = Sb!wrap
        /\ Sb!namespaces(forks)' = Sb!namespaces(forks) /\ Sb!ensureCgroup' = Sb!ensureCgroup
    BY <1>2, <1>5, <2>1, <2>2, DerivedStays
  <2>4. AcceptedIsEnough'
    BY <1>2, <2>1, <2>3 DEF AcceptedIsEnough
  <2>5. /\ sbCommand'.args = Sb!wrap.args /\ sbCommand'.cgroup = cgroup
        /\ Sb!level > 1 => sbCommand'.namespaces = Sb!namespaces(forks)
    BY <2>0
  <2>7. sbCommand'.forks = forks
    BY <2>0
  <2>6. CommandIsBuilt'
    BY <1>5, <2>0, <2>1, <2>3, <2>5, <2>7 DEF CommandIsBuilt
  <2> QED BY <2>2, <2>4, <2>6 DEF SbInv
<1> QED BY <1>1, <1>3, <1>4, <1>5 DEF Next, vars, confVars, Sb!Next

\* On every host and under every policy, what the strong level counts is on every command
\* line, except a PID namespace for a target that does not fork or whose campaign asked for
\* the host's, and a cgroup that could not be made; the moderate level has a mechanism that
\* makes it so; and no target starts below the level the campaign requires.
THEOREM LevelsCorrect == Spec => []LevelIsHonest
<1>1. ASSUME SbInv, part = "sandbox" PROVE Sb!TypeOK /\ Sb!LevelIsHonest
  <2>1. SbTypes /\ ProbeIsTrue /\ AcceptedIsEnough /\ CommandIsBuilt
    BY <1>1 DEF SbInv
  <2>2. Sb!TypeOK
    BY <2>1 DEF SbTypes, Sb!TypeOK
  <2>3. ASSUME sbCommand # Sb!NoCommand PROVE Sb!LevelIsHonest
    <3>1. /\ Sb!level >= sbPolicy.require /\ sbCommand.args = Sb!wrap.args
          /\ sbCommand.forks \in BOOLEAN /\ sbCommand.cgroup \in Sb!ensureCgroup
          /\ Sb!level > 1 => sbCommand.namespaces = Sb!namespaces(sbCommand.forks)
      BY <2>1, <2>3 DEF AcceptedIsEnough, CommandIsBuilt
    <3>2. CASE Sb!level > 1
      <4>1. /\ Sb!level = 3 => /\ {"ro-root", "uid", "seccomp"} \subseteq Sb!wrap.args
                               /\ "mount" \in Sb!namespaces(sbCommand.forks)
                               /\ sbCommand.forks /\ ~Sb!Asked("hostPIDs")
                                  => "pid" \in Sb!namespaces(sbCommand.forks)
                               /\ Sb!ensureCgroup = {"attached", "failed"}
            /\ Sb!level = 2 => \/ "seccomp" \in Sb!wrap.args
                               \/ "mount" \in Sb!namespaces(sbCommand.forks)
                               \/ "confine" \in Sb!wrap.args
        BY <2>1, <3>1, LevelIsInForce
      <4>2. Sb!level = 3 => sbCommand.cgroup # "no"
        BY <3>1, <4>1
      <4> QED BY <3>1, <3>2, <4>1, <4>2 DEF Sb!LevelIsHonest
    <3>3. CASE ~(Sb!level > 1)
      BY <3>1, <3>3, LevelIsLevel DEF Sb!LevelIsHonest
    <3> QED BY <3>2, <3>3
  <2> QED BY <2>2, <2>3 DEF Sb!LevelIsHonest
<1>2. SbInv => LevelIsHonest
  BY <1>1 DEF LevelIsHonest
<1> QED BY <1>2, InitSbInv, StepSbInv, PTL DEF Spec
=============================================================================
