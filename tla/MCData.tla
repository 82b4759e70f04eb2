------------------------------- MODULE MCData -------------------------------
(***************************************************************************)
(* What a campaign keeps and what it computes: the blob store with its     *)
(* collector, the findings with their triage, the audit log, and what      *)
(* triage does with one finding; the host made into a level of isolation,  *)
(* a capture into sessions, a target into a machine, and a mutated tree    *)
(* into bytes.  They share no variable, so a behaviour exercises one of    *)
(* them, the one that part names; the variables of the others keep their   *)
(* first values, those of the second group 0.                              *)
(***************************************************************************)
EXTENDS Integers, Sequences, FiniteSets, TLC

CONSTANTS
    Digests, Writers, Readers, MaxKept, MaxSaves, MaxFaults,
    Pumps, Handlers, Signatures, NoID, NoRow, QueueCap, MaxReports, MaxCalls,
    Texts, MaxEntries, MaxEdits,
    TrBytes, TrTrials, TrBudget, TrLinks,
    PcSpace, PcSyn, PcBytes, PcLongest, PcCapacity, PcSegments,
    CpFields, CpValues, CpScheme, CpMin, CpTracked, CpExchanges, CpTotal,
    LnAlphabet, LnTargets, LnQueries, LnStates, LnWords, LnLength, LnPatience,
    FxByte, FxTrees, FxSuppress, FxEdits,
    ArNodes, ArKids, ArBytes, ArSeeds, ArEdits, ArLoops,
    Parts   \* the parts this instance exercises

VARIABLES
    part,
    file, aged, entry, cited, writer, reader, gc, cull, held, spoiled, saves, faults,
    row, bucket, bucketOf, pump, queue, dropped, failed, triager, call, reports, calls,
    log, head, saved, sealed, edits,
    trJob, trPhase, trReport, trMin, trResult, trRow, trBlobs, trDone,

    sbHost, sbPolicy, sbReach, sbProbed, sbChecked, sbCommand,
    pcISN, pcBase, pcHaveBase, pcChunks, pcSize, pcKept, pcShrunk, pcMoved, pcSeen,
    cpCapture, cpPhase, cpRedacted, cpSecrets, cpSession, cpLinks,
    lnTarget, lnLeft, lnPhase, lnS, lnE, lnRows, lnAsked, lnHyp, lnRounds,
    lnChecked, lnWhy,
    fxTree, fxBuf, fxOutcome, fxSup, fxWas, fxCount,
    arMem, arPtr, arHeap, arCorpus, arKept, arRoot, arValue, arEdits, arLoops

Blobs == INSTANCE BlobStore
Finds == INSTANCE Findings
Audits == INSTANCE AuditLog
Pipe == INSTANCE Triage
Sb == INSTANCE Sandbox
Cp == INSTANCE Capture
Ln == INSTANCE Learner
Fx == INSTANCE Fixup
Ar == INSTANCE Arena

\* An ID names a digest, of which there are finitely many; the two markers for no
\* ID and no row are values of their own.
ASSUME StorageAssumption ==
    /\ IsFiniteSet(Digests) /\ NoID \notin Digests
    /\ NoRow \notin Finds!Row /\ QueueCap \in Nat
    /\ {TrBytes, TrBudget} \subseteq Nat

blobVars == <<file, aged, entry, cited, writer, reader, gc, cull, held, spoiled, saves,
              faults>>
findVars == <<row, bucket, bucketOf, pump, queue, dropped, failed, triager, call,
              reports, calls>>
auditVars == <<log, head, saved, sealed, edits>>
trVars == <<trJob, trPhase, trReport, trMin, trResult, trRow, trBlobs, trDone>>
storeVars == <<blobVars, findVars, auditVars, trVars>>

sbVars == <<sbHost, sbPolicy, sbReach, sbProbed, sbChecked, sbCommand>>
pcVars == <<pcISN, pcBase, pcHaveBase, pcChunks, pcSize, pcKept, pcShrunk,
            pcMoved, pcSeen>>
cpVars == <<cpCapture, cpPhase, cpRedacted, cpSecrets, cpSession, cpLinks>>
lnVars == <<lnTarget, lnLeft, lnPhase, lnS, lnE, lnRows, lnAsked, lnHyp, lnRounds,
            lnChecked, lnWhy>>
fxVars == <<fxTree, fxBuf, fxOutcome, fxSup, fxWas, fxCount>>
arVars == <<arMem, arPtr, arHeap, arCorpus, arKept, arRoot, arValue, arEdits,
            arLoops>>
confVars == <<sbVars, pcVars, cpVars, lnVars, fxVars, arVars>>

vars == <<part, storeVars, confVars>>

Init ==
    /\ part \in Parts
    /\ Blobs!Init /\ Finds!Init /\ Audits!Init /\ Pipe!Init
    /\ part # "triage" => trJob = [a |-> {}, b |-> {}, flaky |-> FALSE, node |-> FALSE, skip |-> FALSE,
                                  normalize |-> FALSE]
    /\ IF part = "sandbox" THEN Sb!Init
       ELSE /\ sbHost = 0 /\ sbPolicy = 0 /\ sbReach = 0 /\ sbProbed = 0 /\ sbChecked = 0
            /\ sbCommand = 0
    /\ IF part = "pcap" THEN Cp!StreamInit
       ELSE /\ pcISN = 0 /\ pcBase = 0 /\ pcHaveBase = 0 /\ pcChunks = 0 /\ pcSize = 0
            /\ pcKept = 0 /\ pcShrunk = 0 /\ pcMoved = 0 /\ pcSeen = 0
    /\ IF part = "capture" THEN Cp!Init
       ELSE /\ cpCapture = 0 /\ cpPhase = 0 /\ cpRedacted = 0 /\ cpSecrets = 0
            /\ cpSession = 0 /\ cpLinks = 0
    /\ IF part = "learner" THEN Ln!Init
       ELSE /\ lnTarget = 0 /\ lnLeft = 0 /\ lnPhase = 0 /\ lnS = 0 /\ lnE = 0
            /\ lnRows = 0 /\ lnAsked = 0 /\ lnHyp = 0 /\ lnRounds = 0 /\ lnChecked = 0
            /\ lnWhy = 0
    /\ IF part = "fixup" THEN Fx!FixInit
       ELSE /\ fxTree = 0 /\ fxBuf = 0 /\ fxOutcome = 0 /\ fxSup = 0 /\ fxWas = 0
            /\ fxCount = 0
    /\ IF part = "arena" THEN Ar!ArenaInit
       ELSE /\ arMem = 0 /\ arPtr = 0 /\ arHeap = 0 /\ arCorpus = 0 /\ arKept = 0
            /\ arRoot = 0 /\ arValue = 0 /\ arEdits = 0 /\ arLoops = 0

Next ==
    \/ part = "blobs" /\ Blobs!Next /\ UNCHANGED <<part, findVars, auditVars, trVars, confVars>>
    \/ part = "findings" /\ Finds!Next /\ UNCHANGED <<part, blobVars, auditVars, trVars, confVars>>
    \/ part = "audit" /\ Audits!Next /\ UNCHANGED <<part, blobVars, findVars, trVars, confVars>>
    \/ part = "triage" /\ Pipe!Next /\ UNCHANGED <<part, blobVars, findVars, auditVars, confVars>>
    \/ part = "sandbox" /\ Sb!Next /\ UNCHANGED <<part, storeVars, pcVars, cpVars, lnVars, fxVars, arVars>>
    \/ part = "pcap" /\ Cp!StreamNext /\ UNCHANGED <<part, storeVars, sbVars, cpVars, lnVars, fxVars, arVars>>
    \/ part = "capture" /\ Cp!Next /\ UNCHANGED <<part, storeVars, sbVars, pcVars, lnVars, fxVars, arVars>>
    \/ part = "learner" /\ Ln!Next /\ UNCHANGED <<part, storeVars, sbVars, pcVars, cpVars, fxVars, arVars>>
    \/ part = "fixup" /\ Fx!FixNext /\ UNCHANGED <<part, storeVars, sbVars, pcVars, cpVars, lnVars, arVars>>
    \/ part = "arena" /\ Ar!ArenaNext /\ UNCHANGED <<part, storeVars, sbVars, pcVars, cpVars, lnVars, fxVars>>

\* Which digest, writer, pump or bucket is which makes no difference.
Symmetry ==
    Permutations(Digests) \cup Permutations(Writers) \cup Permutations(Pumps)
    \cup Permutations(Signatures)

Spec == Init /\ [][Next]_vars

\* A row never promises a payload that does not exist (BlobStore), and changes
\* of the audit log are noticed, and only they (AuditLog).
StoreIsSound == Blobs!TypeOK /\ Blobs!RowsHavePayloads /\ Audits!VerifiesIffIntact

\* A bucket's count is the number of findings in it, the campaign's view of a
\* finding's bucket is the store's, and no finding is left untriaged in silence
\* (Findings).
FindingsAreAccounted ==
    Finds!TypeOK /\ Finds!CountsAreExact /\ Finds!BucketOfAgrees /\ Finds!NewIsAccountedFor

\* Triage never changes a person's judgement (Findings).
JudgementIsKept == Finds!JudgementIsKept

\* What triage records of a finding reproduces it (Triage).
ReproducerIsKept == Pipe!ReproducerIsKept

\* The level reported and the command built agree on what the level rests on, and no target
\* is started below the level required (Sandbox).
LevelIsHonest == part = "sandbox" => Sb!TypeOK /\ Sb!LevelIsHonest

\* What becomes of sessions: a reassembled stream is bytes of the connection, in order;
\* a redacted session comes back whole, and a value is carried only from an earlier
\* answer to a later request (Capture); a machine learnt from sessions agrees with every
\* answer it was made from, and every counterexample makes it grow (Learner).
SessionsAreUsable ==
    /\ part = "pcap" => Cp!StreamTypeOK /\ Cp!StreamIsReal
    /\ part = "capture" => Cp!SecretsComeBack /\ Cp!LinksAreCausal
    /\ part = "learner" => Ln!TypeOK /\ Ln!MachineExplainsTable /\ Ln!EachRoundSplits

\* Derived fields hold what they are defined to hold (Fixup), and a tree in the
\* arena, or in the corpus beside it, reads as it was written (Arena).
TreesAreTrue ==
    /\ part = "fixup" => Fx!FixupTypeOK /\ Fx!DerivedIsTrue
    /\ part = "arena" => Ar!TreesReadAsWritten

----------------------------------------------------------------------------
(* Statements of the code's comments that the code does not keep: TLC       *)
(* refutes each of them in this instance.                                   *)

\* audit.go, metaAuditHead: a truncated log does not verify (AuditLog).
TruncationShows == Audits!TruncationShows

\* triage.go, Minimize: an unreliable finding is not upgraded (Findings).
MinimizeNeverUpgrades == Finds!MinimizeNeverUpgrades

\* sandbox.go, Level and LevelStrong: what the level counts is applied (Sandbox).
CountedIsApplied == part = "sandbox" => Sb!CountedIsApplied
StrongHasUserNamespace == part = "sandbox" => Sb!StrongHasUserNamespace

----------------------------------------------------------------------------
(* Values of the constants.                                                *)

\* Fields of a capture: whether a field is a credential's, and its text.
F(cred, text) == [cred |-> cred, text |-> text]
Fields == {F(TRUE, <<1, 1, 2>>), F(TRUE, <<5, 1, 1>>), F(FALSE, <<2, 2, 1, 1, 2>>), F(TRUE, <<2, 2>>),
           F(TRUE, <<3>>), F(FALSE, <<1, 1>>)}
Values == << <<1, 1>>, <<1, 1, 2>>, <<2, 2>> >>

\* Machines: every one of two states, and a family of three.
L(x, y) == [l \in {"a", "b"} |-> IF l = "a" THEN x ELSE y]
M(trans, out) == [states |-> Len(trans), trans |-> trans, out |-> out]
Alphabet == <<"a", "b">>
Targets ==
    LET moves == {L(x, y) : x, y \in 1..2}
        says == {L(x, y) : x, y \in {"p", "q"}}
    IN  {M(<<m1, m2>>, <<o1, o2>>) : m1, m2 \in moves, o1, o2 \in says}
        \cup {M(<<L(2, 1), L(3, y), L(x, 3)>>, <<L("p", "p"), L("p", "p"), L("q", o)>>) :
                x, y \in 1..3, o \in {"p", "q"}}

\* Trees.  A reference is by numbers of children, from the root or an ancestor.
Abs(steps) == [self |-> FALSE, absolute |-> TRUE, up |-> 0, steps |-> steps]
Rel(up, steps) == [self |-> FALSE, absolute |-> FALSE, up |-> up, steps |-> steps]
NoTo == Rel(0, <<>>)
Der(k, from, to, algo, zero, add) ==
    [kind |-> k, from |-> from, to |-> to, algo |-> algo, selfZero |-> zero, addend |-> add]
Node(kind, kids) ==
    [kind |-> kind, kids |-> kids, width |-> 1, endian |-> "big", val |-> 0, raw |-> <<>>, sel |-> 1,
     present |-> TRUE, derive |-> Der("none", NoTo, NoTo, "none", FALSE, 0)]
Bytes(r) == [Node("bytes", <<>>) EXCEPT !.raw = r]
Derived(d) == [Node("derived", <<>>) EXCEPT !.derive = d, !.val = 1]
Sum(over, zero) == Derived(Der("checksum", over[1], over[2], "sum16", zero, 0))

\* Three checksums, which read one another in every way their ranges allow.
Places == <<Abs(<<>>), Abs(<<1>>), Abs(<<2>>), Abs(<<2, 1>>), Abs(<<2, 2>>), Abs(<<2, 3>>), Abs(<<3>>)>>
Spans == {<<Places[i], NoTo>> : i \in {2, 3, 4, 6}}
         \cup {<<Places[p[1]], Places[p[2]]>> : p \in {<<2, 5>>, <<5, 6>>, <<3, 7>>, <<5, 4>>}}
Outer == {<<Places[2], NoTo>>, <<Places[6], NoTo>>, <<Places[3], Places[7]>>, <<Places[5], Places[6]>>}
Inner == {<<Places[2], NoTo>>, <<Places[4], Places[5]>>}
Sums == {<<Node("struct", <<2, 3, 7>>), Sum(a, z), Node("struct", <<4, 5, 6>>), Sum(b, z), Bytes(<<2>>),
           Sum(c, TRUE), Bytes(<<1>>)>> : a \in Spans, b \in Outer, c \in Inner, z \in BOOLEAN}

\* Every class of derivation around a choice, an optional and a repeat.
Record(to, algo, e) ==
    <<Node("struct", <<2, 3, 4, 5, 8, 10, 13>>),
      Derived(Der("length", Rel(0, <<4>>), to, "none", FALSE, -1)),
      [Derived(Der("checksum", NoTo, NoTo, algo, TRUE, 0)) EXCEPT !.width = 2, !.endian = e],
      Derived(Der("count", Rel(0, <<6>>), NoTo, "none", FALSE, 1)),
      Node("choice", <<6, 7>>), Bytes(<<3, 1>>), Bytes(<<2>>),
      Node("opt", <<9>>), Bytes(<<3>>),
      Node("repeat", <<11, 12>>), [Node("int", <<>>) EXCEPT !.endian = e],
      Derived(Der("offset", Rel(1, <<4, 1>>), NoTo, "none", FALSE, 0)),
      Derived(Der("offset", Abs(<<6>>), NoTo, "none", FALSE, 2))>>
Records == {Record(to, algo, e) : to \in {NoTo, Rel(0, <<6>>)}, algo \in {"sum16", "internet", "len"}, e \in {"big", "little"}}
Trees == Sums \cup Records
Suppressed == {{}, {"checksum"}, {"length"}}

\* Payloads that fill a slab, exceed it, and are empty.
Seeds == {<< <<1, 0>>, <<>> >>}
=============================================================================
