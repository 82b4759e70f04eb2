---------------------------- MODULE WorkerProofs ----------------------------
(***************************************************************************)
(* Proofs about the worker and its engine.                                 *)
(*                                                                         *)
(* The operators that go through a sequence entry by entry are functions   *)
(* on the naturals.  The library's induction theorems take an operator as  *)
(* a parameter; what they are needed for here is stated with sets instead, *)
(* from the existence of minimal elements.                                 *)
(***************************************************************************)
EXTENDS Worker, FiniteSetTheorems, SequenceTheorems, WellFoundedInduction, TLAPS

-----------------------------------------------------------------------------
(* Induction and recursion over an interval. *)

LEMMA Ascending ==
    ASSUME NEW N \in Nat, NEW P, 0 \in P, \A n \in 1 .. N : n - 1 \in P => n \in P
    PROVE  \A n \in 0 .. N : n \in P
<1> SUFFICES ASSUME ~ \A n \in 0 .. N : n \in P PROVE FALSE
  OBVIOUS
<1> DEFINE T == {n \in 0 .. N : n \notin P}
           R == {ss \in Nat \X Nat : ss[1] < ss[2]}
<1>1. IsWellFoundedOn(R, Nat)
  BY NatLessThanWellFounded DEF OpToRel
<1>2. T \subseteq Nat /\ T # {}
  OBVIOUS
<1>3. PICK m \in T : \A k \in T : <<k, m>> \notin R
  <2> HIDE DEF T, R
  <2> QED BY <1>1, <1>2, WFMin
<1>4. m \in 1 .. N
  OBVIOUS
<1>5. m - 1 \notin P
  BY <1>4
<1>6. m - 1 \in T /\ <<m - 1, m>> \in R
  BY <1>4, <1>5
<1> QED BY <1>3, <1>6

\* The values of g lie in the sets A, each because the one before does.
Climbs(N, A, g) ==
    N \in Nat /\ g[0] \in A[0] /\ \A n \in 1 .. N : g[n - 1] \in A[n - 1] => g[n] \in A[n]

Within(N, A, g) == \A n \in 0 .. N : g[n] \in A[n]

\* step leads from each of the sets A to the next.
Leads(N, A, step, base) ==
    /\ N \in Nat /\ base \in A[0]
    /\ \A n \in 1 .. N : \A x \in A[n - 1] : step[<<n, x>>] \in A[n]

Iterates(N, step, base, g) ==
    g = [n \in 0 .. N |-> IF n = 0 THEN base ELSE step[<<n, g[n - 1]>>]]

LEMMA StepsTyped == \A N, A, g : Climbs(N, A, g) => Within(N, A, g)
<1> SUFFICES ASSUME NEW N, NEW A, NEW g, Climbs(N, A, g) PROVE Within(N, A, g)
  OBVIOUS
<1> USE DEF Climbs
<1> DEFINE P == {n \in 0 .. N : g[n] \in A[n]}
<1>1. 0 \in P
  OBVIOUS
<1>2. ASSUME NEW n \in 1 .. N, n - 1 \in P PROVE n \in P
  BY <1>2
<1> HIDE DEF P
<1>3. \A n \in 0 .. N : n \in P
  BY <1>1, <1>2, Ascending
<1> QED BY <1>3 DEF P, Within

LEMMA StepsExist ==
    \A N, A, step, base :
      Leads(N, A, step, base) => \E g : Iterates(N, step, base, g) /\ Within(N, A, g)
<1> SUFFICES ASSUME NEW N, NEW A, NEW step, NEW base, Leads(N, A, step, base)
             PROVE  \E g : Iterates(N, step, base, g) /\ Within(N, A, g)
  OBVIOUS
<1> USE DEF Leads
<1> DEFINE Upto(k, g) == Iterates(k, step, base, g) /\ Within(k, A, g)
           P == {k \in 0 .. N : \E g : Upto(k, g)}
<1>1. 0 \in P
  <2> DEFINE g == [n \in 0 .. 0 |-> base]
  <2>1. g = [n \in 0 .. 0 |-> IF n = 0 THEN base ELSE step[<<n, g[n - 1]>>]]
    OBVIOUS
  <2>2. \A n \in 0 .. 0 : g[n] \in A[n]
    OBVIOUS
  <2> HIDE DEF g
  <2>3. Upto(0, g)
    BY <2>1, <2>2 DEF Iterates, Within
  <2> QED BY <2>3
<1>2. ASSUME NEW k \in 1 .. N, k - 1 \in P PROVE k \in P
  <2>1. PICK g : Upto(k - 1, g)
    BY <1>2
  <2> DEFINE h == [n \in 0 .. k |-> IF n = k THEN step[<<k, g[k - 1]>>] ELSE g[n]]
  <2>2. g[k - 1] \in A[k - 1] /\ step[<<k, g[k - 1]>>] \in A[k]
    <3>1. k - 1 \in 0 .. k - 1
      OBVIOUS
    <3>2. g[k - 1] \in A[k - 1]
      BY <2>1, <3>1 DEF Within
    <3> QED BY <3>2
  <2>3. \A n \in 0 .. k : h[n] \in A[n]
    BY <2>1, <2>2 DEF Within
  <2>4. ASSUME NEW n \in 0 .. k PROVE h[n] = IF n = 0 THEN base ELSE step[<<n, h[n - 1]>>]
    <3>1. CASE n = k
      BY <3>1
    <3>2. CASE n # k
      <4>1. n \in 0 .. k - 1 /\ h[n] = g[n] /\ (n # 0 => h[n - 1] = g[n - 1])
        BY <3>2
      <4>2. g[n] = IF n = 0 THEN base ELSE step[<<n, g[n - 1]>>]
        BY <2>1, <4>1 DEF Iterates
      <4> QED BY <4>1, <4>2
    <3> QED BY <3>1, <3>2
  <2>5. h = [n \in 0 .. k |-> IF n = 0 THEN base ELSE step[<<n, h[n - 1]>>]]
    <3>1. h = [n \in 0 .. k |-> h[n]]
      OBVIOUS
    <3> HIDE DEF h
    <3> QED BY <2>4, <3>1
  <2> HIDE DEF h
  <2>6. Upto(k, h)
    BY <2>3, <2>5 DEF Iterates, Within
  <2> HIDE DEF Upto
  <2> QED BY <2>6
<1> HIDE DEF P
<1>3. N \in P
  BY <1>1, <1>2, Ascending
<1> QED BY <1>3 DEF P

-----------------------------------------------------------------------------
(* The operators of the engine. *)

Entries == Inputs \ Unreadable
Corpora == {c \in Seq(Entries) : IsInjective(c)}

LEMMA AddType ==
    ASSUME NEW c \in Corpora, NEW i \in Entries
    PROVE  Add(c, i) \in Corpora /\ ToSet(Add(c, i)) = ToSet(c) \cup {i}
<1> USE DEF Corpora
<1>1. Contains(c, i) <=> i \in ToSet(c)
  BY DEF Contains, ToSet
<1>2. CASE Contains(c, i)
  BY <1>1, <1>2 DEF Add
<1>3. CASE ~Contains(c, i)
  <2>1. Add(c, i) = Append(c, i)
    BY <1>3 DEF Add
  <2>2. /\ Append(c, i) \in Seq(Entries) /\ Len(Append(c, i)) = Len(c) + 1
        /\ \A n \in 1 .. Len(c) : Append(c, i)[n] = c[n]
        /\ Append(c, i)[Len(c) + 1] = i
    OBVIOUS
  <2>3. \A n \in 1 .. Len(c) : c[n] # i
    BY <1>3 DEF Contains
  <2>4. IsInjective(Append(c, i))
    BY <2>2, <2>3 DEF IsInjective
  <2>5. ToSet(Append(c, i)) = ToSet(c) \cup {i}
    BY <2>2 DEF ToSet
  <2> QED BY <2>1, <2>2, <2>4, <2>5
<1> QED BY <1>2, <1>3

\* Loading adds what can be read, and nothing else.
LEMMA LoadedType ==
    ASSUME corpus \in Corpora, NEW entries \in Seq(Inputs)
    PROVE  /\ loaded(entries) \in Corpora
           /\ ToSet(corpus) \subseteq ToSet(loaded(entries))
           /\ ToSet(loaded(entries)) \subseteq ToSet(corpus) \cup ToSet(entries)
<1> DEFINE N == Len(entries)
           S == {c \in Corpora : /\ ToSet(corpus) \subseteq ToSet(c)
                                 /\ ToSet(c) \subseteq ToSet(corpus) \cup ToSet(entries)}
           A == [n \in 0 .. N |-> S]
           next(n, c) == IF entries[n] \in Unreadable THEN c ELSE Add(c, entries[n])
           g == CHOOSE h : h = [n \in 0 .. N |-> IF n = 0 THEN corpus ELSE next(n, h[n - 1])]
<1>1. N \in Nat /\ corpus \in S
  OBVIOUS
<1>2. ASSUME NEW n \in 1 .. N, NEW c \in S PROVE next(n, c) \in S
  <2>1. entries[n] \in Inputs /\ entries[n] \in ToSet(entries)
    BY DEF ToSet
  <2>2. CASE entries[n] \in Unreadable
    BY <2>2
  <2>3. CASE entries[n] \notin Unreadable
    <3>1. Add(c, entries[n]) \in Corpora /\ ToSet(Add(c, entries[n])) = ToSet(c) \cup {entries[n]}
      BY <2>1, <2>3, AddType DEF Entries
    <3> QED BY <2>1, <2>3, <3>1
  <2> QED BY <2>2, <2>3
<1> HIDE DEF S, next, N
<1>3. \E h : h = [n \in 0 .. N |-> IF n = 0 THEN corpus ELSE next(n, h[n - 1])]
  <2> DEFINE step == [p \in (1 .. N) \X S |-> next(p[1], p[2])]
  <2>1. \A n \in 1 .. N : \A c \in S : step[<<n, c>>] = next(n, c)
    OBVIOUS
  <2> HIDE DEF step
  <2>2. Leads(N, A, step, corpus)
    BY <1>1, <1>2, <2>1 DEF Leads
  <2>3. PICK h : Iterates(N, step, corpus, h) /\ Within(N, A, h)
    <3> HIDE DEF A
    <3> QED BY ONLY <2>2, StepsExist, Zenon
  <2>4. ASSUME NEW n \in 1 .. N PROVE step[<<n, h[n - 1]>>] = next(n, h[n - 1])
    <3>1. n - 1 \in 0 .. N /\ h[n - 1] \in A[n - 1]
      BY <1>1, <2>3 DEF Within
    <3> QED BY <2>1, <3>1
  <2>5. h = [n \in 0 .. N |-> IF n = 0 THEN corpus ELSE next(n, h[n - 1])]
    <3>1. [n \in 0 .. N |-> IF n = 0 THEN corpus ELSE step[<<n, h[n - 1]>>]]
          = [n \in 0 .. N |-> IF n = 0 THEN corpus ELSE next(n, h[n - 1])]
      BY <1>1, <2>4
    <3>2. h = [n \in 0 .. N |-> IF n = 0 THEN corpus ELSE step[<<n, h[n - 1]>>]]
      BY <2>3 DEF Iterates
    <3> QED BY ONLY <3>1, <3>2
  <2> QED BY <2>5
<1>4. g = [n \in 0 .. N |-> IF n = 0 THEN corpus ELSE next(n, g[n - 1])]
  BY ONLY <1>3, Zenon
<1>5. loaded(entries) = g[N]
  BY Zenon DEF loaded, next, N
<1> HIDE DEF g
<1>6. Climbs(N, A, g)
  BY <1>1, <1>2, <1>4 DEF Climbs
<1>7. Within(N, A, g)
  <2> HIDE DEF A
  <2> QED BY ONLY <1>6, StepsTyped, Zenon
<1>8. g[N] \in A[N]
  BY <1>1, <1>7 DEF Within
<1> QED BY <1>1, <1>5, <1>8 DEF S

-----------------------------------------------------------------------------
(* What the worker sends. *)

\* What the daemon gave or was sent is marked as reported.
MarkedOK ==
    /\ sent \in [Inputs -> Nat]
    /\ \A i \in Inputs : sent[i] > 0 => i \in reported
    /\ synced \subseteq reported
    /\ IF pc = "load" THEN reported = {} ELSE ToSet(Stored) \subseteq reported

\* What reporting the corpus does.
LEMMA FlushSends ==
    ASSUME MarkedOK, flushCorpus
    PROVE  /\ sent' \in [Inputs -> Nat]
           /\ reported' = reported \cup ToSet(corpus)
           /\ \A i \in Inputs : /\ sent'[i] > sent[i] => i \notin reported /\ sent[i] = 0
                                /\ sent'[i] > 0 => i \in reported'
                                /\ sent[i] > 0 => sent'[i] > 0
                                /\ ~gone /\ i \in ToSet(corpus) \ reported => sent'[i] > 0
<1> DEFINE fresh == ToSet(corpus) \ reported
           one(i) == IF i \in fresh THEN 1 ELSE 0
<1>1. /\ reported' = reported \cup fresh
      /\ sent' = IF gone THEN sent ELSE [i \in Inputs |-> sent[i] + one(i)]
  BY DEF flushCorpus
<1>2. \A i \in Inputs : one(i) \in Nat /\ (one(i) # 0 <=> i \in fresh) /\ (i \in fresh => one(i) = 1)
  OBVIOUS
<1>3. CASE gone
  BY <1>1, <1>3 DEF MarkedOK
<1>4. CASE ~gone
  <2>1. sent' = [i \in Inputs |-> sent[i] + one(i)]
    BY <1>1, <1>4
  <2> HIDE DEF one
  <2>2. sent' \in [Inputs -> Nat] /\ \A i \in Inputs : sent'[i] = sent[i] + one(i)
    BY <1>2, <2>1 DEF MarkedOK
  <2>3. \A i \in Inputs : sent[i] \in Nat /\ sent[i] + one(i) >= sent[i]
    BY <1>2 DEF MarkedOK
  <2> QED BY <1>1, <1>2, <2>2, <2>3 DEF MarkedOK
<1> QED BY <1>3, <1>4

LEMMA MarkedKept ==
    ASSUME MarkedOK, [Next]_vars
    PROVE  /\ MarkedOK'
           /\ \A i \in Inputs : sent'[i] > sent[i] => sent[i] = 0 /\ i \notin synced /\ i \notin ToSet(Stored)
<1>0. \A i \in Inputs : sent[i] \in Nat /\ ~ sent[i] > sent[i]
  BY DEF MarkedOK
<1> USE DEF MarkedOK
<1>1. ASSUME loadCorpus PROVE MarkedOK' /\ sent' = sent
  BY <1>1 DEF loadCorpus, ready, inVars
<1>2. ASSUME learnAndSeed PROVE MarkedOK' /\ sent' = sent
  BY <1>2 DEF learnAndSeed, ready, wireVars, inVars
<1>3. ASSUME flushCorpus, UNCHANGED synced, pc # "load", pc' # "load"
      PROVE  /\ MarkedOK'
             /\ \A i \in Inputs : sent'[i] > sent[i] => sent[i] = 0 /\ i \notin synced /\ i \notin ToSet(Stored)
  BY <1>3, FlushSends
<1>4. ASSUME UNCHANGED <<sent, synced, reported>>, pc # "load", pc' # "load"
      PROVE  MarkedOK' /\ sent' = sent
  BY <1>4
<1>5. CASE stopNow
  BY <1>3, <1>5 DEF stopNow, flush, finish, inVars
<1>6. CASE sliceEnds
  BY <1>3, <1>6 DEF sliceEnds, flush, inVars
<1>7. ASSUME handle PROVE MarkedOK' /\ sent' = sent
  <2>1. pc = "drain" /\ pc' = pc /\ sent' = sent
    BY <1>7 DEF handle
  <2>2. PICK m : \/ acceptSync(m.entries)
                 \/ UNCHANGED <<reported, synced>>
    BY <1>7 DEF handle
  <2> QED BY <2>1, <2>2 DEF acceptSync
<1>8. ASSUME cancelNow \/ carryOn \/ drained \/ distillFails \/ fuzz \/ engineFails
      PROVE  MarkedOK' /\ sent' = sent
  BY <1>4, <1>8 DEF cancelNow, carryOn, drained, distillFails, fuzz, engineFails, finish,
     pauseOrRun, wireVars, inVars
<1>9. ASSUME (\E m \in Commands : readCommand(m)) \/ daemonGoes \/ readClosed \/ cancel \/ intervalPasses
             \/ UNCHANGED vars
      PROVE  MarkedOK' /\ sent' = sent
  BY <1>9 DEF readCommand, daemonGoes, readClosed, cancel, intervalPasses, vars, loopVars,
     wireVars, inVars
<1> QED BY <1>0, <1>1, <1>2, <1>5, <1>6, <1>7, <1>8, <1>9 DEF Next, loop

(* An entry goes to the daemon at most once, and never one that the daemon   *)
(* had stored or passed on: flushCorpus, loadCorpus and acceptSync agree on  *)
(* what is reported, whatever the engine does in between.                    *)
THEOREM EchoesCorrect == Spec => NoEcho
<1>1. Init => MarkedOK
  BY DEF Init, MarkedOK
<1>2. MarkedOK /\ [Next]_vars
      => MarkedOK' /\ [\A i \in Inputs : sent'[i] > sent[i] =>
                         sent[i] = 0 /\ i \notin synced /\ i \notin ToSet(Stored)]_vars
  BY MarkedKept
<1> QED BY <1>1, <1>2, PTL DEF Spec, NoEcho

-----------------------------------------------------------------------------
(* The engine's invariant. *)

AllStates == UNION {StatesOf[i] : i \in Inputs}
TraceStores == [Inputs -> {NoTrace} \cup SUBSET AllStates]
Reports == {[bug |-> Bug[i], input |-> i] : i \in Inputs}

EngineOK ==
    /\ stateful \in BOOLEAN
    /\ corpus \in Corpora
    /\ virgin \subseteq UNION {Hits[i] : i \in Inputs}
    /\ known \subseteq AllStates
    /\ traces \in TraceStores
    /\ findings \in Seq(Reports)
    /\ CoverageIsKept

\* Some finding of fs is of the bug b.
Knows(fs, b) == \E n \in 1 .. Len(fs) : fs[n].bug = b

\* What has a trace in t, and is not in M, has been judged.
Judged(t, fs, M) ==
    \A i \in Inputs \ M : HasTrace(t, i) /\ Bug[i] # NoBug => Knows(fs, Bug[i])

-----------------------------------------------------------------------------
(* The worker's invariant. *)

LoopOK ==
    /\ pc \in {"load", "learn", "top", "drain", "run", "done"}
    /\ slice \in 0 .. SliceExecs
    /\ incoming \in Seq(Commands) /\ Len(incoming) <= QueueCap
    /\ {paused, stop, cancelled, gone} \subseteq BOOLEAN
    /\ timer \in {"unset", "running", "due"}
    /\ ended \in Endings /\ (ended # "no" => pc = "done")

\* What is marked as reported the daemon has, while it is there, and the checkpoints
\* are sent when nothing is unmarked that the coverage may rest on.
WireOK ==
    /\ reported \cup synced \cup mined \subseteq Inputs
    /\ ~gone => reported \subseteq Delivered
    /\ pc = "load" => corpus = << >> /\ mined = {}
    /\ pc = "learn" => stateful
    /\ pc \in {"learn", "top", "drain"} => mined \subseteq reported
    /\ pc = "run" => mined \subseteq reported \cup ToSet(corpus)
    /\ pc \in {"top", "drain"} /\ ~stateful => ToSet(corpus) \subseteq reported
    /\ snapshot \subseteq virgin

\* The findings sent are the first ones.
FiledOK ==
    /\ told \in Nat /\ told <= Len(findings)
    /\ ~gone => filed = SubSeq(findings, 1, told)

WorkerInv ==
    /\ EngineOK /\ Judged(traces, findings, mined)
    /\ LoopOK /\ MarkedOK /\ WireOK /\ FiledOK
    /\ StopLosesNothing /\ CheckpointIsBacked

-----------------------------------------------------------------------------
(* Findings and traces. *)

\* f begins with fs.
Extends(f, fs) ==
    /\ f \in Seq(Reports)
    /\ Len(fs) <= Len(f)
    /\ \A n \in 1 .. Len(fs) : f[n] = fs[n]

LEMMA ExtendsTwice ==
    ASSUME NEW f, NEW g, NEW h \in Seq(Reports), Extends(g, h), Extends(f, g)
    PROVE  Extends(f, h)
BY DEF Extends

LEMMA KnowsKept ==
    ASSUME NEW f, NEW fs \in Seq(Reports), NEW b, Extends(f, fs), Knows(fs, b)
    PROVE  Knows(f, b)
BY DEF Extends, Knows

LEMMA RecordType ==
    ASSUME NEW fs \in Seq(Reports), NEW i \in Inputs
    PROVE  /\ Extends(record(fs, i), fs)
           /\ Bug[i] # NoBug => Knows(record(fs, i), Bug[i])
<1>1. DOMAIN fs = 1 .. Len(fs)
  OBVIOUS
<1>2. CASE Bug[i] = NoBug \/ Knows(fs, Bug[i])
  <2>1. record(fs, i) = fs
    BY <1>1, <1>2 DEF record, Knows
  <2> QED BY <1>2, <2>1 DEF Extends
<1>3. CASE ~ (Bug[i] = NoBug \/ Knows(fs, Bug[i]))
  <2>1. PICK r : r = [bug |-> Bug[i], input |-> i]
    OBVIOUS
  <2>2. r \in Reports /\ r.bug = Bug[i]
    BY <2>1 DEF Reports
  <2>3. record(fs, i) = Append(fs, r)
    BY <1>1, <1>3, <2>1 DEF record, Knows
  <2>4. /\ Append(fs, r) \in Seq(Reports) /\ Len(Append(fs, r)) = Len(fs) + 1
        /\ Append(fs, r)[Len(fs) + 1] = r
        /\ \A n \in 1 .. Len(fs) : Append(fs, r)[n] = fs[n]
    BY <2>2
  <2> QED BY <2>2, <2>3, <2>4 DEF Extends, Knows
<1> QED BY <1>2, <1>3

LEMMA PutType ==
    ASSUME NEW t \in TraceStores, NEW i \in Inputs, NEW seen \in SUBSET AllStates
    PROVE  /\ Put(t, i, seen) \in TraceStores
           /\ \A j \in Inputs : HasTrace(Put(t, i, seen), j) => j = i \/ HasTrace(t, j)
<1>1. CASE Cardinality({j \in Inputs : HasTrace(t, j)}) >= TraceMax
  <2>1. Put(t, i, seen) = [j \in Inputs |-> IF j = i THEN seen ELSE NoTrace]
    BY <1>1 DEF Put
  <2> QED BY <2>1 DEF TraceStores, HasTrace
<1>2. CASE ~ Cardinality({j \in Inputs : HasTrace(t, j)}) >= TraceMax
  <2>1. Put(t, i, seen) = [t EXCEPT ![i] = seen]
    BY <1>2 DEF Put
  <2> QED BY <2>1 DEF TraceStores, HasTrace
<1> QED BY <1>1, <1>2

\* A new trace is of an entry that is excepted or has just been judged.
LEMMA JudgedMore ==
    ASSUME NEW t, NEW fs \in Seq(Reports), NEW M, Judged(t, fs, M),
           NEW u, NEW f, NEW K, Extends(f, fs), M \subseteq K,
           \A j \in Inputs : HasTrace(u, j) =>
              HasTrace(t, j) \/ j \in K \/ (Bug[j] # NoBug => Knows(f, Bug[j]))
    PROVE  Judged(u, f, K)
<1> SUFFICES ASSUME NEW j \in Inputs \ K, HasTrace(u, j), Bug[j] # NoBug
             PROVE  Knows(f, Bug[j])
  BY DEF Judged
<1>1. CASE HasTrace(t, j)
  BY <1>1, KnowsKept DEF Judged
<1> QED BY <1>1

LEMMA SeenType == \A i \in Inputs : Seen(i) \in SUBSET AllStates
BY DEF Seen, AllStates

\* What tracing entries may lead to.
Tracings(M) ==
    {r \in [traces : TraceStores, findings : Seq(Reports)] :
       Extends(r.findings, findings) /\ Judged(r.traces, r.findings, M)}

LEMMA JudgedType ==
    ASSUME NEW M, findings \in Seq(Reports), NEW r \in Tracings(M), NEW i \in Inputs
    PROVE  judged(r, i) \in Tracings(M)
<1>0. /\ r.traces \in TraceStores /\ r.findings \in Seq(Reports)
      /\ Extends(r.findings, findings) /\ Judged(r.traces, r.findings, M)
  BY DEF Tracings
<1>1. CASE HasTrace(r.traces, i)
  BY <1>1 DEF judged
<1>2. CASE ~ HasTrace(r.traces, i)
  <2>1. PICK t, f : t = Put(r.traces, i, Seen(i)) /\ f = record(r.findings, i)
    OBVIOUS
  <2>2. judged(r, i) = [traces |-> t, findings |-> f]
    BY <1>2, <2>1 DEF judged
  <2>3. t \in TraceStores /\ \A j \in Inputs : HasTrace(t, j) => j = i \/ HasTrace(r.traces, j)
    BY <1>0, <2>1, PutType, SeenType
  <2>4. Extends(f, r.findings) /\ (Bug[i] # NoBug => Knows(f, Bug[i]))
    BY <1>0, <2>1, RecordType
  <2>5. Extends(f, findings) /\ f \in Seq(Reports)
    BY <1>0, <2>4, ExtendsTwice DEF Extends
  <2>6. Judged(t, f, M)
    BY <1>0, <2>3, <2>4, JudgedMore
  <2> QED BY <2>2, <2>3, <2>5, <2>6 DEF Tracings
<1> QED BY <1>1, <1>2

LEMMA TracingType ==
    ASSUME NEW M, traces \in TraceStores, findings \in Seq(Reports),
           Judged(traces, findings, M), NEW c \in Seq(Inputs), NEW n \in 1 .. Len(c) + 1
    PROVE  traceCorpus(c, n) \in Tracings(M)
<1>0. PICK b : b = [traces |-> traces, findings |-> findings]
  OBVIOUS
<1> DEFINE N == n - 1
           A == [k \in 0 .. N |-> Tracings(M)]
           next(k, r) == judged(r, c[k])
           g == CHOOSE h : h = [k \in 0 .. N |-> IF k = 0 THEN b ELSE next(k, h[k - 1])]
<1>1. N \in Nat /\ N <= Len(c)
  OBVIOUS
<1>2. b \in Tracings(M)
  BY <1>0 DEF Tracings, Extends
<1>3. ASSUME NEW k \in 1 .. N, NEW r \in Tracings(M) PROVE next(k, r) \in Tracings(M)
  <2>1. c[k] \in Inputs
    BY <1>1
  <2> QED BY <2>1, JudgedType
<1>4. traceCorpus(c, n) = g[N]
  BY <1>0, Zenon DEF traceCorpus
<1> HIDE DEF next, N
<1>5. \E h : h = [k \in 0 .. N |-> IF k = 0 THEN b ELSE next(k, h[k - 1])]
  <2> DEFINE step == [p \in (1 .. N) \X Tracings(M) |-> next(p[1], p[2])]
  <2>1. \A k \in 1 .. N : \A r \in Tracings(M) : step[<<k, r>>] = next(k, r)
    OBVIOUS
  <2> HIDE DEF step
  <2>2. Leads(N, A, step, b)
    BY <1>1, <1>2, <1>3, <2>1 DEF Leads
  <2>3. PICK h : Iterates(N, step, b, h) /\ Within(N, A, h)
    <3> HIDE DEF A
    <3> QED BY ONLY <2>2, StepsExist, Zenon
  <2>4. ASSUME NEW k \in 1 .. N PROVE step[<<k, h[k - 1]>>] = next(k, h[k - 1])
    <3>1. k - 1 \in 0 .. N /\ h[k - 1] \in A[k - 1]
      BY <1>1, <2>3 DEF Within
    <3> QED BY <2>1, <3>1
  <2>5. [k \in 0 .. N |-> IF k = 0 THEN b ELSE step[<<k, h[k - 1]>>]]
        = [k \in 0 .. N |-> IF k = 0 THEN b ELSE next(k, h[k - 1])]
    BY <1>1, <2>4
  <2>6. h = [k \in 0 .. N |-> IF k = 0 THEN b ELSE step[<<k, h[k - 1]>>]]
    BY <2>3 DEF Iterates
  <2> QED BY ONLY <2>5, <2>6
<1>6. g = [k \in 0 .. N |-> IF k = 0 THEN b ELSE next(k, g[k - 1])]
  BY ONLY <1>5, Zenon
<1> HIDE DEF g
<1>7. Climbs(N, A, g)
  BY <1>1, <1>2, <1>3, <1>6 DEF Climbs
<1>8. Within(N, A, g)
  <2> HIDE DEF A
  <2> QED BY ONLY <1>7, StepsTyped, Zenon
<1> QED BY <1>1, <1>4, <1>8 DEF Within

-----------------------------------------------------------------------------
(* The engine's operations. *)

\* What trimming leaves of an input leaves the same in the feedback.
LEMMA ReductionType ==
    ASSUME NEW i \in Entries
    PROVE  Reductions(i) \subseteq {s \in Entries : SameSignature(i, s)}
<1> DEFINE N == Cardinality(Inputs)
           S == SUBSET {s \in Entries : SameSignature(i, s)}
           A == [n \in 0 .. N |-> S]
           next(b) == b \cup {s \in UNION {Shrinks[k] : k \in b} : SameSignature(i, s)}
           g == CHOOSE h : h = [n \in 0 .. N |-> IF n = 0 THEN {i} ELSE next(h[n - 1])]
<1>1. N \in Nat
  BY InputAssumption, FS_CardinalityType
<1>2. {i} \in S
  BY DEF SameSignature
<1>3. ASSUME NEW b \in S PROVE next(b) \in S
  <2>1. \A k \in b : Shrinks[k] \subseteq Entries
    BY InputAssumption DEF Entries
  <2> QED BY <2>1
<1>4. Reductions(i) = g[N]
  BY Zenon DEF Reductions
<1> HIDE DEF next, N, S
<1>5. \E h : h = [n \in 0 .. N |-> IF n = 0 THEN {i} ELSE next(h[n - 1])]
  <2> DEFINE step == [p \in (1 .. N) \X S |-> next(p[2])]
  <2>1. \A n \in 1 .. N : \A b \in S : step[<<n, b>>] = next(b)
    OBVIOUS
  <2> HIDE DEF step
  <2>2. Leads(N, A, step, {i})
    BY <1>1, <1>2, <1>3, <2>1 DEF Leads
  <2>3. PICK h : Iterates(N, step, {i}, h) /\ Within(N, A, h)
    <3> HIDE DEF A
    <3> QED BY ONLY <2>2, StepsExist, Zenon
  <2>4. ASSUME NEW n \in 1 .. N PROVE step[<<n, h[n - 1]>>] = next(h[n - 1])
    <3>1. n - 1 \in 0 .. N /\ h[n - 1] \in A[n - 1]
      BY <1>1, <2>3 DEF Within
    <3> QED BY <2>1, <3>1
  <2>5. [n \in 0 .. N |-> IF n = 0 THEN {i} ELSE step[<<n, h[n - 1]>>]]
        = [n \in 0 .. N |-> IF n = 0 THEN {i} ELSE next(h[n - 1])]
    BY <1>1, <2>4
  <2>6. h = [n \in 0 .. N |-> IF n = 0 THEN {i} ELSE step[<<n, h[n - 1]>>]]
    BY <2>3 DEF Iterates
  <2> QED BY ONLY <2>5, <2>6
<1>6. g = [n \in 0 .. N |-> IF n = 0 THEN {i} ELSE next(g[n - 1])]
  BY ONLY <1>5, Zenon
<1> HIDE DEF g
<1>7. Climbs(N, A, g)
  <2>1. \A n \in 0 .. N : A[n] = S
    OBVIOUS
  <2>2. \A n \in 0 .. N : g[n] = IF n = 0 THEN {i} ELSE next(g[n - 1])
    BY ONLY <1>6, Zenon
  <2> HIDE DEF A
  <2>3. ASSUME NEW n \in 1 .. N, g[n - 1] \in A[n - 1] PROVE g[n] \in A[n]
    <3>1. g[n] = next(g[n - 1]) /\ g[n - 1] \in S /\ A[n] = S
      <4>1. n \in 0 .. N /\ n - 1 \in 0 .. N /\ n # 0
        BY <1>1
      <4> QED BY ONLY <2>1, <2>2, <2>3, <4>1
    <3> QED BY <1>3, <3>1
  <2>4. g[0] \in A[0]
    BY <1>1, <1>2, <2>1, <2>2
  <2> QED BY ONLY <1>1, <2>3, <2>4 DEF Climbs
<1>8. Within(N, A, g)
  <2> HIDE DEF A
  <2> QED BY ONLY <1>7, StepsTyped, Zenon
<1>9. g[N] \in S
  BY <1>1, <1>8 DEF Within
<1> QED BY <1>4, <1>9 DEF S

\* The coverage is kept by a corpus that has the entries of the old one.
LEMMA CoverageGrows ==
    ASSUME CoverageIsKept, UNCHANGED virgin, ToSet(corpus) \subseteq ToSet(corpus')
    PROVE  CoverageIsKept'
BY DEF CoverageIsKept, Counters

\* What each operation of the engine leaves to the worker.
EngineStep(M) ==
    /\ EngineOK' /\ stateful' = stateful
    /\ virgin \subseteq virgin' /\ Extends(findings', findings)
    /\ Judged(traces', findings', M)

LEMMA LoadKeeps ==
    ASSUME EngineOK, NEW M, Judged(traces, findings, M), NEW entries \in Seq(Inputs),
           LoadCorpus(entries)
    PROVE  /\ EngineStep(M)
           /\ ToSet(corpus) \subseteq ToSet(corpus')
           /\ ToSet(corpus') \subseteq ToSet(corpus) \cup ToSet(entries)
<1>1. /\ corpus' \in Corpora
      /\ ToSet(corpus) \subseteq ToSet(corpus')
      /\ ToSet(corpus') \subseteq ToSet(corpus) \cup ToSet(entries)
  BY LoadedType DEF LoadCorpus, EngineOK
<1>2. /\ traces' \in TraceStores /\ findings' \in Seq(Reports)
      /\ Extends(findings', findings) /\ Judged(traces', findings', M)
  <2>1. CASE stateful /\ corpus' # corpus
    <3>1. PICK n \in 1 .. Len(corpus') + 1 :
              traces' = traceCorpus(corpus', n).traces /\ findings' = traceCorpus(corpus', n).findings
      BY <2>1 DEF LoadCorpus
    <3>2. PICK c : c = corpus'
      OBVIOUS
    <3>3. c \in Seq(Inputs) /\ n \in 1 .. Len(c) + 1
      BY <1>1, <3>2 DEF Corpora, Entries
    <3>4. traceCorpus(c, n) \in Tracings(M)
      BY <3>3, TracingType DEF EngineOK
    <3> QED BY <3>1, <3>2, <3>4 DEF Tracings
  <2>2. CASE ~ (stateful /\ corpus' # corpus)
    BY <2>2 DEF LoadCorpus, EngineOK, Extends
  <2> QED BY <2>1, <2>2
<1>3. UNCHANGED <<stateful, virgin, known>>
  BY DEF LoadCorpus
<1>4. CoverageIsKept'
  BY <1>1, <1>3, CoverageGrows DEF EngineOK
<1> QED BY <1>1, <1>2, <1>3, <1>4 DEF EngineStep, EngineOK

LEMMA AddSeedKeeps ==
    ASSUME EngineOK, NEW M, Judged(traces, findings, M), NEW i \in Inputs, AddSeed(i)
    PROVE  EngineStep(M)
<1>1. i \in Entries /\ corpus' = Add(corpus, i)
  BY DEF AddSeed, Entries
<1>2. corpus' \in Corpora /\ ToSet(corpus') = ToSet(corpus) \cup {i}
  BY <1>1, AddType DEF EngineOK
<1>3. Extends(findings', findings) /\ (Bug[i] # NoBug => Knows(findings', Bug[i]))
  BY RecordType DEF AddSeed, EngineOK
<1>4. traces' \in TraceStores /\ \A j \in Inputs : HasTrace(traces', j) => j = i \/ HasTrace(traces, j)
  BY PutType, SeenType DEF AddSeed, EngineOK
<1>5. Judged(traces', findings', M)
  BY <1>3, <1>4, JudgedMore DEF EngineOK
<1>6. virgin' = virgin \cup Hits[i] /\ known' = known \cup Seen(i) /\ stateful' = stateful
  BY DEF AddSeed, AppendFeedback
<1>7. CoverageIsKept'
  BY <1>2, <1>6 DEF EngineOK, CoverageIsKept, Counters
<1> QED BY <1>2, <1>3, <1>4, <1>5, <1>6, <1>7, SeenType DEF EngineStep, EngineOK, Extends

LEMMA AddSeedFailsKeeps ==
    ASSUME EngineOK, NEW M, Judged(traces, findings, M), NEW i \in Inputs, AddSeedFails(i)
    PROVE  EngineStep(M)
<1>1. Extends(findings', findings) /\ UNCHANGED <<stateful, corpus, virgin, known, traces>>
  BY RecordType DEF AddSeedFails, EngineOK
<1>2. Judged(traces', findings', M)
  BY <1>1, JudgedMore DEF EngineOK
<1>3. CoverageIsKept'
  BY <1>1, CoverageGrows DEF EngineOK
<1> QED BY <1>1, <1>2, <1>3 DEF EngineStep, EngineOK, Extends

\* An input admitted in a trimmed form is one the stages found.
LEMMA EvaluateKeeps ==
    ASSUME EngineOK, NEW M, Judged(traces, findings, M), NEW i \in Entries, evaluate(i)
    PROVE  /\ EngineStep(M \cup (ToSet(corpus') \ ToSet(corpus)))
           /\ ToSet(corpus) \subseteq ToSet(corpus') /\ ToSet(corpus') \subseteq Inputs
<1> DEFINE K == M \cup (ToSet(corpus') \ ToSet(corpus))
<1>0. i \in Inputs /\ Extends(findings', findings) /\ stateful' = stateful
  BY RecordType DEF evaluate, EngineOK, Entries
<1>1. CASE ~IsInteresting(i)
  <2>1. UNCHANGED <<stateful, corpus, virgin, known, traces>>
    BY <1>1 DEF evaluate
  <2>2. Judged(traces', findings', K)
    BY <1>0, <2>1, JudgedMore DEF EngineOK
  <2>3. CoverageIsKept'
    BY <2>1, CoverageGrows DEF EngineOK
  <2> QED BY <1>0, <2>1, <2>2, <2>3 DEF EngineStep, EngineOK, Extends, Corpora, Entries, ToSet
<1>2. CASE IsInteresting(i)
  <2>1. virgin' = virgin \cup Hits[i] /\ known' = known \cup Seen(i)
    BY <1>2 DEF evaluate, AppendFeedback
  <2>2. PICK t \in trim(i) :
            IF Contains(corpus, t.kept) THEN UNCHANGED <<corpus, traces>>
            ELSE /\ corpus' = Add(corpus, t.kept)
                 /\ traces' = IF stateful THEN Put(traces, t.kept, Seen(t.last)) ELSE traces
    BY <1>2 DEF evaluate
  <2>3. PICK s \in Entries, l \in Inputs : s = t.kept /\ l = t.last /\ Hits[s] = Hits[i]
    BY ReductionType DEF trim, SameSignature
  <2>4. /\ corpus' \in Corpora /\ ToSet(corpus') = ToSet(corpus) \cup {s}
        /\ traces' \in TraceStores
        /\ \A j \in Inputs : HasTrace(traces', j) => HasTrace(traces, j) \/ j \in K
    <3>1. Contains(corpus, s) <=> s \in ToSet(corpus)
      BY DEF Contains, ToSet, EngineOK, Corpora
    <3>2. CASE Contains(corpus, s)
      BY <2>2, <2>3, <3>1, <3>2 DEF EngineOK
    <3>3. CASE ~Contains(corpus, s)
      <4>1. corpus' = Add(corpus, s)
            /\ traces' = IF stateful THEN Put(traces, s, Seen(l)) ELSE traces
        BY <2>2, <2>3, <3>3
      <4>2. corpus' \in Corpora /\ ToSet(corpus') = ToSet(corpus) \cup {s}
        BY <4>1, AddType DEF EngineOK
      <4>3. s \in K
        BY <3>1, <3>3, <4>2
      <4>4. traces' \in TraceStores
            /\ \A j \in Inputs : HasTrace(traces', j) => j = s \/ HasTrace(traces, j)
        BY <4>1, PutType, SeenType DEF EngineOK, Entries
      <4> QED BY <4>2, <4>3, <4>4
    <3> QED BY <3>2, <3>3
  <2>5. Judged(traces', findings', K)
    BY <1>0, <2>4, JudgedMore DEF EngineOK
  <2>6. CoverageIsKept'
    BY <2>1, <2>3, <2>4 DEF EngineOK, CoverageIsKept, Counters
  <2>7. ToSet(corpus') \subseteq Inputs
    BY <2>4 DEF Corpora, Entries, ToSet
  <2>8. EngineOK'
    BY <1>0, <2>1, <2>4, <2>6, SeenType DEF EngineOK, Extends
  <2> QED BY <1>0, <2>1, <2>4, <2>5, <2>7, <2>8 DEF EngineStep
<1> QED BY <1>1, <1>2

-----------------------------------------------------------------------------
(* Distillation. *)

LEMMA RemoveType ==
    ASSUME NEW b \in Corpora, NEW p \in 1 .. Len(b)
    PROVE  /\ RemoveEntry(b, p) \in Corpora
           /\ Len(RemoveEntry(b, p)) = Len(b) - 1
           /\ \A m \in 1 .. p - 1 : RemoveEntry(b, p)[m] = b[m]
           /\ ToSet(RemoveEntry(b, p)) \subseteq ToSet(b)
           /\ ToSet(b) \ {b[p]} \subseteq ToSet(RemoveEntry(b, p))
<1> DEFINE e == [b EXCEPT ![p] = Last(b)]
           d == SubSeq(e, 1, Len(b) - 1)
<1>1. /\ b \in Seq(Entries) /\ Len(b) \in Nat /\ Len(b) >= 1
      /\ \A m, k \in 1 .. Len(b) : b[m] = b[k] => m = k
  BY DEF Corpora, IsInjective
<1>2. Last(b) = b[Len(b)] /\ b[Len(b)] \in Entries
  BY <1>1 DEF Last
<1>3. /\ e \in Seq(Entries) /\ Len(e) = Len(b)
      /\ \A m \in 1 .. Len(b) : e[m] = IF m = p THEN b[Len(b)] ELSE b[m]
  BY <1>1, <1>2
<1> HIDE DEF e
<1>4. /\ d \in Seq(Entries) /\ Len(d) = Len(b) - 1
      /\ \A m \in 1 .. Len(b) - 1 : d[m] = e[m]
  BY <1>1, <1>3
<1>5. RemoveEntry(b, p) = d
  BY DEF RemoveEntry, e
<1> HIDE DEF d
<1>6. \A m \in 1 .. Len(b) - 1 : d[m] = IF m = p THEN b[Len(b)] ELSE b[m]
  BY <1>1, <1>3, <1>4
<1>7. d \in Corpora
  <2>1. \A m, k \in 1 .. Len(d) : d[m] = d[k] => m = k
    BY <1>1, <1>4, <1>6
  <2> QED BY <1>4, <2>1 DEF Corpora, IsInjective
<1>8. ToSet(d) \subseteq ToSet(b)
  BY <1>1, <1>4, <1>6 DEF ToSet
<1>9. ASSUME NEW k \in 1 .. Len(b), k # p PROVE \E m \in 1 .. Len(d) : d[m] = b[k]
  <2>1. CASE k = Len(b)
    <3>1. p \in 1 .. Len(d) /\ d[p] = b[k]
      BY <1>1, <1>4, <1>6, <1>9, <2>1
    <3> QED BY <3>1
  <2>2. CASE k # Len(b)
    <3>1. k \in 1 .. Len(d) /\ d[k] = b[k]
      BY <1>1, <1>4, <1>6, <1>9, <2>2
    <3> QED BY <3>1
  <2> QED BY <2>1, <2>2
<1>10. ToSet(b) \ {b[p]} \subseteq ToSet(d)
  BY <1>4, <1>9 DEF ToSet
<1>11. \A m \in 1 .. p - 1 : d[m] = b[m]
  BY <1>1, <1>6
<1> QED BY <1>4, <1>5, <1>7, <1>8, <1>10, <1>11

\* What is left of c when its last n entries have been looked at.
Remainders(c, kept, n) ==
    {b \in Corpora : /\ Len(c) - n <= Len(b)
                     /\ \A m \in 1 .. Len(c) - n : b[m] = c[m]
                     /\ kept \subseteq ToSet(b) /\ ToSet(b) \subseteq ToSet(c)}

\* Every entry that is not to be kept goes, and no other.
LEMMA WithoutType ==
    ASSUME NEW c \in Corpora, NEW kept \in SUBSET ToSet(c)
    PROVE  Without(c, kept) \in Remainders(c, kept, Len(c))
<1> DEFINE N == Len(c)
           A == [n \in 0 .. N |-> Remainders(c, kept, n)]
           last(n) == Len(c) - n + 1
           next(n, b) == IF b[last(n)] \in kept THEN b ELSE RemoveEntry(b, last(n))
           g == CHOOSE h : h = [n \in 0 .. N |-> IF n = 0 THEN c ELSE next(n, h[n - 1])]
<1>1. N \in Nat /\ c \in Seq(Entries)
  BY DEF Corpora
<1>2. c \in Remainders(c, kept, 0)
  BY <1>1 DEF Remainders
<1>3. ASSUME NEW n \in 1 .. N, NEW b \in Remainders(c, kept, n - 1)
      PROVE  next(n, b) \in Remainders(c, kept, n)
  <2>1. /\ b \in Corpora /\ Len(b) \in Nat
        /\ N - n + 1 <= Len(b)
        /\ \A m \in 1 .. N - n + 1 : b[m] = c[m]
        /\ kept \subseteq ToSet(b) /\ ToSet(b) \subseteq ToSet(c)
    BY <1>1 DEF Remainders, Corpora
  <2>2. CASE b[last(n)] \in kept
    BY <1>1, <2>1, <2>2 DEF Remainders
  <2>3. CASE b[last(n)] \notin kept
    <3>1. PICK p : p = last(n)
      OBVIOUS
    <3>2. p \in 1 .. Len(b) /\ p - 1 = N - n
      BY <1>1, <2>1, <3>1
    <3>3. PICK d : d = RemoveEntry(b, p)
      OBVIOUS
    <3>4. /\ d \in Corpora /\ Len(d) = Len(b) - 1
          /\ \A m \in 1 .. p - 1 : d[m] = b[m]
          /\ ToSet(d) \subseteq ToSet(b) /\ ToSet(b) \ {b[p]} \subseteq ToSet(d)
      BY <2>1, <3>2, <3>3, RemoveType
    <3>5. next(n, b) = d
      BY <2>3, <3>1, <3>3
    <3>6. kept \subseteq ToSet(d) /\ ToSet(d) \subseteq ToSet(c)
      BY <2>1, <2>3, <3>1, <3>4
    <3>7. N - n <= Len(d) /\ \A m \in 1 .. N - n : d[m] = c[m]
      BY <1>1, <2>1, <3>2, <3>4
    <3> QED BY <3>4, <3>5, <3>6, <3>7 DEF Remainders
  <2> QED BY <2>2, <2>3
<1>4. Without(c, kept) = g[N]
  BY Zenon DEF Without
<1> HIDE DEF next, N
<1>5. \E h : h = [n \in 0 .. N |-> IF n = 0 THEN c ELSE next(n, h[n - 1])]
  <2> DEFINE step == [p \in (1 .. N) \X Corpora |-> next(p[1], p[2])]
  <2>1. \A n \in 1 .. N : \A b \in Corpora : step[<<n, b>>] = next(n, b)
    OBVIOUS
  <2> HIDE DEF step
  <2>2. \A n \in 0 .. N : A[n] = Remainders(c, kept, n) /\ A[n] \subseteq Corpora
    BY DEF Remainders
  <2> HIDE DEF A
  <2>3. ASSUME NEW n \in 1 .. N, NEW b \in A[n - 1]
        PROVE  step[<<n, b>>] \in A[n]
    <3>1. n \in 0 .. N /\ n - 1 \in 0 .. N
      BY <1>1
    <3> QED BY <1>3, <2>1, <2>2, <3>1
  <2>4. Leads(N, A, step, c)
    <3>1. 0 \in 0 .. N
      BY <1>1
    <3> QED BY <1>1, <1>2, <2>2, <2>3, <3>1 DEF Leads
  <2>5. PICK h : Iterates(N, step, c, h) /\ Within(N, A, h)
    BY ONLY <2>4, StepsExist, Zenon
  <2>6. ASSUME NEW n \in 1 .. N PROVE step[<<n, h[n - 1]>>] = next(n, h[n - 1])
    <3>1. n - 1 \in 0 .. N /\ h[n - 1] \in A[n - 1]
      BY <1>1, <2>5 DEF Within
    <3> QED BY <2>1, <2>2, <3>1
  <2>7. [n \in 0 .. N |-> IF n = 0 THEN c ELSE step[<<n, h[n - 1]>>]]
        = [n \in 0 .. N |-> IF n = 0 THEN c ELSE next(n, h[n - 1])]
    BY <1>1, <2>6
  <2>8. h = [n \in 0 .. N |-> IF n = 0 THEN c ELSE step[<<n, h[n - 1]>>]]
    BY <2>5 DEF Iterates
  <2> QED BY ONLY <2>7, <2>8
<1>6. g = [n \in 0 .. N |-> IF n = 0 THEN c ELSE next(n, g[n - 1])]
  BY ONLY <1>5, Zenon
<1> HIDE DEF g
<1>7. Climbs(N, A, g)
  <2>1. \A n \in 0 .. N : A[n] = Remainders(c, kept, n)
    OBVIOUS
  <2>2. \A n \in 0 .. N : g[n] = IF n = 0 THEN c ELSE next(n, g[n - 1])
    BY ONLY <1>6, Zenon
  <2> HIDE DEF A
  <2>3. ASSUME NEW n \in 1 .. N, g[n - 1] \in A[n - 1] PROVE g[n] \in A[n]
    <3>1. n \in 0 .. N /\ n - 1 \in 0 .. N /\ n # 0
      BY <1>1
    <3>2. g[n] = next(n, g[n - 1]) /\ g[n - 1] \in Remainders(c, kept, n - 1)
      BY ONLY <2>1, <2>2, <2>3, <3>1
    <3> QED BY <1>3, <2>1, <3>1, <3>2
  <2>4. g[0] \in A[0]
    BY <1>1, <1>2, <2>1, <2>2
  <2> QED BY ONLY <1>1, <2>3, <2>4 DEF Climbs
<1>8. Within(N, A, g)
  <2> HIDE DEF A
  <2> QED BY ONLY <1>7, StepsTyped, Zenon
<1>9. g[N] \in Remainders(c, kept, N)
  BY <1>1, <1>8 DEF Within
<1> QED BY <1>4, <1>9 DEF N

LEMMA DistillKeeps ==
    ASSUME EngineOK, NEW M, Judged(traces, findings, M), Distill
    PROVE  EngineStep(M) /\ ToSet(corpus') \subseteq ToSet(corpus)
<1>1. PICK p \in Arrangements(DOMAIN corpus) :
          IsCover(corpus, p) /\ corpus' = Without(corpus, {corpus[p[m]] : m \in DOMAIN p})
  BY DEF Distill
<1>2. PICK kept : kept = {corpus[p[m]] : m \in DOMAIN p}
  OBVIOUS
<1>3. \A m \in DOMAIN p : p[m] \in DOMAIN corpus
  BY DEF Arrangements
<1>4. kept \subseteq ToSet(corpus)
  BY <1>2, <1>3 DEF EngineOK, Corpora, ToSet
<1>5. CountersOf(kept) = CountersOf(ToSet(corpus))
  BY <1>1, <1>2 DEF IsCover
<1>6. corpus' \in Corpora /\ kept \subseteq ToSet(corpus') /\ ToSet(corpus') \subseteq ToSet(corpus)
  BY <1>1, <1>2, <1>4, WithoutType DEF EngineOK, Remainders
<1>7. UNCHANGED <<stateful, virgin, known, traces, findings>>
  BY DEF Distill
<1>8. CoverageIsKept'
  <2> SUFFICES ASSUME NEW h \in virgin PROVE \E i \in ToSet(corpus') : h[1] \in Counters(i)
    BY <1>7 DEF CoverageIsKept
  <2>1. h[1] \in CountersOf(ToSet(corpus))
    BY DEF EngineOK, CoverageIsKept, CountersOf
  <2>2. \E i \in kept : h[1] \in Counters(i)
    BY <1>5, <2>1 DEF CountersOf
  <2> QED BY <1>6, <2>2
<1> QED BY <1>6, <1>7, <1>8 DEF EngineStep, EngineOK, Extends

-----------------------------------------------------------------------------
(* Each part of the worker's invariant is kept. *)

LEMMA EngineSame ==
    ASSUME EngineOK, NEW M, Judged(traces, findings, M), UNCHANGED engineVars
    PROVE  EngineStep(M)
<1>1. CoverageIsKept'
  BY CoverageGrows DEF engineVars, EngineOK
<1> QED BY <1>1 DEF EngineStep, EngineOK, engineVars, Extends, Judged

\* A synced entry is one of the campaign's inputs.
LEMMA SyncType ==
    ASSUME NEW m \in Commands, m.type = "sync"
    PROVE  m.entries \in Seq(Inputs) /\ ToSet(m.entries) \subseteq Inputs
<1>1. m \in [type : {"sync"}, entries : {<<i>> : i \in Siblings}]
  BY DEF Commands
<1>2. PICK i \in Siblings : m.entries = <<i>>
  BY <1>1
<1>3. i \in Inputs
  BY WorkerAssumption
<1> QED BY <1>2, <1>3 DEF ToSet

\* What handling a command may do to the engine.
LEMMA HandleKeeps ==
    ASSUME WorkerInv, handle
    PROVE  /\ EngineStep(mined)
           /\ \/ UNCHANGED <<engineVars, reported, synced>>
              \/ \E s \in SUBSET Inputs :
                    /\ reported' = reported \cup s /\ synced' = synced \cup s
                    /\ ToSet(corpus') \subseteq ToSet(corpus) \cup s
                    /\ UNCHANGED snapshot
<1>1. PICK m : /\ m = Head(incoming)
               /\ \/ m.type = "sync" /\ acceptSync(m.entries) /\ UNCHANGED snapshot
                  \/ UNCHANGED <<engineVars, reported, synced>>
  BY DEF handle
<1>2. m \in Commands
  BY <1>1 DEF handle, WorkerInv, LoopOK
<1>3. CASE m.type = "sync" /\ acceptSync(m.entries) /\ UNCHANGED snapshot
  <2>1. m.entries \in Seq(Inputs) /\ ToSet(m.entries) \in SUBSET Inputs
    BY <1>2, <1>3, SyncType
  <2>2. EngineStep(mined) /\ ToSet(corpus') \subseteq ToSet(corpus) \cup ToSet(m.entries)
    BY <1>3, <2>1, LoadKeeps DEF acceptSync, WorkerInv
  <2> QED BY <1>3, <2>1, <2>2 DEF acceptSync
<1>4. CASE UNCHANGED <<engineVars, reported, synced>>
  BY <1>4, EngineSame DEF WorkerInv
<1> QED BY <1>1, <1>3, <1>4

LEMMA DrainedKeeps ==
    ASSUME WorkerInv, drained
    PROVE  EngineStep(mined) /\ ToSet(corpus') \subseteq ToSet(corpus)
<1>1. CASE UNCHANGED engineVars
  BY <1>1, EngineSame DEF WorkerInv, engineVars
<1>2. CASE Distill
  BY <1>2, DistillKeeps DEF WorkerInv
<1> QED BY <1>1, <1>2 DEF drained, distillIfDue

LEMMA EngineKept ==
    ASSUME WorkerInv, [Next]_vars
    PROVE  EngineStep(mined') /\ mined \subseteq mined'
<1> USE DEF WorkerInv
<1>1. CASE loadCorpus
  BY <1>1, LoadKeeps, WorkerAssumption DEF loadCorpus
<1>2. CASE learnAndSeed
  <2>1. mined' = mined
    BY <1>2 DEF learnAndSeed
  <2>2. CASE \E i \in Learnable : AddSeed(i)
    BY <2>1, <2>2, AddSeedKeeps, WorkerAssumption
  <2>3. CASE \E i \in Learnable : AddSeedFails(i)
    BY <2>1, <2>3, AddSeedFailsKeeps, WorkerAssumption
  <2>4. CASE UNCHANGED engineVars
    BY <2>1, <2>4, EngineSame
  <2> QED BY <1>2, <2>2, <2>3, <2>4 DEF learnAndSeed
<1>3. CASE handle
  BY <1>3, HandleKeeps DEF handle
<1>4. CASE drained
  BY <1>4, DrainedKeeps DEF drained
<1>5. CASE fuzz
  BY <1>5, EvaluateKeeps DEF fuzz, Entries
<1>6. ASSUME UNCHANGED <<engineVars, mined>> PROVE EngineStep(mined') /\ mined \subseteq mined'
  BY <1>6, EngineSame
<1>7. CASE stopNow \/ cancelNow \/ carryOn \/ distillFails \/ sliceEnds \/ engineFails
  BY <1>6, <1>7 DEF stopNow, cancelNow, carryOn, distillFails, sliceEnds, engineFails
<1>8. CASE \/ \E m \in Commands : readCommand(m)
           \/ daemonGoes \/ readClosed \/ cancel \/ intervalPasses \/ UNCHANGED vars
  BY <1>6, <1>8 DEF readCommand, daemonGoes, readClosed, cancel, intervalPasses, vars
<1> QED BY <1>1, <1>2, <1>3, <1>4, <1>5, <1>7, <1>8 DEF Next, loop

LEMMA LoopKept ==
    ASSUME LoopOK, [Next]_vars
    PROVE  LoopOK'
<1> DEFINE Flags == {paused, stop, cancelled, gone} \subseteq BOOLEAN
           Rest == /\ pc \in {"load", "learn", "top", "drain", "run", "done"}
                   /\ slice \in 0 .. SliceExecs
                   /\ incoming \in Seq(Commands) /\ Len(incoming) <= QueueCap
                   /\ timer \in {"unset", "running", "due"}
                   /\ ended \in Endings /\ (ended # "no" => pc = "done")
<1>0. SliceExecs \in Nat \ {0} /\ QueueCap \in Nat \ {0} /\ BOOLEAN = {TRUE, FALSE}
  BY WorkerAssumption
<1>1. Flags /\ Rest
  BY DEF LoopOK
<1> USE DEF loopVars, inVars, ready, finish
<1>2. CASE loadCorpus
  <2>1. Flags'
    BY <1>1, <1>2, Zenon DEF loadCorpus
  <2>2. Rest'
    BY <1>1, <1>2 DEF loadCorpus
  <2> QED BY <2>1, <2>2 DEF LoopOK
<1>3. CASE learnAndSeed
  <2>1. Flags'
    BY <1>1, <1>3, Zenon DEF learnAndSeed
  <2>2. Rest'
    BY <1>1, <1>3 DEF learnAndSeed
  <2> QED BY <2>1, <2>2 DEF LoopOK
<1>4. CASE stopNow
  <2>1. Flags'
    BY <1>1, <1>4, Zenon DEF stopNow, flush
  <2>2. Rest'
    BY <1>1, <1>4 DEF stopNow, Endings
  <2> QED BY <2>1, <2>2 DEF LoopOK
<1>5. CASE cancelNow \/ carryOn \/ distillFails \/ engineFails \/ fuzz
  <2>1. Flags'
    BY <1>1, <1>5, Zenon DEF cancelNow, carryOn, distillFails, engineFails, fuzz
  <2>2. Rest'
    BY <1>0, <1>1, <1>5 DEF cancelNow, carryOn, distillFails, engineFails, fuzz, Endings
  <2> QED BY <2>1, <2>2 DEF LoopOK
<1>6. CASE handle
  <2>1. Flags'
    BY <1>1, <1>6, Zenon DEF handle
  <2>2. Rest'
    <3>1. Tail(incoming) \in Seq(Commands) /\ Len(Tail(incoming)) <= QueueCap
      BY <1>0, <1>1, <1>6 DEF handle
    <3> QED BY <1>1, <1>6, <3>1 DEF handle
  <2> QED BY <2>1, <2>2 DEF LoopOK
<1>7. CASE drained
  <2>1. Flags'
    BY <1>1, <1>7, Zenon DEF drained
  <2>2. Rest'
    <3>1. slice' \in 0 .. SliceExecs /\ pc' \in {"top", "run"}
      BY <1>0, <1>1, <1>7 DEF drained, pauseOrRun
    <3> QED BY <1>1, <1>7, <3>1 DEF drained, distillIfDue
  <2> QED BY <2>1, <2>2 DEF LoopOK
<1>8. CASE sliceEnds
  <2>1. Flags'
    BY <1>1, <1>8, Zenon DEF sliceEnds, flush
  <2>2. Rest'
    BY <1>0, <1>1, <1>8 DEF sliceEnds
  <2> QED BY <2>1, <2>2 DEF LoopOK
<1>9. ASSUME NEW m \in Commands, readCommand(m) PROVE LoopOK'
  <2>1. Flags'
    BY <1>1, <1>9, Zenon DEF readCommand
  <2>2. Rest'
    BY <1>0, <1>1, <1>9 DEF readCommand
  <2> QED BY <2>1, <2>2 DEF LoopOK
<1>10. CASE daemonGoes \/ readClosed \/ cancel \/ intervalPasses \/ UNCHANGED vars
  <2>1. Flags'
    BY <1>0, <1>1, <1>10, Zenon DEF daemonGoes, readClosed, cancel, intervalPasses, vars
  <2>2. Rest'
    BY <1>1, <1>10 DEF daemonGoes, readClosed, cancel, intervalPasses, vars
  <2> QED BY <2>1, <2>2 DEF LoopOK
<1> QED BY <1>2, <1>3, <1>4, <1>5, <1>6, <1>7, <1>8, <1>9, <1>10 DEF Next, loop

\* The first n findings are the same in a longer list, and the others complete them.
LEMMA FirstSame ==
    ASSUME NEW fs \in Seq(Reports), NEW f, Extends(f, fs), NEW n \in 0 .. Len(fs)
    PROVE  SubSeq(f, 1, n) = SubSeq(fs, 1, n)
BY DEF Extends

LEMMA FirstAndOthers ==
    ASSUME NEW fs \in Seq(Reports), NEW n \in 0 .. Len(fs)
    PROVE  /\ SubSeq(fs, 1, n) \o SubSeq(fs, n + 1, Len(fs)) = fs
           /\ SubSeq(fs, 1, Len(fs)) = fs
<1>1. 1 \in 1 .. Len(fs) + 1 /\ n \in 1 - 1 .. Len(fs) /\ Len(fs) \in n .. Len(fs)
  OBVIOUS
<1>2. SubSeq(fs, 1, n) \o SubSeq(fs, n + 1, Len(fs)) = SubSeq(fs, 1, Len(fs))
  BY <1>1, ConcatAdjacentSubSeq
<1>3. SubSeq(fs, 1, Len(fs)) = fs
  BY SubSeqFull
<1> QED BY <1>2, <1>3

LEMMA FlushFiles ==
    ASSUME FiledOK, findings \in Seq(Reports), flushFindings
    PROVE  told' = Len(findings) /\ (~gone => filed' = findings)
<1>1. told \in 0 .. Len(findings)
  BY DEF FiledOK
<1>2. CASE gone
  BY <1>2 DEF flushFindings
<1>3. CASE ~gone
  <2>1. filed = SubSeq(findings, 1, told)
    BY <1>3 DEF FiledOK
  <2>2. filed' = filed \o SubSeq(findings, told + 1, Len(findings))
    BY <1>3 DEF flushFindings
  <2>3. told' = Len(findings)
    BY DEF flushFindings
  <2> QED BY <1>1, <2>1, <2>2, <2>3, FirstAndOthers
<1> QED BY <1>2, <1>3

LEMMA FiledKept ==
    ASSUME FiledOK, findings \in Seq(Reports), Extends(findings', findings), [Next]_vars
    PROVE  FiledOK'
<1>1. Len(findings) \in Nat /\ Len(findings') \in Nat /\ Len(findings) <= Len(findings')
  BY DEF Extends
<1>2. ASSUME UNCHANGED <<told, filed>>, gone => gone' PROVE FiledOK'
  <2>1. told' \in Nat /\ told' <= Len(findings')
    BY <1>1, <1>2 DEF FiledOK
  <2>2. SubSeq(findings', 1, told) = SubSeq(findings, 1, told)
    BY FirstSame DEF FiledOK
  <2> QED BY <1>2, <2>1, <2>2 DEF FiledOK
<1>3. ASSUME flushFindings, UNCHANGED findings, UNCHANGED gone PROVE FiledOK'
  <2>1. told' = Len(findings') /\ (~gone => filed' = findings')
    BY <1>3, FlushFiles
  <2>2. SubSeq(findings', 1, told') = findings'
    BY <1>3, <2>1, FirstAndOthers, <1>1
  <2> QED BY <1>1, <1>3, <2>1, <2>2 DEF FiledOK
<1>4. CASE stopNow \/ sliceEnds
  BY <1>3, <1>4 DEF stopNow, sliceEnds, flush, engineVars
<1>5. CASE loadCorpus \/ learnAndSeed \/ handle \/ drained \/ fuzz
  BY <1>2, <1>5 DEF loadCorpus, learnAndSeed, handle, drained, fuzz, wireVars
<1>6. CASE cancelNow \/ carryOn \/ distillFails \/ engineFails
  BY <1>2, <1>6 DEF cancelNow, carryOn, distillFails, engineFails, wireVars
<1>7. CASE \/ \E m \in Commands : readCommand(m)
           \/ daemonGoes \/ readClosed \/ cancel \/ intervalPasses \/ UNCHANGED vars
  BY <1>2, <1>7 DEF readCommand, daemonGoes, readClosed, cancel, intervalPasses, vars, wireVars
<1> QED BY <1>4, <1>5, <1>6, <1>7 DEF Next, loop

\* The daemon keeps what it has.
LEMMA DeliveredGrows ==
    ASSUME WorkerInv, [Next]_vars
    PROVE  Delivered \subseteq Delivered'
<1>1. ASSUME UNCHANGED sent, synced \subseteq synced' PROVE Delivered \subseteq Delivered'
  BY <1>1 DEF Delivered
<1>2. CASE stopNow \/ sliceEnds
  <2>1. flushCorpus /\ UNCHANGED synced
    BY <1>2 DEF stopNow, sliceEnds, flush, inVars
  <2>2. \A i \in Inputs : sent[i] > 0 => sent'[i] > 0
    BY <2>1, FlushSends DEF WorkerInv
  <2> QED BY <2>1, <2>2 DEF Delivered
<1>3. CASE handle
  BY <1>1, <1>3, HandleKeeps DEF handle
<1>4. CASE loadCorpus \/ learnAndSeed \/ drained \/ fuzz
  BY <1>1, <1>4 DEF loadCorpus, learnAndSeed, drained, fuzz, wireVars, inVars
<1>5. CASE cancelNow \/ carryOn \/ distillFails \/ engineFails
  BY <1>1, <1>5 DEF cancelNow, carryOn, distillFails, engineFails, wireVars, inVars
<1>6. CASE \/ \E m \in Commands : readCommand(m)
           \/ daemonGoes \/ readClosed \/ cancel \/ intervalPasses \/ UNCHANGED vars
  BY <1>1, <1>6 DEF readCommand, daemonGoes, readClosed, cancel, intervalPasses, vars, wireVars, inVars
<1> QED BY <1>2, <1>3, <1>4, <1>5, <1>6 DEF Next, loop

\* What a flush delivers.
LEMMA FlushDelivers ==
    ASSUME WorkerInv, flushCorpus, UNCHANGED synced, ~gone
    PROVE  reported' = reported \cup ToSet(corpus) /\ reported' \subseteq Delivered'
<1>1. ToSet(corpus) \subseteq Inputs
  BY DEF WorkerInv, EngineOK, Corpora, Entries, ToSet
<1>2. \A i \in reported : i \in Delivered
  BY DEF WorkerInv, WireOK
<1> QED BY <1>1, <1>2, FlushSends DEF WorkerInv, WireOK, Delivered

LEMMA WireKept ==
    ASSUME WorkerInv, [Next]_vars
    PROVE  WireOK'
<1>1. /\ EngineStep(mined') /\ virgin \subseteq virgin' /\ stateful' = stateful
      /\ Delivered \subseteq Delivered'
  BY EngineKept, DeliveredGrows DEF EngineStep
<1>2. WireOK /\ ToSet(corpus) \subseteq Inputs /\ ToSet(Stored) \subseteq Inputs
  BY WorkerAssumption DEF WorkerInv, EngineOK, Corpora, Entries, ToSet
<1>3. ASSUME sendCheckpoint \/ UNCHANGED snapshot PROVE snapshot' \subseteq virgin'
  BY <1>1, <1>2, <1>3 DEF sendCheckpoint, Snapshot, WireOK
\* Nothing is reported, and nothing is found.
<1>4. ASSUME UNCHANGED <<reported, synced, mined>>, gone => gone', snapshot' \subseteq virgin'
      PROVE  reported' \cup synced' \cup mined' \subseteq Inputs /\ (~gone' => reported' \subseteq Delivered')
  BY <1>1, <1>2, <1>4 DEF WireOK
<1>5. CASE loadCorpus
  <2>1. ToSet(corpus') \subseteq ToSet(corpus) \cup ToSet(Stored)
    BY <1>5, LoadKeeps, WorkerAssumption DEF loadCorpus, WorkerInv
  <2>2. ToSet(corpus) = {}
    BY <1>2, <1>5 DEF loadCorpus, WireOK, ToSet
  <2>3. /\ reported' = ToSet(Stored) /\ UNCHANGED <<synced, mined, snapshot>> /\ mined = {}
        /\ IF stateful THEN pc' = "learn" ELSE pc' = "top"
    BY <1>2, <1>5 DEF loadCorpus, ready, inVars, WireOK
  <2>4. reported' \subseteq Delivered'
    BY <2>3 DEF Delivered
  <2> QED BY <1>1, <1>2, <1>3, <2>1, <2>2, <2>3, <2>4 DEF WireOK
<1>6. CASE learnAndSeed
  <2>1. /\ UNCHANGED <<reported, synced, mined, snapshot, gone>>
        /\ pc' \in {"learn", "top"} /\ stateful /\ mined \subseteq reported
    BY <1>2, <1>6 DEF learnAndSeed, ready, wireVars, inVars, WireOK
  <2> QED BY <1>1, <1>3, <1>4, <2>1 DEF WireOK
<1>7. ASSUME flush, UNCHANGED <<corpus, synced, mined, gone>>, pc \in {"top", "run"},
             pc' \in {"top", "done"}, snapshot' \subseteq virgin'
      PROVE  WireOK'
  <2>1. flushCorpus
    BY <1>7 DEF flush
  <2>2. reported' = reported \cup ToSet(corpus)
    BY <2>1, FlushSends DEF WorkerInv
  <2>3. ~gone => reported' \subseteq Delivered'
    BY <1>7, <2>1, FlushDelivers
  <2>4. mined \subseteq reported \cup ToSet(corpus)
    BY <1>2, <1>7 DEF WireOK
  <2> QED BY <1>2, <1>7, <2>2, <2>3, <2>4 DEF WireOK
<1>8. CASE stopNow
  BY <1>3, <1>7, <1>8 DEF stopNow, finish, engineVars, inVars
<1>9. CASE sliceEnds
  BY <1>3, <1>7, <1>9 DEF sliceEnds, engineVars, inVars
<1>10. CASE handle
  <2>1. UNCHANGED <<gone, mined, sent>> /\ pc = "drain" /\ pc' = "drain"
    BY <1>10 DEF handle
  <2>2. snapshot' \subseteq virgin'
    BY <1>3, <1>10 DEF handle
  <2>3. CASE UNCHANGED <<engineVars, reported, synced>>
    BY <1>1, <1>2, <1>4, <2>1, <2>2, <2>3 DEF WireOK, engineVars
  <2>4. ASSUME NEW s \in SUBSET Inputs, reported' = reported \cup s, synced' = synced \cup s,
               ToSet(corpus') \subseteq ToSet(corpus) \cup s
        PROVE  WireOK'
    <3>1. s \subseteq Delivered'
      BY <2>4 DEF Delivered
    <3> QED BY <1>1, <1>2, <2>1, <2>2, <2>4, <3>1 DEF WireOK
  <2> QED BY <1>10, <2>3, <2>4, HandleKeeps
<1>11. CASE drained
  <2>1. /\ UNCHANGED <<reported, synced, mined, snapshot, gone>>
        /\ pc = "drain" /\ pc' \in {"top", "run"}
    BY <1>11 DEF drained, pauseOrRun, wireVars, inVars
  <2>2. ToSet(corpus') \subseteq ToSet(corpus)
    BY <1>11, DrainedKeeps
  <2> QED BY <1>1, <1>2, <1>3, <1>4, <2>1, <2>2 DEF WireOK
<1>12. CASE fuzz
  <2>1. ToSet(corpus) \subseteq ToSet(corpus') /\ ToSet(corpus') \subseteq Inputs
    BY <1>12, EvaluateKeeps DEF fuzz, WorkerInv, Entries
  <2>2. /\ mined' = mined \cup (ToSet(corpus') \ ToSet(corpus)) /\ pc = "run" /\ pc' = "run"
        /\ UNCHANGED <<reported, synced, snapshot, gone>>
    BY <1>12 DEF fuzz, wireVars, inVars
  <2> QED BY <1>1, <1>2, <1>3, <2>1, <2>2 DEF WireOK
<1>13. CASE cancelNow \/ distillFails \/ engineFails
  <2>1. /\ UNCHANGED <<reported, synced, mined, gone>> /\ sendCheckpoint /\ pc' = "done"
    BY <1>13 DEF cancelNow, distillFails, engineFails, finish, inVars
  <2> QED BY <1>3, <1>4, <2>1 DEF WireOK
<1>14. CASE carryOn
  <2>1. UNCHANGED <<engineVars, reported, synced, mined, snapshot, gone>> /\ pc = "top" /\ pc' = "drain"
    BY <1>14 DEF carryOn, wireVars, inVars
  <2> QED BY <1>2, <1>3, <1>4, <2>1 DEF WireOK, engineVars
<1>15. CASE \/ \E m \in Commands : readCommand(m)
            \/ daemonGoes \/ readClosed \/ cancel \/ intervalPasses \/ UNCHANGED vars
  <2>1. UNCHANGED <<engineVars, reported, synced, mined, snapshot, pc>> /\ (gone' = gone \/ gone' = TRUE)
    BY <1>15 DEF readCommand, daemonGoes, readClosed, cancel, intervalPasses, vars, loopVars, wireVars, inVars
  <2> QED BY <1>2, <1>3, <1>4, <2>1 DEF WireOK, engineVars
<1> QED BY <1>5, <1>6, <1>8, <1>9, <1>10, <1>11, <1>12, <1>13, <1>14, <1>15 DEF Next, loop

LEMMA StopKept ==
    ASSUME WorkerInv, [Next]_vars
    PROVE  StopLosesNothing'
<1>0. ended # "no" => pc = "done"
  BY DEF WorkerInv, LoopOK
<1>1. CASE stopNow
  <2>1. /\ flushCorpus /\ flushFindings /\ UNCHANGED <<findings, synced, mined, gone>>
        /\ pc = "top"
    BY <1>1 DEF stopNow, flush, engineVars, inVars
  <2>2. ASSUME ~gone PROVE mined' \subseteq Delivered'
    <3>1. mined \subseteq reported
      BY <2>1 DEF WorkerInv, WireOK
    <3> QED BY <2>1, <2>2, <3>1, FlushDelivers
  <2>3. ASSUME ~gone PROVE filed' = findings'
    BY <2>1, <2>3, FlushFiles DEF WorkerInv, EngineOK
  <2> QED BY <2>1, <2>2, <2>3 DEF StopLosesNothing
<1>2. CASE ended' # "stopped"
  BY <1>2 DEF StopLosesNothing
<1>3. CASE UNCHANGED vars
  <2>1. UNCHANGED <<ended, gone, mined, filed, findings, synced, sent>>
    BY <1>3 DEF vars, engineVars, loopVars, wireVars, inVars
  <2> QED BY <2>1 DEF WorkerInv, StopLosesNothing, Delivered
<1>4. ASSUME ended' = ended, pc # "done" PROVE ended' # "stopped"
  BY <1>0, <1>4
<1>5. ASSUME cancelNow \/ distillFails \/ engineFails PROVE ended' # "stopped"
  BY <1>5 DEF cancelNow, distillFails, engineFails, finish
<1>6. ASSUME loadCorpus \/ learnAndSeed \/ carryOn \/ handle \/ drained \/ sliceEnds \/ fuzz
      PROVE  ended' # "stopped"
  BY <1>4, <1>6 DEF loadCorpus, learnAndSeed, carryOn, handle, drained, sliceEnds, fuzz
<1>7. ASSUME \/ \E m \in Commands : readCommand(m)
             \/ daemonGoes \/ readClosed \/ cancel \/ intervalPasses
      PROVE  ended' # "stopped"
  BY <1>4, <1>7 DEF readCommand, daemonGoes, readClosed, cancel, intervalPasses, loopVars
<1> QED BY <1>1, <1>2, <1>3, <1>5, <1>6, <1>7 DEF Next, loop

\* A checkpoint sent when the daemon has what is in the corpus.
LEMMA SnapshotBacked ==
    ASSUME WorkerInv, sendCheckpoint, Delivered \subseteq Delivered', ended # "error",
           ~gone /\ ~stateful => ToSet(corpus) \subseteq Delivered'
    PROVE  CheckpointIsBacked'
<1>1. \A h \in snapshot : \E i \in Delivered' : h[1] \in Counters(i)
  BY DEF WorkerInv, CheckpointIsBacked
<1>2. CASE snapshot' = snapshot \/ snapshot' = {}
  BY <1>1, <1>2 DEF CheckpointIsBacked
<1>3. CASE ~gone /\ ~stateful /\ snapshot' = virgin
  BY <1>3 DEF WorkerInv, EngineOK, CoverageIsKept, CheckpointIsBacked
<1> QED BY <1>2, <1>3 DEF sendCheckpoint, Snapshot

LEMMA CheckpointKept ==
    ASSUME WorkerInv, [Next]_vars
    PROVE  CheckpointIsBacked'
<1>1. Delivered \subseteq Delivered'
  BY DeliveredGrows
<1>2. ended # "no" => pc = "done"
  BY DEF WorkerInv, LoopOK
<1>3. ASSUME UNCHANGED <<snapshot, ended>> PROVE CheckpointIsBacked'
  BY <1>1, <1>3 DEF WorkerInv, CheckpointIsBacked
<1>4. ASSUME pc \in {"top", "drain"}, ~gone, ~stateful PROVE ToSet(corpus) \subseteq Delivered
  BY <1>4 DEF WorkerInv, WireOK
<1>5. CASE stopNow
  <2>1. flushCorpus /\ sendCheckpoint /\ UNCHANGED synced /\ ended # "error"
    BY <1>2, <1>5 DEF stopNow, flush, finish, inVars
  <2>2. ~gone => ToSet(corpus) \subseteq Delivered'
    BY <2>1, FlushDelivers
  <2> QED BY <1>1, <2>1, <2>2, SnapshotBacked
<1>6. CASE cancelNow
  <2>1. sendCheckpoint /\ pc = "top" /\ ended # "error"
    BY <1>2, <1>6 DEF cancelNow, finish
  <2> QED BY <1>1, <1>4, <2>1, SnapshotBacked
<1>7. CASE handle
  <2>1. pc = "drain" /\ UNCHANGED ended /\ ended # "error" /\ (sendCheckpoint \/ UNCHANGED snapshot)
    BY <1>2, <1>7 DEF handle
  <2> QED BY <1>1, <1>3, <1>4, <2>1, SnapshotBacked
<1>8. CASE distillFails \/ engineFails
  BY <1>8 DEF distillFails, engineFails, finish, CheckpointIsBacked
<1>9. CASE loadCorpus \/ learnAndSeed \/ carryOn \/ drained \/ sliceEnds \/ fuzz
  BY <1>3, <1>9 DEF loadCorpus, learnAndSeed, carryOn, drained, sliceEnds, fuzz, wireVars
<1>10. CASE \/ \E m \in Commands : readCommand(m)
            \/ daemonGoes \/ readClosed \/ cancel \/ intervalPasses \/ UNCHANGED vars
  BY <1>3, <1>10 DEF readCommand, daemonGoes, readClosed, cancel, intervalPasses, vars, loopVars, wireVars
<1> QED BY <1>5, <1>6, <1>7, <1>8, <1>9, <1>10 DEF Next, loop

-----------------------------------------------------------------------------
(* What a worker found is not lost: every counter its feedback has marked is *)
(* reached by an entry it still has, however evaluate trimmed it and Distill *)
(* thinned the corpus; what was stored, learned or synced and traced was     *)
(* judged; a worker that stops when asked has told the daemon of everything; *)
(* and the daemon has the inputs behind the coverage of each checkpoint.     *)
THEOREM DiscoveriesCorrect == Spec => []DiscoveriesAreKept
<1>1. Init => WorkerInv
  <2> SUFFICES ASSUME Init PROVE WorkerInv
    OBVIOUS
  <2>1. /\ corpus = << >> /\ virgin = {} /\ known = {} /\ findings = << >>
        /\ traces = [i \in Inputs |-> NoTrace] /\ stateful \in BOOLEAN
    BY WorkerAssumption, Zenon DEF Init, EngineInit
  <2>2. EngineOK /\ Judged(traces, findings, mined)
    BY <2>1 DEF EngineOK, Corpora, IsInjective, TraceStores, CoverageIsKept, Judged, HasTrace
  <2>3. {paused, stop, cancelled, gone} \subseteq BOOLEAN
    BY Zenon DEF Init
  <2>4. LoopOK
    BY <2>3, WorkerAssumption DEF Init, LoopOK, Endings
  <2>5. MarkedOK
    BY DEF Init, MarkedOK
  <2>6. WireOK /\ StopLosesNothing /\ CheckpointIsBacked
    BY <2>1 DEF Init, WireOK, StopLosesNothing, CheckpointIsBacked
  <2>7. FiledOK
    <3>1. told = 0 /\ filed = << >>
      BY DEF Init
    <3>2. SubSeq(findings, 1, 0) = << >>
      BY SubSeqEmpty
    <3> QED BY <2>1, <3>1, <3>2 DEF FiledOK
  <2> QED BY <2>2, <2>4, <2>5, <2>6, <2>7 DEF WorkerInv
<1>2. WorkerInv /\ [Next]_vars => WorkerInv'
  <2> SUFFICES ASSUME WorkerInv, [Next]_vars PROVE WorkerInv'
    OBVIOUS
  <2>1. EngineOK' /\ Judged(traces, findings, mined)' /\ Extends(findings', findings)
    BY EngineKept DEF EngineStep, Judged, HasTrace, Knows
  <2>2. LoopOK' /\ MarkedOK' /\ WireOK' /\ StopLosesNothing' /\ CheckpointIsBacked'
    BY LoopKept, MarkedKept, WireKept, StopKept, CheckpointKept DEF WorkerInv
  <2>3. FiledOK'
    BY <2>1, FiledKept DEF WorkerInv, EngineOK
  <2> QED BY <2>1, <2>2, <2>3 DEF WorkerInv
<1>3. WorkerInv => DiscoveriesAreKept
  <2> SUFFICES ASSUME WorkerInv PROVE DiscoveriesAreKept
    OBVIOUS
  <2>1. TypeOK
    <3>1. \A i \in Inputs : HasTrace(traces, i) => traces[i] \subseteq AllStates
      BY DEF WorkerInv, EngineOK, TraceStores, HasTrace
    <3>2. \A n \in DOMAIN findings : findings[n].bug = Bug[findings[n].input]
      <4>1. \A r \in Reports : r.bug = Bug[r.input]
        BY DEF Reports
      <4>2. \A n \in DOMAIN findings : findings[n] \in Reports
        BY DEF WorkerInv, EngineOK
      <4> QED BY <4>1, <4>2
    <3> QED BY <3>1, <3>2 DEF WorkerInv, EngineOK, LoopOK, MarkedOK, WireOK, FiledOK, TypeOK,
            Corpora, Entries, AllStates
  <2>2. TracedIsJudged
    <3>1. ToSet(corpus) \subseteq Inputs /\ DOMAIN findings = 1 .. Len(findings)
      BY DEF WorkerInv, EngineOK, Corpora, Entries, ToSet
    <3> QED BY <3>1 DEF WorkerInv, Judged, Knows, TracedIsJudged
  <2> QED BY <2>1, <2>2 DEF WorkerInv, EngineOK, DiscoveriesAreKept
<1> QED BY <1>1, <1>2, <1>3, PTL DEF Spec
=============================================================================
