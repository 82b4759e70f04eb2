------------------------------- MODULE Fixup -------------------------------
(***************************************************************************)
(* pkg/ir: the pass that restores lengths, counts, offsets and checksums   *)
(* after a tree was mutated (Fixer.Fix, with Ref.Resolve and               *)
(* AppendEncode).  A worker keeps one Fixer and calls it once for each     *)
(* mutated tree, so a call is one step.                                    *)
(*                                                                         *)
(* A tree is a sequence of nodes in document order; a node is named by its *)
(* position and the root is the first.  A byte has FxByte values, and an   *)
(* integer of width w is w of them, most significant first or last.        *)
(***************************************************************************)
EXTENDS Integers, Sequences, SequencesExt, FiniteSets, FiniteSetsExt

CONSTANTS
    FxByte,       \* values of a byte (256)
    FxTrees,      \* the trees a schema can give: sequences of nodes
    FxSuppress,   \* Suppress: sets of derivation classes left alone
    FxEdits       \* mutations and passes of one behaviour

VARIABLES
    fxTree,       \* the tree
    fxBuf,        \* Fixer.buf, the encoding
    fxOutcome,    \* what the last pass returned
    fxSup,        \* what the last pass left alone
    fxWas,        \* the tree that the last pass was given
    fxCount       \* edits and passes so far

fxVars == <<fxTree, fxBuf, fxOutcome, fxSup, fxWas, fxCount>>

Kinds == {"bytes", "int", "derived", "struct", "repeat", "choice", "opt"}
Root == 1

\* Node.Selected: the alternative of a choice; 0 for none.
Selected(t, n) == IF t[n].sel \in 1..Len(t[n].kids) THEN t[n].kids[t[n].sel] ELSE 0

\* Children the encoding has: the selected alternative, the content of an
\* optional that is present, every child of anything else.
contributes(t, n, c) ==
    CASE t[n].kind = "choice" -> Selected(t, n) = c
      [] t[n].kind = "opt" -> t[n].present
      [] OTHER -> TRUE
contributing(t, n) == SelectSeq(t[n].kids, LAMBDA c : contributes(t, n, c))

\* validate: what a schema or a decoder may hand on.
Validate(t) ==
    \A n \in DOMAIN t :
        /\ t[n].kind \in Kinds
        /\ t[n].kind \in {"int", "derived"} => t[n].width \in {1, 2, 4, 8}
        /\ t[n].kind = "choice" => t[n].sel \in 1..Len(t[n].kids)
        /\ t[n].kind = "opt" => Len(t[n].kids) = 1
        /\ t[n].kind \in {"bytes", "int", "derived"} => t[n].kids = <<>>
        /\ \A i \in DOMAIN t[n].kids : t[n].kids[i] \in (n + 1)..Len(t)

----------------------------------------------------------------------------
(* Integers.                                                               *)

\* truncate: the low bytes of a value.  Masking makes a negative one wrap.
truncate(v, width) == v % (FxByte ^ width)

\* putInt and appendInt.
digits(v, width, endian) ==
    LET low == [i \in 1..width |-> (v \div (FxByte ^ (i - 1))) % FxByte]
    IN  IF endian = "little" THEN low ELSE Reverse(low)

\* ReadInt of an unsigned field.
ReadInt(b, endian) ==
    LET low == IF endian = "little" THEN b ELSE Reverse(b)
    IN  FoldLeftDomain(LAMBDA v, i : v + low[i] * FxByte ^ (i - 1), 0, low)

\* sumBytes and internetChecksum; the rest of the table reads bytes alike.
sumBytes(b) == FoldLeft(LAMBDA s, x : s + x, 0, b)
internetChecksum(b) ==
    LET top == FxByte * FxByte - 1
        sum == FoldLeftDomain(LAMBDA s, i : s + (IF i % 2 = 1 THEN b[i] * FxByte ELSE b[i]), 0, b)
    IN  top - (IF sum = 0 THEN 0 ELSE ((sum - 1) % top) + 1)
Algorithms == {"sum16", "internet", "len"}
Checksum(algo, b) ==
    CASE algo = "sum16" -> sumBytes(b) % (FxByte * FxByte)
      [] algo = "internet" -> internetChecksum(b)
      [] algo = "len" -> Len(b)

----------------------------------------------------------------------------
(* Sizes and places.                                                       *)

\* measure: the encoded length of every node, encoded or not.  A parent comes
\* before its children, so from the last to the first what is done has theirs.
measure(t) ==
    FoldLeftDomain(LAMBDA done, i :
        LET m == Len(t) + 1 - i
        IN  <<CASE t[m].kind = "bytes" -> Len(t[m].raw)
                [] t[m].kind \in {"int", "derived"} -> t[m].width
                [] OTHER -> FoldLeft(LAMBDA s, c : s + done[c - m], 0, contributing(t, m))>> \o done, <<>>, t)

\* locate: where each encoded node begins; nothing for the others.
Unplaced == -1
parent(t, n) ==
    LET above == {p \in 1..(n - 1) : n \in ToSet(t[p].kids)}
    IN  IF above = {} THEN 0 ELSE Max(above)
locate(t, length) ==
    FoldLeftDomain(LAMBDA at, n :
        Append(at,
            IF n = Root THEN 0
            ELSE IF parent(t, n) = 0 THEN Unplaced
            ELSE LET p == parent(t, n)
                     earlier == {c \in ToSet(contributing(t, p)) : c < n}
                 IN  IF at[p] = Unplaced \/ ~contributes(t, p, n) THEN Unplaced
                     ELSE at[p] + MapThenSumSet(LAMBDA c : length[c], earlier)), <<>>, t)

\* AppendEncode.
Encode(t) ==
    FoldLeftDomain(LAMBDA done, i :
        LET m == Len(t) + 1 - i
        IN  <<CASE t[m].kind = "bytes" -> t[m].raw
                [] t[m].kind \in {"int", "derived"} -> digits(t[m].val, t[m].width, t[m].endian)
                [] OTHER -> FoldLeft(LAMBDA s, c : s \o done[c - m], <<>>, contributing(t, m))>>
            \o done, <<>>, t)[Root]

----------------------------------------------------------------------------
(* References.                                                             *)

\* Fixer.stack when the walk is at a node, outermost first.
ancestors(t, n) ==
    LET stack[m \in 1..n] ==
            IF parent(t, m) = 0 THEN <<>> ELSE Append(stack[parent(t, m)], parent(t, m))
    IN  stack[n]

\* Ref.Resolve: the node a reference names, or 0.  A step is a child's number.
step(t, cur, s) == IF cur # 0 /\ s \in DOMAIN t[cur].kids THEN t[cur].kids[s] ELSE 0
above(stack, up) == IF Len(stack) - up \in DOMAIN stack THEN stack[Len(stack) - up] ELSE 0
Resolve(t, r, n) ==
    IF r.self THEN n
    ELSE FoldLeft(LAMBDA cur, s : step(t, cur, s),
                  IF r.absolute THEN Root ELSE above(ancestors(t, n), r.up), r.steps)

\* Ref.IsZero: no reference at all, and also the one that names the parent.
IsZero(r) == ~r.self /\ ~r.absolute /\ r.up = 0 /\ r.steps = <<>>

\* span: the bytes from one node to the end of another; <<>> is a refusal.
between(length, off, from, to) ==
    IF \/ from = 0 \/ to = 0
       \/ off[from] = Unplaced \/ off[to] = Unplaced
       \/ off[to] < off[from]
    THEN <<>>
    ELSE <<off[from], off[to] + length[to]>>
span(t, length, off, n) ==
    LET d == t[n].derive
        from == Resolve(t, d.from, n)
    IN  between(length, off, from, IF IsZero(d.to) THEN from ELSE Resolve(t, d.to, n))

----------------------------------------------------------------------------
(* One pass.                                                               *)

\* Derived nodes the walk of derive visits, in document order.
derived(t, off) ==
    SetToSortSeq({n \in DOMAIN t : t[n].kind = "derived" /\ off[n] # Unplaced}, <)

\* computeOne for the three classes that read sizes only; -1 is a refusal.
sizeOf(t, off, kind, target, s) ==
    CASE kind = "length" /\ s # <<>> -> s[2] - s[1]
      [] kind = "count" /\ target # 0 ->
            IF t[target].kind = "opt" /\ ~t[target].present THEN 0 ELSE Len(t[target].kids)
      [] kind = "offset" /\ target # 0 -> off[target]
      [] OTHER -> -1
structural(t, length, off, n) ==
    LET d == t[n].derive
    IN  sizeOf(t, off, d.kind, Resolve(t, d.from, n), span(t, length, off, n))

\* computeOne for a checksum: the spans of the field and of what it covers.
task(t, off, n, range) ==
    LET end == off[n] + t[n].width
    IN  [node |-> n, fieldOff |-> off[n], fieldEnd |-> end, rangeOff |-> range[1], rangeEnd |-> range[2],
         self |-> off[n] >= range[1] /\ end <= range[2]]

\* What stops computeOne at a node.
uncovered(t, off, n, range) ==
    LET d == t[n].derive
    IN  IF d.algo \notin Algorithms \/ range = <<>> THEN "unresolved"
        ELSE IF task(t, off, n, range).self /\ ~d.selfZero THEN "cyclic" ELSE "none"
refused(t, length, off, n) ==
    IF t[n].derive.kind = "checksum" THEN uncovered(t, off, n, span(t, length, off, n))
    ELSE IF structural(t, length, off, n) < 0 THEN "unresolved" ELSE "none"

\* Mistake: checksums are computed in document order.
buildDepsNone(tasks) == [i \in DOMAIN tasks |-> {}]

\* buildDeps: the checksums whose fields fall inside each range.
buildDeps(tasks) ==
    [i \in DOMAIN tasks |->
        {j \in DOMAIN tasks \ {i} :
            /\ tasks[j].fieldOff >= tasks[i].rangeOff
            /\ tasks[j].fieldEnd <= tasks[i].rangeEnd}]

\* Mistake: the field keeps what it held while its own checksum is taken.
oneChecksumStale(t, buf, k) ==
    LET n == k.node
        over == SubSeq(buf, k.rangeOff + 1, k.rangeEnd)
    IN  truncate(Checksum(t[n].derive.algo, over) + t[n].derive.addend, t[n].width)

\* The value of one task over the buffer as it is.
oneChecksum(t, buf, k) ==
    LET n == k.node
        zeroed == [i \in DOMAIN buf |-> IF k.self /\ i \in (k.fieldOff + 1)..k.fieldEnd THEN 0 ELSE buf[i]]
        over == SubSeq(zeroed, k.rangeOff + 1, k.rangeEnd)
    IN  truncate(Checksum(t[n].derive.algo, over) + t[n].derive.addend, t[n].width)

\* A task's value goes into the node and into the buffer.
patch(w, k) ==
    LET v == oneChecksum(w.tree, w.buf, k)
        d == digits(v, w.tree[k.node].width, w.tree[k.node].endian)
    IN  [w EXCEPT !.tree[k.node].val = v,
                  !.buf = [i \in DOMAIN w.buf |->
                              IF i \in (k.fieldOff + 1)..k.fieldEnd THEN d[i - k.fieldOff] ELSE w.buf[i]]]

\* Kahn's algorithm: a queue of the tasks with nothing left to wait for,
\* extended in document order as each is taken.
kahn(tasks) ==
    LET deps == buildDeps(tasks)
        free(done) == {i \in DOMAIN tasks \ ToSet(done) : deps[i] = {}}
        run[h \in 0..Len(tasks)] ==
            IF h = 0 THEN SetToSortSeq(free(<<>>), <)
            ELSE LET q == run[h - 1]
                 IN  IF h > Len(q) THEN q
                     ELSE LET taken == ToSet(SubSeq(q, 1, h))
                              opened == {j \in DOMAIN tasks \ ToSet(q) : q[h] \in deps[j] /\ deps[j] \subseteq taken}
                          IN  q \o SetToSortSeq(opened, <)
    IN  run[Len(tasks)]

\* checksums: what the queue reached is written; what it did not is a cycle.
checksums(t, buf, tasks) ==
    LET order == kahn(tasks)
        done == FoldLeft(LAMBDA w, i : patch(w, tasks[i]), [tree |-> t, buf |-> buf], order)
    IN  [tree |-> done.tree, buf |-> done.buf,
         outcome |-> IF Len(order) = Len(tasks) THEN "ok" ELSE "cyclic"]

\* derive and what follows it.  A refusal leaves the nodes before it changed and
\* the buffer alone.
derive(t, length, off, todo, refusals) ==
    LET stop == SelectInSeq(refusals, LAMBDA r : r # "none")
        upto == IF stop = 0 THEN Len(todo) ELSE stop - 1
        sizes == {todo[i] : i \in {j \in 1..upto : t[todo[j]].derive.kind # "checksum"}}
    IN  [stop |-> stop,
         tree |-> [n \in DOMAIN t |->
                    IF n \in sizes
                    THEN [t[n] EXCEPT !.val =
                            truncate(structural(t, length, off, n) + t[n].derive.addend, t[n].width)]
                    ELSE t[n]]]

\* Fix, when the sizes are known.
finish(buf, refusals, sized, tasks) ==
    IF sized.stop # 0 THEN [tree |-> sized.tree, buf |-> buf, outcome |-> refusals[sized.stop]]
    ELSE checksums(sized.tree, Encode(sized.tree), tasks)
fixPlaced(t, buf, length, off, todo) ==
    LET refusals == [i \in DOMAIN todo |-> refused(t, length, off, todo[i])]
        sums == SelectSeq(todo, LAMBDA n : t[n].derive.kind = "checksum")
    IN  finish(buf, refusals, derive(t, length, off, todo, refusals),
               [i \in DOMAIN sums |-> task(t, off, sums[i], span(t, length, off, sums[i]))])

Fix(t, buf, sup) ==
    LET length == measure(t)
        off == locate(t, length)
    IN  fixPlaced(t, buf, length, off,
                  SelectSeq(derived(t, off), LAMBDA n : t[n].derive.kind \notin sup))

----------------------------------------------------------------------------
(* Mutations between two passes, and the pass.                             *)

Payloads == {<<>>, <<0>>, <<FxByte - 1, 1>>}

\* The operators on payloads, together: any other bytes.
rewrite(n) == fxTree[n].kind = "bytes" /\ \E r \in Payloads : fxTree' = [fxTree EXCEPT ![n].raw = r]
\* IntArith and the other operators on integers; the value is not truncated.
IntArith(n) == fxTree[n].kind = "int" /\ \E d \in {-1, 1} : fxTree' = [fxTree EXCEPT ![n].val = @ + d]
ChoiceSwitch(n) ==
    /\ fxTree[n].kind = "choice"
    /\ \E s \in DOMAIN fxTree[n].kids \ {fxTree[n].sel} : fxTree' = [fxTree EXCEPT ![n].sel = s]
OptToggle(n) == fxTree[n].kind = "opt" /\ fxTree' = [fxTree EXCEPT ![n].present = ~@]
\* The element stays in the sequence of nodes, without a parent.
RepeatDelete(n) ==
    /\ fxTree[n].kind = "repeat"
    /\ \E at \in DOMAIN fxTree[n].kids : fxTree' = [fxTree EXCEPT ![n].kids = RemoveAt(@, at)]

\* What havoc does before the pass, to anything but a derived node; the
\* encoding is then out of date.  A mutation that no pass can follow within the
\* bound is left out.
Mutate ==
    /\ fxCount + 1 < FxEdits
    /\ \E n \in DOMAIN fxTree :
        rewrite(n) \/ IntArith(n) \/ ChoiceSwitch(n) \/ OptToggle(n) \/ RepeatDelete(n)
    /\ fxOutcome' = "none"
    /\ fxCount' = fxCount + 1
    /\ UNCHANGED <<fxBuf, fxSup, fxWas>>

FixUp ==
    /\ fxCount < FxEdits
    /\ \E sup \in FxSuppress :
        \E r \in {Fix(fxTree, fxBuf, sup)} :
            /\ fxTree' = r.tree
            /\ fxBuf' = r.buf
            /\ fxOutcome' = r.outcome
            /\ fxSup' = sup
    /\ fxWas' = fxTree
    /\ fxCount' = fxCount + 1

FixInit ==
    /\ fxTree \in {t \in FxTrees : Validate(t)}
    /\ fxBuf = <<>> /\ fxOutcome = "none" /\ fxSup = {} /\ fxWas = fxTree /\ fxCount = 0

FixNext == Mutate \/ FixUp

----------------------------------------------------------------------------
(* Reference: the same notions by counting bytes of the encoding.          *)

ShownBy(t, path) == path[1] = Root /\ \A i \in 1..(Len(path) - 1) : contributes(t, path[i], path[i + 1])
Shown(t, n) == ShownBy(t, Append(ancestors(t, n), n))
Size(t, n) == IF t[n].kind = "bytes" THEN Len(t[n].raw) ELSE t[n].width
Leaves(t) ==
    {m \in DOMAIN t : t[m].kind \in {"bytes", "int", "derived"} /\ Shown(t, m)}
Begins(t, n) == MapThenSumSet(LAMBDA m : Size(t, m), {m \in Leaves(t) : m < n})
Ends(t, n) ==
    Begins(t, n) + MapThenSumSet(LAMBDA m : Size(t, m), {m \in Leaves(t) : n = m \/ n \in ToSet(ancestors(t, m))})

Over(t, n) ==
    LET d == t[n].derive
        from == Resolve(t, d.from, n)
        to == IF IsZero(d.to) THEN from ELSE Resolve(t, d.to, n)
    IN  <<Begins(t, from), Ends(t, to)>>
Field(t, n) == (Begins(t, n) + 1)..(Begins(t, n) + t[n].width)

\* What a derived field must hold, read off the finished bytes.
Means(t, b, d, field, target, over) ==
    LET blank == [i \in DOMAIN b |-> IF d.selfZero /\ i \in field THEN 0 ELSE b[i]]
    IN  CASE d.kind = "length" -> over[2] - over[1]
          [] d.kind = "count" ->
                IF t[target].kind = "opt" /\ ~t[target].present THEN 0 ELSE Len(t[target].kids)
          [] d.kind = "offset" -> Begins(t, target)
          [] d.kind = "checksum" -> Checksum(d.algo, SubSeq(blank, over[1] + 1, over[2]))
Meaning(t, b, n) ==
    LET d == t[n].derive IN Means(t, b, d, Field(t, n), Resolve(t, d.from, n), Over(t, n))

Active(t, sup) == {n \in DOMAIN t : t[n].kind = "derived" /\ Shown(t, n) /\ t[n].derive.kind \notin sup}

\* Pairs of checksums of which the first has the second's field among its bytes.
Within(field, over) == field \subseteq (over[1] + 1)..over[2]
Reads(t, S) == {p \in S \X S : Within(Field(t, p[2]), Over(t, p[1]))}

\* Some order has every checksum after the others that it reads.
Orderable(reads, S) ==
    \A C \in SUBSET S \ {{}} : \E n \in C : \A m \in C \ {n} : <<n, m>> \notin reads

\* What is said of the fields A, of which sums are checksums that read one
\* another as in reads.
Holds(t, b, n, begin) ==
    ReadInt(SubSeq(b, begin + 1, begin + t[n].width), t[n].endian)
        = truncate(Meaning(t, b, n) + t[n].derive.addend, t[n].width)
TrueOf(A, sums, reads) ==
    /\ fxOutcome = "ok" =>
        /\ fxBuf = Encode(fxTree)
        /\ \A n \in A : Holds(fxTree, fxBuf, n, Begins(fxTree, n))
        /\ \A n \in DOMAIN fxTree \ A : fxTree[n] = fxWas[n]
        /\ Orderable(reads, sums)
    /\ fxOutcome = "cyclic" =>
        \/ ~Orderable(reads, sums)
        \/ \E n \in sums : ~fxTree[n].derive.selfZero /\ <<n, n>> \in reads

\* A pass that succeeds leaves the encoding of the tree, in which every
\* derived field that was not suppressed holds exactly what its derivation
\* says of the finished bytes, checksums over checksums included, and every
\* other node is as it was.  It reports a cycle only when the checksums admit
\* no order or one covers itself without SelfZero (pkg/ir/fixup.go,
\* Fixer.Fix).
DerivedIsTrue ==
    LET A == Active(fxTree, fxSup)
        sums == {n \in A : fxTree[n].derive.kind = "checksum"}
    IN  TrueOf(A, sums, Reads(fxTree, sums))

\* The pass never changes the shape of what it is given.
FixupTypeOK ==
    /\ Validate(fxTree)
    /\ fxOutcome \in {"none", "ok", "cyclic", "unresolved"}
    /\ \A n \in DOMAIN fxTree : fxTree[n].kind = "derived" => fxTree[n].val \in 0..(FxByte ^ fxTree[n].width - 1)
=============================================================================
