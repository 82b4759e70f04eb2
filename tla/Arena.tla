------------------------------- MODULE Arena -------------------------------
(***************************************************************************)
(* pkg/ir/arena.go: the storage of one worker's fuzz loop.  A corpus entry *)
(* is cloned into the arena, or shared and copied as it is written; the    *)
(* candidate is mutated in place, grown from the arena and, when it is     *)
(* worth keeping, copied out; then the arena is rewound and hands the same *)
(* storage out again.                                                      *)
(*                                                                         *)
(* Storage is three kinds of cells: nodes, pointers to children, bytes.    *)
(* Below Heap a cell belongs to a slab of the arena, from Big on to an     *)
(* oversized buffer; from Heap on to the heap, where a cell is used once.  *)
(* A tree is a root with children that hold payloads.                      *)
(***************************************************************************)
EXTENDS Naturals, Sequences, SequencesExt, FiniteSets, FiniteSetsExt

CONSTANTS
    ArNodes,      \* nodeSlabSize
    ArKids,       \* kidSlabSize
    ArBytes,      \* byteSlabSize
    ArSeeds,      \* corpora at the start: sequences of trees
    ArEdits,      \* mutations of one iteration
    ArLoops       \* iterations

VARIABLES
    arMem,        \* cells: nodes, kids, bytes
    arPtr,        \* bump pointers of the arena, and buffers it keeps
    arHeap,       \* next cell of the heap
    arCorpus,     \* roots of the entries
    arKept,       \* what each entry was when it was admitted
    arRoot,       \* root of the candidate
    arValue,      \* the candidate, as the mutations define it
    arEdits,
    arLoops

arVars == <<arMem, arPtr, arHeap, arCorpus, arKept, arRoot, arValue, arEdits, arLoops>>

Big == 40
Heap == 80
NoSlice == [at |-> 0, len |-> 0, cap |-> 0]
NoRoot == 0

\* What a root stands for: the payloads of its children.
cells(m, s) == [i \in 1..s.len |-> m[s.at + i - 1]]
payloads(mem, kids) == [i \in DOMAIN kids |-> cells(mem.bytes, mem.nodes[kids[i]].raw)]
Denotes(mem, r) == payloads(mem, cells(mem.kids, mem.nodes[r].kids))

write(m, at, vals) == [c \in DOMAIN m |-> IF c \in at..(at + Len(vals) - 1) THEN vals[c - at + 1] ELSE m[c]]

----------------------------------------------------------------------------
(* Allocation.  w is the memory with the arena's pointers and the heap's.  *)

\* Arena.New: the next node of the slab, the next slab when it is full.
New(w) ==
    [w EXCEPT !.got = w.ptr.nodeSlab * ArNodes + w.ptr.nodeIdx + 1,
              !.ptr.nodeIdx = (@ + 1) % ArNodes,
              !.ptr.nodeSlab = IF w.ptr.nodeIdx + 1 = ArNodes THEN @ + 1 ELSE @]

\* A request larger than a slab has a buffer of its own, kept for the request
\* of the same number after a Reset if it is then large enough.
freshBuffer(w, bufs, used, at, fresh) ==
    [w EXCEPT !.got = fresh,
              !.ptr[at] = @ + fresh.cap,
              !.bufs = IF used < Len(bufs) THEN [bufs EXCEPT ![used + 1] = fresh] ELSE Append(bufs, fresh)]

oversized(w, n, bufs, used, at) ==
    IF used < Len(bufs) /\ bufs[used + 1].cap >= n
    THEN [w EXCEPT !.got = bufs[used + 1], !.bufs = bufs]
    ELSE freshBuffer(w, bufs, used, at, [at |-> w.ptr[at], len |-> 0, cap |-> n])

\* Mistake: what does not fit in the slab begins in it all the same.
bumpTight(slab, idx, n, size) ==
    [slab |-> slab, idx |-> (idx + n) % size, at |-> slab * size + idx + 1]

\* Storage of n cells at the bump pointer, or at the start of the next slab.
bump(slab, idx, n, size) ==
    IF idx + n > size THEN [slab |-> slab + 1, idx |-> n, at |-> (slab + 1) * size + 1]
    ELSE [slab |-> slab, idx |-> idx + n, at |-> slab * size + idx + 1]

\* Arena.Kids: an empty slice with room for n.
bigKidSlice(w) == [w EXCEPT !.ptr.bigKids = w.bufs, !.ptr.bigKid = @ + 1, !.got.len = 0]
kidSlice(w, b, n) ==
    [w EXCEPT !.ptr.kidSlab = b.slab, !.ptr.kidIdx = b.idx, !.got = [at |-> b.at, len |-> 0, cap |-> n]]
Kids(w, n) ==
    IF n > ArKids THEN bigKidSlice(oversized(w, n, w.ptr.bigKids, w.ptr.bigKid, "topKids"))
    ELSE kidSlice(w, bump(w.ptr.kidSlab, w.ptr.kidIdx, n, ArKids), n)

\* Arena.byteBuf, Buf: n bytes that hold whatever was there.
bigBuf(w, n) == [w EXCEPT !.ptr.bigBufs = w.bufs, !.ptr.bigBuf = @ + 1, !.got.len = n]
buf(w, b, n) ==
    [w EXCEPT !.ptr.byteSlab = b.slab, !.ptr.byteIdx = b.idx, !.got = [at |-> b.at, len |-> n, cap |-> n]]
Buf(w, n) ==
    IF n = 0 THEN [w EXCEPT !.got = NoSlice]
    ELSE IF n > ArBytes THEN bigBuf(oversized(w, n, w.ptr.bigBufs, w.ptr.bigBuf, "topBytes"), n)
    ELSE buf(w, bump(w.ptr.byteSlab, w.ptr.byteIdx, n, ArBytes), n)

\* Mistake: the payload is the one of the original.
CopyBytesShares(w, s) == [w EXCEPT !.got = s]

\* CopyBytes.
putBytes(w, vals) == [w EXCEPT !.mem.bytes = write(@, w.got.at, vals), !.got.len = Len(vals)]
CopyBytes(w, s) == putBytes(Buf(w, s.len), cells(w.mem.bytes, s))

\* GrowBytes: room for need more, twice the capacity if that is more.  The
\* capacity of a buffer is what was asked for, never the rest of the slab.
GrowBytes(w, s, need) ==
    IF s.cap - s.len >= need THEN [w EXCEPT !.got = s]
    ELSE putBytes(Buf(w, Max({s.len + need, 2 * s.cap})), cells(w.mem.bytes, s))

putKids(w, vals) == [w EXCEPT !.mem.kids = write(@, w.got.at, vals), !.got.len = Len(vals)]
GrowKids(w, s, need) ==
    IF s.cap - s.len >= need THEN [w EXCEPT !.got = s]
    ELSE putKids(Kids(w, Max({s.len + need, 2 * s.cap})), cells(w.mem.kids, s))

----------------------------------------------------------------------------
(* Trees.                                                                  *)

\* One node with its own payload and no children (clone, Mutable).
newNode(w, id) ==
    [w EXCEPT !.mem.nodes[id] = [raw |-> w.got, kids |-> NoSlice, shared |-> FALSE], !.got = id]
nodeOf(w, raw) == newNode(CopyBytes(w, raw), w.got)
copyNode(w, n) == nodeOf(New(w), w.mem.nodes[n].raw)

\* The slice for the children of the node id, which comes before the children.
room(w, n) == IF n = 0 THEN [w EXCEPT !.got = NoSlice] ELSE Kids(w, n)
kidsOf(w, n) == cells(w.mem.kids, w.mem.nodes[n].kids)
hang(w, id) == [w EXCEPT !.mem.nodes[id].kids = w.got, !.got = id]

\* Arena.Clone.
cloned(a, c) == [w |-> c, got |-> Append(a.got, c.got)]
cloneKids(w, old) == FoldLeft(LAMBDA a, k : cloned(a, copyNode(a.w, k)), [w |-> w, got |-> <<>>], old)
hangClones(a, slice, id) == hang(putKids([a.w EXCEPT !.got = slice], a.got), id)
cloneInto(w, id, old) == hangClones(cloneKids(w, old), w.got, id)
cloneUnder(w, old) == cloneInto(room(w, Len(old)), w.got, old)
Clone(w, r) == cloneUnder(copyNode(w, r), kidsOf(w, r))

\* A copy of a shared node has the children of the original.
sameKids(w, id, old) == hang(putKids(room(w, Len(old)), old), id)
shallow(w, old) == sameKids(w, w.got, old)

\* Mistake: the children of the copy are not marked as shared.
MutableOnce(w, n) ==
    IF ~w.mem.nodes[n].shared THEN [w EXCEPT !.got = n] ELSE shallow(copyNode(w, n), kidsOf(w, n))

\* Arena.Mutable: a shared node is copied, and its children are shared then.
share(w, kids) ==
    [w EXCEPT !.mem.nodes = [m \in DOMAIN @ |->
        IF m \in kids THEN [@[m] EXCEPT !.shared = TRUE] ELSE @[m]]]
Mutable(w, n) ==
    IF ~w.mem.nodes[n].shared THEN [w EXCEPT !.got = n]
    ELSE share(shallow(copyNode(w, n), kidsOf(w, n)), ToSet(kidsOf(w, n)))

\* MutablePath to one child, with MutableChild.
pathTo(w, root, slot) == [w |-> [w EXCEPT !.mem.kids[slot] = w.got], root |-> root, kid |-> w.got]
mutableChild(w, slot) == pathTo(Mutable(w, w.mem.kids[slot]), w.got, slot)
childOf(w, i) == mutableChild(w, w.mem.nodes[w.got].kids.at + i - 1)
MutablePath(w, r, i) == childOf(Mutable(w, r), i)

\* Copy: onto the heap.
slice(at, n) == IF n = 0 THEN NoSlice ELSE [at |-> at, len |-> n, cap |-> n]
before(value, i) == Len(FlattenSeq(SubSeq(value, 1, i - 1)))
heapNodes(next, value) ==
    <<[raw |-> NoSlice, kids |-> slice(next.kid, Len(value)), shared |-> FALSE]>>
    \o [i \in DOMAIN value |-> [raw |-> slice(next.byte + before(value, i), Len(value[i])),
                               kids |-> NoSlice, shared |-> FALSE]]
heapTree(mem, next, value) ==
    [mem |-> [nodes |-> write(mem.nodes, next.node, heapNodes(next, value)),
              kids |-> write(mem.kids, next.kid, [i \in DOMAIN value |-> next.node + i]),
              bytes |-> write(mem.bytes, next.byte, FlattenSeq(value))],
     next |-> [node |-> next.node + Len(value) + 1,
               kid |-> next.kid + Len(value),
               byte |-> next.byte + Len(FlattenSeq(value))],
     root |-> next.node]

----------------------------------------------------------------------------
(* The loop.                                                               *)

Storage == [mem |-> arMem, ptr |-> arPtr, bufs |-> <<>>, got |-> NoSlice]
Keep(w) == arMem' = w.mem /\ arPtr' = w.ptr

\* Arena.Reset: pointers go back, cells keep what they hold.
Reset(p) ==
    [p EXCEPT !.nodeSlab = 0, !.nodeIdx = 0, !.kidSlab = 0, !.kidIdx = 0,
              !.byteSlab = 0, !.byteIdx = 0, !.bigKid = 0, !.bigBuf = 0]

\* The top of an iteration: Reset, then a clone of an entry.
Begin ==
    /\ arLoops < ArLoops
    /\ \E e \in DOMAIN arCorpus :
        /\ \E w \in {Clone([Storage EXCEPT !.ptr = Reset(arPtr)], arCorpus[e])} :
            Keep(w) /\ arRoot' = w.got
        /\ arValue' = arKept[e]
    /\ arLoops' = arLoops + 1
    /\ arEdits' = 0
    /\ UNCHANGED <<arHeap, arCorpus, arKept>>

\* The other way to begin that the arena offers: Share an entry and let the
\* writes copy.  The loop itself always clones.
BeginShared ==
    /\ arLoops < ArLoops
    /\ \E e \in DOMAIN arCorpus :
        /\ arMem' = [arMem EXCEPT !.nodes[arCorpus[e]].shared = TRUE]
        /\ arRoot' = arCorpus[e]
        /\ arValue' = arKept[e]
    /\ arPtr' = Reset(arPtr)
    /\ arLoops' = arLoops + 1
    /\ arEdits' = 0
    /\ UNCHANGED <<arHeap, arCorpus, arKept>>

mutating == arRoot # NoRoot /\ arEdits < ArEdits
mutated == arEdits' = arEdits + 1 /\ UNCHANGED <<arHeap, arCorpus, arKept, arLoops>>

\* BitFlip, in place: a byte is one bit.
Flip ==
    /\ mutating
    /\ \E i \in DOMAIN arValue : \E b \in DOMAIN arValue[i] :
        /\ \E p \in {MutablePath(Storage, arRoot, i)} :
            /\ Keep([p.w EXCEPT !.mem.bytes[p.w.mem.nodes[p.kid].raw.at + b - 1] = 1 - @])
            /\ arRoot' = p.root
        /\ arValue' = [arValue EXCEPT ![i][b] = 1 - @]
    /\ mutated

\* InsertBytes at the end of a payload (insertRun).
Lengthen ==
    /\ mutating
    /\ \E i \in DOMAIN arValue :
        /\ \E p \in {MutablePath(Storage, arRoot, i)} :
            /\ \E g \in {GrowBytes(p.w, p.w.mem.nodes[p.kid].raw, 1)} :
                Keep([g EXCEPT !.mem.bytes[g.got.at + g.got.len] = 1,
                               !.mem.nodes[p.kid].raw = [g.got EXCEPT !.len = @ + 1]])
            /\ arRoot' = p.root
        /\ arValue' = [arValue EXCEPT ![i] = Append(@, 1)]
    /\ mutated

\* RepeatInsert: a clone of one child goes in (insertChild).  The place is any in
\* the code; here it is the first, which moves every other child.
Insert ==
    /\ mutating
    /\ \E src \in DOMAIN arValue :
        /\ \E r \in {Mutable(Storage, arRoot)} :
            /\ \E kid \in {Clone(r, kidsOf(r, r.got)[src])} :
               \E g \in {GrowKids(kid, r.mem.nodes[r.got].kids, 1)} :
                Keep([g EXCEPT !.mem.kids = write(@, g.got.at, <<kid.got>> \o cells(g.mem.kids, g.got)),
                               !.mem.nodes[r.got].kids = [g.got EXCEPT !.len = @ + 1]])
            /\ arRoot' = r.got
        /\ arValue' = <<arValue[src]>> \o arValue
    /\ mutated

\* Admission copies the candidate out.
Admit ==
    /\ arRoot # NoRoot /\ arEdits > 0
    /\ Len(arCorpus) < 2
    /\ \E c \in {heapTree(arMem, arHeap, Denotes(arMem, arRoot))} :
        /\ arMem' = c.mem
        /\ arHeap' = c.next
        /\ arCorpus' = Append(arCorpus, c.root)
    /\ arKept' = Append(arKept, arValue)
    /\ UNCHANGED <<arPtr, arRoot, arValue, arEdits, arLoops>>

Empty == [nodes |-> [c \in 1..(Heap + 12) |-> [raw |-> NoSlice, kids |-> NoSlice, shared |-> FALSE]],
          kids |-> [c \in 1..(Heap + 12) |-> 0],
          bytes |-> [c \in 1..(Heap + 16) |-> 0]]

ArenaInit ==
    /\ \E seed \in ArSeeds :
        /\ \E c \in {heapTree(Empty, [node |-> Heap, kid |-> Heap, byte |-> Heap], seed)} :
            arMem = c.mem /\ arHeap = c.next /\ arCorpus = <<c.root>>
        /\ arKept = <<seed>>
    /\ arPtr = [nodeSlab |-> 0, nodeIdx |-> 0, kidSlab |-> 0, kidIdx |-> 0, byteSlab |-> 0, byteIdx |-> 0,
                bigKids |-> <<>>, bigKid |-> 0, bigBufs |-> <<>>, bigBuf |-> 0,
                topKids |-> Big, topBytes |-> Big]
    /\ arRoot = NoRoot /\ arValue = <<>> /\ arEdits = 0 /\ arLoops = 0

ArenaNext == Begin \/ BeginShared \/ Flip \/ Lengthen \/ Insert \/ Admit

----------------------------------------------------------------------------

\* Storage that is handed out twice, grown or copied late would show here: the
\* candidate reads as the mutations define it, byte for byte, and no entry of
\* the corpus ever reads as anything but what was admitted, whether it was
\* cloned or shared (pkg/ir/arena.go, "it has to be safe").
TreesReadAsWritten ==
    /\ arRoot # NoRoot => Denotes(arMem, arRoot) = arValue
    /\ \A e \in DOMAIN arCorpus : Denotes(arMem, arCorpus[e]) = arKept[e]
=============================================================================
