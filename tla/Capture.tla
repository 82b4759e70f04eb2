------------------------------- MODULE Capture ------------------------------
(***************************************************************************)
(* pkg/capture: what becomes of recorded exchanges.  Redact takes the      *)
(* credentials out, Session writes the requests down, ApplySession puts    *)
(* the credentials back before they are sent, and Infer finds the values   *)
(* that one response produced and a later request carries.                 *)
(*                                                                         *)
(* Text is a sequence of characters, which are numbers.  A message is a    *)
(* sequence of fields, each with the text it holds and whether its name    *)
(* is one that a credential has; a placeholder is a character of its own,  *)
(* the negative of the number of its value.  A header block is one record  *)
(* of the stream, with the length it declares.                             *)
(***************************************************************************)
EXTENDS Integers, Sequences, FiniteSets, SequencesExt, Functions

CONSTANTS
    CpFields,     \* the fields to choose from
    CpValues,     \* CpValues[n]: the texts that have a number
    CpScheme,     \* the character that stands for "Bearer" and the like
    CpMin,        \* MinCredentialLength, and minLinkValue
    CpTracked,    \* maxTrackedValues
    CpExchanges,  \* exchanges of a capture
    CpTotal       \* fields of a capture, in all

VARIABLES
    cpCapture,    \* Capture.Exchanges
    cpPhase,      \* recording, redacted, sent
    cpRedacted,   \* what is written down
    cpSecrets,    \* Secrets.byPlaceholder
    cpSession,    \* the requests as one stream
    cpLinks       \* what Infer found

cpVars == <<cpCapture, cpPhase, cpRedacted, cpSecrets, cpSession, cpLinks>>

Init ==
    /\ cpCapture = <<>> /\ cpPhase = "recording" /\ cpRedacted = <<>> /\ cpSecrets = <<>>
    /\ cpSession = <<>> /\ cpLinks = {}

Sections == {"head", "body", "resp"}
size(c) == FoldFunction(+, 0, [i \in DOMAIN c |-> Len(c[i].head) + Len(c[i].body) + Len(c[i].resp)])

\* A reader of HAR, of a pcap or of a session, or the proxy, adds an exchange,
\* and to it the fields of its messages.
Read ==
    /\ cpPhase = "recording"
    /\ \/ /\ Len(cpCapture) < CpExchanges
          /\ cpCapture' = Append(cpCapture, [p \in Sections |-> <<>>])
       \/ /\ cpCapture # <<>> /\ size(cpCapture) < CpTotal
          /\ \E p \in Sections, f \in CpFields :
                cpCapture' = [cpCapture EXCEPT ![Len(cpCapture)][p] = Append(@, f)]
    /\ UNCHANGED <<cpPhase, cpRedacted, cpSecrets, cpSession, cpLinks>>

-----------------------------------------------------------------------------
(* FindCredentials, Redact, Apply. *)

fieldsOf(c) == UNION {UNION {Range(c[i][p]) : p \in Sections} : i \in DOMAIN c}

\* The scheme of an authorization header is no secret.
secretPart(t) == IF t # <<>> /\ t[1] = CpScheme THEN Tail(t) ELSE t

FindCredentials(c) ==
    {v \in {secretPart(f.text) : f \in {g \in fieldsOf(c) : g.cred}} : Len(v) >= CpMin}

occursAt(t, v, k) == k + Len(v) - 1 <= Len(t) /\ SubSeq(t, k, k + Len(v) - 1) = v
occurs(t, v) == \E k \in 1..Len(t) : occursAt(t, v, k)

\* strings.ReplaceAll, from left to right.
replaced(t, v, by) ==
    FoldLeft(LAMBDA acc, k :
               IF k < acc.next THEN acc
               ELSE IF occursAt(t, v, k) THEN [out |-> acc.out \o by, next |-> k + Len(v)]
               ELSE [out |-> Append(acc.out, t[k]), next |-> k + 1],
             [out |-> <<>>, next |-> 1], [k \in 1..Len(t) |-> k]).out

Placeholder(v) == -(CHOOSE n \in DOMAIN CpValues : CpValues[n] = v)

\* Longest first, so that replacing one cannot damage another that contains it.
inOrder(values) == SetToSortSeq(values, LAMBDA a, b : Len(a) > Len(b))

\* Mistake: every value is replaced in the original, and the last one stays.
redactTextAfresh(values, t) ==
    FoldLeft(LAMBDA acc, v : IF occurs(t, v) THEN replaced(t, v, <<Placeholder(v)>>) ELSE acc,
             t, inOrder(values))

redactText(values, t) ==
    FoldLeft(LAMBDA acc, v : replaced(acc, v, <<Placeholder(v)>>), t, inOrder(values))

redactPart(values, part) ==
    [k \in DOMAIN part |-> [part[k] EXCEPT !.text = redactText(values, part[k].text)]]

redactExchange(values, e) == [p \in Sections |-> redactPart(values, e[p])]

Redact ==
    /\ cpPhase = "recording" /\ cpCapture # <<>>
    /\ cpPhase' = "redacted"
    /\ LET values == FindCredentials(cpCapture)
       IN  /\ cpRedacted' = [i \in DOMAIN cpCapture |-> redactExchange(values, cpCapture[i])]
           /\ cpSecrets' = [n \in {-Placeholder(v) : v \in values} |-> CpValues[n]]
    /\ UNCHANGED <<cpCapture, cpSession, cpLinks>>

\* Secrets.Apply: a placeholder the table does not hold is left alone.
Apply(t) == FlattenSeq([k \in DOMAIN t |-> IF -t[k] \in DOMAIN cpSecrets THEN cpSecrets[-t[k]] ELSE <<t[k]>>])

-----------------------------------------------------------------------------
(* Session, splitRequest, ApplySession, ReadSession. *)

text(part) == FlattenSeq([k \in DOMAIN part |-> part[k].text])

\* A header block declares the length of its body, if there is one.
writeRequest(head, body) == <<[head |-> head, length |-> Len(body)]>> \o [k \in DOMAIN body |-> [char |-> body[k]]]

Session ==
    /\ cpPhase = "redacted"
    /\ cpPhase' = "written"
    /\ cpSession' = FlattenSeq([i \in DOMAIN cpRedacted |->
                                  writeRequest(text(cpRedacted[i].head), text(cpRedacted[i].body))])
    /\ UNCHANGED <<cpCapture, cpRedacted, cpSecrets, cpLinks>>

isHead(x) == "head" \in DOMAIN x
chars(s) == [k \in DOMAIN s |-> s[k].char]

\* Where the requests of a stream begin: each is found from the length the one
\* before it declares.
Least(a, b) == IF a < b THEN a ELSE b
splitRequest(s) ==
    FoldLeft(LAMBDA acc, k :
               IF k # acc.next THEN acc
               ELSE IF ~isHead(s[k]) THEN [acc EXCEPT !.next = Len(s) + 1, !.whole = FALSE]
               ELSE LET stop == Least(k + s[k].length, Len(s))
                    IN  [reqs |-> Append(acc.reqs, [head |-> s[k].head, from |-> k + 1, to |-> stop]),
                         next |-> stop + 1, whole |-> acc.whole],
             [reqs |-> <<>>, next |-> 1, whole |-> TRUE], [k \in DOMAIN s |-> k])

\* Mistake: the stream is substituted into as a whole and split afterwards.
ApplySessionWhole ==
    /\ cpPhase = "written"
    /\ cpPhase' = "sent"
    /\ cpSession' = FlattenSeq([k \in DOMAIN cpSession |->
                      IF isHead(cpSession[k]) THEN <<[cpSession[k] EXCEPT !.head = Apply(@)]>>
                      ELSE LET t == Apply(<<cpSession[k].char>>)
                           IN  [j \in DOMAIN t |-> [char |-> t[j]]]])
    /\ UNCHANGED <<cpCapture, cpRedacted, cpSecrets, cpLinks>>

\* Split first, substitute second, and the length of each request again.
ApplySession ==
    /\ cpPhase = "written"
    /\ cpPhase' = "sent"
    /\ LET split == splitRequest(cpSession).reqs
           request(r) == writeRequest(Apply(r.head), Apply(chars(SubSeq(cpSession, r.from, r.to))))
       IN  cpSession' = IF cpSecrets = <<>> THEN cpSession
                        ELSE FlattenSeq([i \in DOMAIN split |-> request(split[i])])
    /\ UNCHANGED <<cpCapture, cpRedacted, cpSecrets, cpLinks>>

\* What a server, or ReadSession, takes the stream for.
ReadSession(s) ==
    LET split == splitRequest(s)
        bodyOf(r) == SubSeq(s, r.from, r.to)
    IN  [i \in DOMAIN split.reqs |->
           [head |-> split.reqs[i].head,
            whole |-> split.whole /\ \A k \in DOMAIN bodyOf(split.reqs[i]) : ~isHead(bodyOf(split.reqs[i])[k]),
            body |-> bodyOf(split.reqs[i])]]

-----------------------------------------------------------------------------
(* Infer. *)

distinctive(v) == Len(v) >= CpMin

requestValues(e) == [k \in 1..Len(e.head) + Len(e.body) |->
                       IF k <= Len(e.head) THEN e.head[k].text ELSE e.body[k - Len(e.head)].text]

\* The longest value that occurs, the first of those as long.
match(produced, v) ==
    FoldLeft(LAMBDA best, p :
               IF occurs(v, p.value) /\ Len(p.value) > Len(best.value) THEN p ELSE best,
             [value |-> <<>>, from |-> 0], produced)

\* The first response to produce a value is the one credited with it.
record(produced, e, i) ==
    FoldLeft(LAMBDA acc, f :
               IF distinctive(f.text) /\ (\A k \in DOMAIN acc : acc[k].value # f.text) /\ Len(acc) < CpTracked
               THEN Append(acc, [value |-> f.text, from |-> i]) ELSE acc,
             produced, e.resp)

\* Mistake: a response is recorded before its own request is matched.
inferFromEarly(acc, i) ==
    LET produced == record(acc.produced, cpCapture[i], i)
        values == requestValues(cpCapture[i])
    IN  [links |-> acc.links \cup
           {[from |-> match(produced, values[k]).from, to |-> i, at |-> k,
             value |-> match(produced, values[k]).value] :
              k \in {j \in DOMAIN values : distinctive(values[j]) /\ match(produced, values[j]).from # 0}},
         produced |-> produced]

inferFrom(acc, i) ==
    LET values == requestValues(cpCapture[i])
    IN  [links |-> acc.links \cup
           {[from |-> match(acc.produced, values[k]).from, to |-> i, at |-> k,
             value |-> match(acc.produced, values[k]).value] :
              k \in {j \in DOMAIN values : distinctive(values[j]) /\ match(acc.produced, values[j]).from # 0}},
         produced |-> record(acc.produced, cpCapture[i], i)]

Infer ==
    /\ cpPhase = "recording" /\ cpCapture # <<>>
    /\ cpPhase' = "linked"
    /\ cpLinks' = FoldLeft(inferFrom, [links |-> {}, produced |-> <<>>],
                           [i \in DOMAIN cpCapture |-> i]).links
    /\ UNCHANGED <<cpCapture, cpRedacted, cpSecrets, cpSession>>

Next == Read \/ Redact \/ Session \/ ApplySession \/ Infer

-----------------------------------------------------------------------------
(***************************************************************************)
(* No credential that was recognised is left in what is written down, in   *)
(* whichever message it occurs and with whichever other it shares text;    *)
(* and what is finally sent is the session that was recorded: the same     *)
(* requests, each with its own body and the length of it, although a       *)
(* placeholder and its value differ in length (Redact, ApplySession).      *)
(***************************************************************************)
SecretsComeBack ==
    /\ cpPhase = "redacted" =>
         \A f \in fieldsOf(cpRedacted) : \A v \in FindCredentials(cpCapture) : ~occurs(f.text, v)
    /\ cpPhase = "sent" =>
         LET got == ReadSession(cpSession)
         IN  /\ Len(got) = Len(cpCapture)
             /\ \A i \in DOMAIN got :
                   /\ got[i].whole
                   /\ got[i].head = text(cpCapture[i].head)
                   /\ chars(got[i].body) = text(cpCapture[i].body)

(***************************************************************************)
(* A link is to a response that came before, the first to carry the value; *)
(* and a field that repeats such a value has a link, for the longest one   *)
(* it repeats, while there is room to track them (Infer, match).           *)
(***************************************************************************)
LinksAreCausal ==
    cpPhase = "linked" =>
      LET producers(v) == {i \in DOMAIN cpCapture : \E f \in Range(cpCapture[i].resp) : f.text = v}
          produced == UNION {{f.text : f \in {g \in Range(cpCapture[i].resp) : distinctive(g.text)}} :
                               i \in DOMAIN cpCapture}
          carried(i, k) == {v \in produced : /\ occurs(requestValues(cpCapture[i])[k], v)
                                             /\ \E j \in producers(v) : j < i}
      IN  /\ \A l \in cpLinks : /\ l.from < l.to /\ l.value \in carried(l.to, l.at)
                                /\ l.from \in producers(l.value)
                                /\ \A j \in producers(l.value) : l.from <= j
          /\ Cardinality(produced) <= CpTracked =>
               \A i \in DOMAIN cpCapture : \A k \in DOMAIN requestValues(cpCapture[i]) :
                 carried(i, k) # {} =>
                   \E l \in cpLinks : /\ l.to = i /\ l.at = k
                                      /\ \A v \in carried(i, k) : Len(l.value) >= Len(v)

-----------------------------------------------------------------------------
(***************************************************************************)
(* pcap.go: one direction of a TCP connection put back together from the   *)
(* segments a capture recorded; it has variables and a next-state relation *)
(* of its own.                                                             *)
(*                                                                         *)
(* The bytes of the connection are the numbers 1, 2, 3...; a segment is a  *)
(* run of them at a sequence number that wraps.  The capture may begin     *)
(* after the connection did, and may miss a segment, hold it twice, cut    *)
(* differently, or out of order.                                           *)
(***************************************************************************)
CONSTANTS
    PcSpace,        \* sequence numbers: 2^32 in the code
    PcSyn,          \* the initial sequence numbers to try
    PcBytes,        \* bytes the connection carries
    PcLongest,      \* the longest segment
    PcCapacity,     \* MaxStreamBytes
    PcSegments      \* segments recorded

VARIABLES
    pcISN,          \* the sequence number of the connection's SYN
    pcBase,         \* stream.base
    pcHaveBase,     \* stream.haveBase
    pcChunks,       \* stream.chunks: offset -> bytes
    pcSize,         \* stream.bytes
    pcKept,         \* bytes of the segments kept that begin at the base or after it
    pcShrunk,       \* a longer chunk has been replaced by a shorter one
    pcMoved,        \* a SYN has moved the base under the chunks
    pcSeen          \* segments recorded so far

pcVars == <<pcISN, pcBase, pcHaveBase, pcChunks, pcSize, pcKept, pcShrunk, pcMoved, pcSeen>>

StreamInit ==
    /\ pcISN \in PcSyn
    /\ pcBase = 0 /\ pcHaveBase = FALSE
    /\ pcChunks = <<>> /\ pcSize = 0
    /\ pcKept = {} /\ pcShrunk = FALSE /\ pcMoved = FALSE /\ pcSeen = 0

\* The sequence number of byte b, and the byte at a sequence number.
seqOf(b) == (pcISN + b) % PcSpace
first == CHOOSE b \in 1..PcBytes : seqOf(b) = pcBase

Segments == {[i \in 1..n |-> b + i - 1] : b \in 1..PcBytes, n \in 1..PcLongest}

minus(a, b) == (a - b) % PcSpace

\* A frame that is no TCP segment, or one whose payload looks like TLS: its
\* bytes are not in the stream.
parseFrame ==
    /\ pcSeen < PcSegments
    /\ pcSeen' = pcSeen + 1
    /\ UNCHANGED <<pcISN, pcBase, pcHaveBase, pcChunks, pcSize, pcKept, pcShrunk, pcMoved>>

-----------------------------------------------------------------------------
\* The SYN names the number before the first byte.  Chunks already held keep
\* the offsets they have from the base before it.
addSyn ==
    /\ pcSeen < PcSegments
    /\ pcBase' = (pcISN + 1) % PcSpace /\ pcHaveBase' = TRUE
    /\ pcMoved' = (pcMoved \/ (pcChunks # <<>> /\ pcBase' # pcBase))
    /\ pcSeen' = pcSeen + 1
    /\ UNCHANGED <<pcISN, pcChunks, pcSize, pcKept, pcShrunk>>

\* Mistake: a retransmission is appended to what its offset already holds.
storeTwice(off, seg) ==
    pcChunks' = [o \in DOMAIN pcChunks \cup {off} |->
                   IF o = off /\ off \in DOMAIN pcChunks THEN pcChunks[o] \o seg
                   ELSE IF o = off THEN seg ELSE pcChunks[o]]

store(off, seg) ==
    pcChunks' = [o \in DOMAIN pcChunks \cup {off} |-> IF o = off THEN seg ELSE pcChunks[o]]

\* The first segment seen is the base when no SYN was.  A stream that is full
\* drops the segment; one already at its offset does not count again.
add(seg) ==
    /\ pcSeen < PcSegments /\ seg[Len(seg)] <= PcBytes
    /\ pcSeen' = pcSeen + 1
    /\ LET base == IF pcHaveBase THEN pcBase ELSE seqOf(seg[1])
           off == minus(seqOf(seg[1]), base)
       IN  /\ pcBase' = base /\ pcHaveBase' = TRUE
           /\ IF pcSize + Len(seg) > PcCapacity
              THEN UNCHANGED <<pcChunks, pcSize, pcKept, pcShrunk>>
              ELSE /\ store(off, seg)
                   /\ pcSize' = IF off \in DOMAIN pcChunks THEN pcSize ELSE pcSize + Len(seg)
                   /\ pcKept' = IF 2 * off < PcSpace THEN pcKept \cup Range(seg) ELSE pcKept
                   /\ pcShrunk' = (pcShrunk \/ (off \in DOMAIN pcChunks /\ Len(seg) < Len(pcChunks[off])))
    /\ UNCHANGED <<pcISN, pcMoved>>

-----------------------------------------------------------------------------
(* reassemble: chunks by offset, up to the first gap. *)

offsets == SetToSortSeq(DOMAIN pcChunks, LAMBDA a, b : a < b)

\* Mistake: the chunk after a gap is joined to what came before it.
joinAcross(acc, off) ==
    LET chunk == pcChunks[off]
        skip == IF off < acc.next THEN acc.next - off ELSE 0
    IN  IF skip >= Len(chunk) THEN acc
        ELSE [out |-> acc.out \o SubSeq(chunk, skip + 1, Len(chunk)),
              next |-> off + Len(chunk), gap |-> FALSE]

\* Of an overlapping chunk only the part past what is there is taken.
join(acc, off) ==
    LET chunk == pcChunks[off]
        skip == acc.next - off
    IN  CASE acc.gap \/ off > acc.next -> [acc EXCEPT !.gap = TRUE]
          [] ~acc.gap /\ off <= acc.next /\ skip >= Len(chunk) -> acc
          [] OTHER -> [out |-> acc.out \o SubSeq(chunk, skip + 1, Len(chunk)),
                       next |-> off + Len(chunk), gap |-> FALSE]

reassemble == FoldLeft(join, [out |-> <<>>, next |-> 0, gap |-> FALSE], offsets).out

ReadPcap == parseFrame \/ addSyn \/ \E seg \in Segments : add(seg)

StreamNext == ReadPcap

-----------------------------------------------------------------------------
StreamTypeOK ==
    /\ pcBase \in 0..PcSpace - 1 /\ pcHaveBase \in BOOLEAN
    /\ DOMAIN pcChunks \subseteq 0..PcSpace - 1

(***************************************************************************)
(* What comes out is a run of bytes the connection carried, from the base  *)
(* on, each once and in order: never two pieces joined across bytes that   *)
(* were not recorded, and never a retransmission twice, wherever the       *)
(* sequence numbers wrap (reassemble, add).  And it is the whole run: it   *)
(* stops only at a byte that no segment from the base on holds, unless a   *)
(* retransmission was shorter than the segment whose offset it has.        *)
(* Neither is so once a SYN recorded after data has moved the base.        *)
(***************************************************************************)
StreamIsReal ==
    pcHaveBase /\ ~pcMoved =>
      LET out == reassemble
      IN  /\ out = [i \in 1..Len(out) |-> first + i - 1]
          /\ ~pcShrunk => first + Len(out) \notin pcKept
=============================================================================
