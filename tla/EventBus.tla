------------------------------ MODULE EventBus ------------------------------
(***************************************************************************)
(* The daemon's event bus (internal/daemon/bus.go) and the server-sent     *)
(* event handler that reads one subscription (internal/api/events.go).     *)
(*                                                                         *)
(* Publish stamps an event, snapshots the interested subscriptions under   *)
(* the bus lock and then visits them one at a time, so publishers, timer   *)
(* callbacks, retry goroutines, readers and Close interleave freely.  One  *)
(* action below is one critical section of the code.                       *)
(*                                                                         *)
(* The payload of an event is abstracted to its sequence number; what is   *)
(* kept is its kind and its campaign, which is what the bus, the coalescing*)
(* map and the reader's filter look at.                                    *)
(***************************************************************************)
EXTENDS Naturals, Sequences, FiniteSets

CONSTANTS
    Publishers,  \* goroutines that call Publish (the pumps of the workers)
    Subs,        \* subscriptions; each is opened at most once
    Campaigns,   \* the campaigns that share the daemon's one bus
    NoCampaign,  \* the campaign filter of a reader that asks for everything
    CampaignOf,  \* [Publishers -> Campaigns]
    Filter,      \* [Subs -> Campaigns \cup {NoCampaign}]
    Wants,       \* [Subs -> SUBSET Kinds], Kinds itself when none are named
    Depth,       \* [Subs -> Nat \ {0}], the capacity of the channel
    Published,   \* the kinds this instance publishes
    Interval,    \* BOOLEAN: the bus's interval is positive
    MaxSeq,      \* bound: how many events are published
    NoEvent

Kinds == {"metrics", "coverage", "corpus", "finding", "triage", "worker",
          "campaign", "log"}

coalescable == {"metrics", "coverage"}
undroppable == {"finding", "campaign"}

ASSUME BusAssumption ==
    /\ CampaignOf \in [Publishers -> Campaigns]
    /\ NoCampaign \notin Campaigns
    /\ Filter \in [Subs -> Campaigns \cup {NoCampaign}]
    /\ Wants \in [Subs -> SUBSET Kinds]
    /\ Depth \in [Subs -> Nat \ {0}]
    /\ Published \subseteq Kinds
    /\ Interval \in BOOLEAN
    /\ MaxSeq \in Nat

Event == [seq : Nat, kind : Kinds, campaign : Campaigns]

ASSUME NoEventAssumption == NoEvent \notin Event

VARIABLES
    seq,         \* Bus.seq
    live,        \* Bus.subs: the registered subscriptions
    reader,      \* where each subscription's owner is
    ch,          \* subscription.ch
    closed,      \* subscriptions with closed = TRUE (their channel is closed)
    pending,     \* subscription.pending: kind -> Event or NoEvent
    timer,       \* subscription.timer: nil, armed, or stopped by Close
    flushing,    \* batches taken by flush goroutines and not sent yet
    retrying,    \* sendUndroppable goroutines: [ev, tried]
    dropped,     \* subscription.dropped
    pub,         \* the call of Publish each publisher is in
    reported,    \* lastReported of the event-stream handler
    handed,      \* history: events whose snapshot named the subscription
    delivered,   \* history: events put into the channel, in order
    lost,        \* history: events counted in dropped
    superseded   \* history: <<old, new>>, old overwritten in pending by new

busVars  == <<seq, live, pub>>
subVars  == <<ch, closed, pending, timer, flushing, retrying, dropped>>
histVars == <<handed, delivered, lost, superseded>>
vars == <<busVars, subVars, reader, reported, histVars>>

Idle == [at |-> "idle", ev |-> NoEvent, todo |-> {}, to |-> {}]

Init ==
    /\ seq = 0
    /\ live = {}
    /\ reader = [s \in Subs |-> "none"]
    /\ ch = [s \in Subs |-> << >>]
    /\ closed = {}
    /\ pending = [s \in Subs |-> [k \in Kinds |-> NoEvent]]
    /\ timer = [s \in Subs |-> "nil"]
    /\ flushing = [s \in Subs |-> {}]
    /\ retrying = [s \in Subs |-> {}]
    /\ dropped = [s \in Subs |-> 0]
    /\ pub = [p \in Publishers |-> Idle]
    /\ reported = [s \in Subs |-> 0]
    /\ handed = [s \in Subs |-> {}]
    /\ delivered = [s \in Subs |-> << >>]
    /\ lost = [s \in Subs |-> {}]
    /\ superseded = [s \in Subs |-> {}]

-----------------------------------------------------------------------------
(* Subscription management. *)

Subscribe(s) ==
    /\ reader[s] = "none"
    /\ live' = live \cup {s}
    /\ reader' = [reader EXCEPT ![s] = "reading"]
    /\ UNCHANGED <<seq, pub, subVars, reported, histVars>>

\* Close, first critical section: the subscription leaves Bus.subs.  A
\* publisher that took its snapshot earlier still holds the subscription.
Unregister(s) ==
    /\ reader[s] = "reading"
    /\ live' = live \ {s}
    /\ reader' = [reader EXCEPT ![s] = "closing"]
    /\ UNCHANGED <<seq, pub, subVars, reported, histVars>>

\* Close, second critical section, under subscription.mu.
CloseSub(s) ==
    /\ reader[s] = "closing"
    /\ closed' = closed \cup {s}
    /\ timer' = [timer EXCEPT ![s] = IF @ = "armed" THEN "stopped" ELSE @]
    /\ reader' = [reader EXCEPT ![s] = "gone"]
    /\ UNCHANGED <<busVars, ch, pending, flushing, retrying, dropped, reported,
                   histVars>>

-----------------------------------------------------------------------------
(* Publishing. *)

wants(s, k) == k \in Wants[s]

\* Publish: the sequence number is taken before any lock.
Publish(p, k) ==
    /\ pub[p].at = "idle"
    /\ seq < MaxSeq
    /\ seq' = seq + 1
    /\ pub' = [pub EXCEPT ![p] =
          [at |-> "stamped", todo |-> {}, to |-> {},
           ev |-> [seq |-> seq + 1, kind |-> k, campaign |-> CampaignOf[p]]]]
    /\ UNCHANGED <<live, subVars, reader, reported, histVars>>

\* Where the loop over the snapshot goes once it is done with s.
Advance(p, todo) ==
    pub' = [pub EXCEPT ![p] =
        IF todo = {} THEN Idle
        ELSE [at |-> "deliver", ev |-> pub[p].ev, todo |-> todo, to |-> {}]]

\* Publish: the interested subscriptions, collected under the read lock.
Snapshot(p) ==
    /\ pub[p].at = "stamped"
    /\ LET todo == {s \in live : wants(s, pub[p].ev.kind)} IN
       /\ Advance(p, todo)
       /\ handed' = [s \in Subs |->
              IF s \in todo THEN handed[s] \cup {pub[p].ev} ELSE handed[s]]
    /\ UNCHANGED <<seq, live, subVars, reader, reported, delivered, lost,
                   superseded>>

\* deliver's coalescing branch: the newcomer replaces what was held for its
\* kind, and the first one held arms the timer.
hold(s, e) ==
    LET waiting == pending[s][e.kind] # NoEvent IN
    /\ pending' = [pending EXCEPT ![s][e.kind] = e]
    /\ timer' = [timer EXCEPT ![s] =
           IF ~waiting /\ @ = "nil" THEN "armed" ELSE @]
    /\ superseded' = [superseded EXCEPT ![s] =
           IF waiting THEN @ \cup {<<pending[s][e.kind], e>>} ELSE @]

coalesces(e) == e.kind \in coalescable /\ Interval

deliver(p, s) ==
    /\ pub[p].at = "deliver"
    /\ s \in pub[p].todo
    /\ \/ /\ s \in closed
          /\ Advance(p, pub[p].todo \ {s})
          /\ UNCHANGED <<pending, timer, superseded>>
       \/ /\ s \notin closed
          /\ coalesces(pub[p].ev)
          /\ hold(s, pub[p].ev)
          /\ Advance(p, pub[p].todo \ {s})
       \/ /\ s \notin closed
          /\ ~coalesces(pub[p].ev)
          /\ pub' = [pub EXCEPT ![p].at = "send", ![p].to = {s},
                                ![p].todo = @ \ {s}]
          /\ UNCHANGED <<pending, timer, superseded>>
    /\ UNCHANGED <<seq, live, ch, closed, flushing, retrying, dropped, reader,
                   reported, handed, delivered, lost>>

\* Mistake in push: the closed flag is not looked at again under the lock.
pushUnchecked(s, e) ==
    /\ Len(ch[s]) < Depth[s]
    /\ ch' = [ch EXCEPT ![s] = Append(@, e)]
    /\ delivered' = [delivered EXCEPT ![s] = Append(@, e)]
    /\ UNCHANGED <<dropped, lost>>

\* Mistake in push: a full channel drops without counting.
pushUncounted(s, e) ==
    /\ IF s \notin closed /\ Len(ch[s]) < Depth[s]
       THEN /\ ch' = [ch EXCEPT ![s] = Append(@, e)]
            /\ delivered' = [delivered EXCEPT ![s] = Append(@, e)]
       ELSE UNCHANGED <<ch, delivered>>
    /\ UNCHANGED <<dropped, lost>>

\* send's critical section for an ordinary event: nothing on a closed channel,
\* and a full one costs a count, never a wait.
push(s, e) ==
    \/ /\ s \in closed
       /\ UNCHANGED <<ch, dropped, delivered, lost>>
    \/ /\ s \notin closed
       /\ Len(ch[s]) < Depth[s]
       /\ ch' = [ch EXCEPT ![s] = Append(@, e)]
       /\ delivered' = [delivered EXCEPT ![s] = Append(@, e)]
       /\ UNCHANGED <<dropped, lost>>
    \/ /\ s \notin closed
       /\ Len(ch[s]) >= Depth[s]
       /\ dropped' = [dropped EXCEPT ![s] = @ + 1]
       /\ lost' = [lost EXCEPT ![s] = @ \cup {e}]
       /\ UNCHANGED <<ch, delivered>>

send(p, s) ==
    /\ pub[p].at = "send"
    /\ s \in pub[p].to
    /\ Advance(p, pub[p].todo)
    /\ \/ /\ pub[p].ev.kind \in undroppable
          /\ retrying' = [retrying EXCEPT ![s] =
                 @ \cup {[ev |-> pub[p].ev, tried |-> FALSE]}]
          /\ UNCHANGED <<ch, dropped, delivered, lost>>
       \/ /\ pub[p].ev.kind \notin undroppable
          /\ push(s, pub[p].ev)
          /\ UNCHANGED retrying
    /\ UNCHANGED <<seq, live, closed, pending, timer, flushing, reader,
                   reported, handed, superseded>>

-----------------------------------------------------------------------------
(* Timer callbacks and retry goroutines. *)

\* Mistake in Held: the zero value of a kind nothing is held for is taken too.
HeldWithZero(s) == {pending[s][k] : k \in Kinds}

Held(s) == {pending[s][k] : k \in Kinds} \ {NoEvent}

\* Mistake in flush: the spent timer is kept, so the next event arms none.
flushKeepsTimer(s) ==
    /\ timer[s] = "armed"
    /\ s \notin closed
    /\ flushing' = [flushing EXCEPT ![s] = @ \cup ({Held(s)} \ {{}})]
    /\ pending' = [pending EXCEPT ![s] = [k \in Kinds |-> NoEvent]]
    /\ timer' = [timer EXCEPT ![s] = "stopped"]
    /\ UNCHANGED <<busVars, ch, closed, retrying, dropped, reader, reported,
                   histVars>>

\* The timer fires.  A callback that finds the subscription closed returns, as
\* one that Close stopped never ran.
flush(s) ==
    /\ timer[s] = "armed"
    /\ s \notin closed
    /\ flushing' = [flushing EXCEPT ![s] = @ \cup ({Held(s)} \ {{}})]
    /\ pending' = [pending EXCEPT ![s] = [k \in Kinds |-> NoEvent]]
    /\ timer' = [timer EXCEPT ![s] = "nil"]
    /\ UNCHANGED <<busVars, ch, closed, retrying, dropped, reader, reported,
                   histVars>>

\* The loop over the batch, outside the lock: each send locks for itself.
flushSend(s, batch, e) ==
    /\ batch \in flushing[s]
    /\ e \in batch
    /\ flushing' = [flushing EXCEPT ![s] =
           (@ \ {batch}) \cup ({batch \ {e}} \ {{}})]
    /\ push(s, e)
    /\ UNCHANGED <<busVars, closed, pending, timer, retrying, reader, reported,
                   handed, superseded>>

\* sendUndroppable, one pass under the lock.
sendUndroppable(s, r) ==
    /\ r \in retrying[s]
    /\ ~r.tried
    /\ \/ /\ s \in closed
          /\ retrying' = [retrying EXCEPT ![s] = @ \ {r}]
          /\ UNCHANGED <<ch, delivered>>
       \/ /\ s \notin closed
          /\ Len(ch[s]) < Depth[s]
          /\ ch' = [ch EXCEPT ![s] = Append(@, r.ev)]
          /\ delivered' = [delivered EXCEPT ![s] = Append(@, r.ev)]
          /\ retrying' = [retrying EXCEPT ![s] = @ \ {r}]
       \/ /\ s \notin closed
          /\ Len(ch[s]) >= Depth[s]
          /\ retrying' = [retrying EXCEPT ![s] =
                 (@ \ {r}) \cup {[r EXCEPT !.tried = TRUE]}]
          /\ UNCHANGED <<ch, delivered>>
    /\ UNCHANGED <<busVars, closed, pending, timer, flushing, dropped, reader,
                   reported, handed, lost, superseded>>

\* Mistake in retryLater: every failed attempt is counted as a drop.
retryCounted(s, r) ==
    /\ r \in retrying[s]
    /\ r.tried
    /\ retrying' = [retrying EXCEPT ![s] =
           (@ \ {r}) \cup {[r EXCEPT !.tried = FALSE]}]
    /\ dropped' = [dropped EXCEPT ![s] = @ + 1]
    /\ dropped[s] < MaxSeq
    /\ UNCHANGED <<busVars, ch, closed, pending, timer, flushing, reader,
                   reported, histVars>>

\* After a failed pass, outside the lock: sleep and try again before the
\* deadline, give the event up after it.
retryLater(s, r) ==
    /\ r \in retrying[s]
    /\ r.tried
    /\ retrying' = [retrying EXCEPT ![s] =
           (@ \ {r}) \cup {[r EXCEPT !.tried = FALSE]}]
    /\ UNCHANGED <<busVars, ch, closed, pending, timer, flushing, dropped,
                   reader, reported, histVars>>

\* Mistake in giveUp: there is no deadline.
giveUpNever(s, r) == FALSE

giveUp(s, r) ==
    /\ r \in retrying[s]
    /\ r.tried
    /\ retrying' = [retrying EXCEPT ![s] = @ \ {r}]
    /\ dropped' = [dropped EXCEPT ![s] = @ + 1]
    /\ lost' = [lost EXCEPT ![s] = @ \cup {r.ev}]
    /\ UNCHANGED <<busVars, ch, closed, pending, timer, flushing, reader,
                   reported, handed, delivered, superseded>>

-----------------------------------------------------------------------------
(* The reader: eventStream's loop. *)

passes(s, e) == Filter[s] = NoCampaign \/ e.campaign = Filter[s]

\* An event that the campaign filter rejects is skipped before the loop gets to
\* look at Dropped().
eventStream(s) ==
    /\ reader[s] = "reading"
    /\ ch[s] # << >>
    /\ ch' = [ch EXCEPT ![s] = Tail(@)]
    /\ reported' = [reported EXCEPT ![s] =
           IF passes(s, Head(ch[s])) THEN dropped[s] ELSE @]
    /\ UNCHANGED <<busVars, closed, pending, timer, flushing, retrying, dropped,
                   reader, histVars>>

-----------------------------------------------------------------------------
PublisherStep(p) ==
    \/ Snapshot(p)
    \/ \E s \in Subs : deliver(p, s) \/ send(p, s)

FlushStep(s) ==
    \/ flush(s)
    \/ \E batch \in flushing[s] : \E e \in batch : flushSend(s, batch, e)

RetryStep(s) ==
    \E r \in retrying[s] :
        sendUndroppable(s, r) \/ retryLater(s, r) \/ giveUp(s, r)

Next ==
    \/ \E s \in Subs : Subscribe(s) \/ Unregister(s) \/ CloseSub(s)
    \/ \E p \in Publishers, k \in Published : Publish(p, k)
    \/ \E p \in Publishers : PublisherStep(p)
    \/ \E s \in Subs : FlushStep(s) \/ RetryStep(s) \/ eventStream(s)

Spec == Init /\ [][Next]_vars

\* The goroutines of the daemon are scheduled and their timers fire; a retry
\* goroutine's deadline passes however its attempts interleave with the reads.
\* Nothing is assumed of readers or of Close: a browser tab may stop reading.
DaemonFairness ==
    /\ \A p \in Publishers : WF_vars(PublisherStep(p))
    /\ \A s \in Subs :
        /\ WF_vars(FlushStep(s))
        /\ \A n \in 1 .. MaxSeq :
            /\ WF_vars(\E r \in retrying[s] :
                           r.ev.seq = n /\ sendUndroppable(s, r))
            /\ SF_vars(\E r \in retrying[s] : r.ev.seq = n /\ giveUp(s, r))

ReaderFairness == \A s \in Subs : WF_vars(eventStream(s))

DaemonSpec == Spec /\ DaemonFairness
ReadingSpec == DaemonSpec /\ ReaderFairness

-----------------------------------------------------------------------------
(* Properties. *)

\* The events some goroutine of the daemon still holds for s.
Waiting(s) ==
    Held(s)
    \cup (UNION flushing[s])
    \cup {r.ev : r \in retrying[s]}
    \cup {pub[p].ev : p \in {q \in Publishers : s \in pub[q].todo \cup pub[q].to}}

PubState ==
    [at : {"idle", "stamped", "deliver", "send"}, ev : Event \cup {NoEvent},
     todo : SUBSET Subs, to : SUBSET Subs]

\* The types of the bus's state.
TypeOK ==
    /\ seq \in Nat
    /\ live \subseteq Subs
    /\ reader \in [Subs -> {"none", "reading", "closing", "gone"}]
    /\ ch \in [Subs -> Seq(Event)]
    /\ closed \subseteq Subs
    /\ pending \in [Subs -> [Kinds -> Event \cup {NoEvent}]]
    /\ timer \in [Subs -> {"nil", "armed", "stopped"}]
    /\ flushing \in [Subs -> SUBSET (SUBSET Event)]
    /\ retrying \in [Subs -> SUBSET [ev : Event, tried : BOOLEAN]]
    /\ dropped \in [Subs -> Nat]
    /\ pub \in [Publishers -> PubState]
    /\ reported \in [Subs -> Nat]
    /\ handed \in [Subs -> SUBSET Event]
    /\ delivered \in [Subs -> Seq(Event)]
    /\ lost \in [Subs -> SUBSET Event]
    /\ superseded \in [Subs -> SUBSET (Event \X Event)]

\* An event whose snapshot named a subscription that is still open is never
\* silently lost: it was put into the channel, some goroutine still holds it, it
\* was counted in dropped, or a coalescing overwrite replaced it.
NothingVanishes ==
    \A s \in Subs \ closed : \A e \in handed[s] :
        \/ \E i \in 1 .. Len(delivered[s]) : delivered[s][i] = e
        \/ e \in Waiting(s)
        \/ e \in lost[s]
        \/ \E x \in superseded[s] : x[1] = e

\* Dropped() is exact for an open subscription: the events handed to it are the
\* delivered ones, the ones still held, the overwritten ones and exactly dropped
\* more, none of them counted twice and none delivered twice.
DroppedIsExact ==
    \A s \in Subs \ closed :
        Cardinality(handed[s]) =
            Len(delivered[s]) + Cardinality(Waiting(s)) + dropped[s]
            + Cardinality({x[1] : x \in superseded[s]})

\* A coalesced event is never stranded: as long as one is held for an open
\* subscription, a timer is running that will flush it.
PendingIsArmed ==
    \A s \in Subs \ closed : Held(s) # {} => timer[s] = "armed"

\* What the stream reports about itself is right: the drop counter is exact, and
\* an event that is held will be flushed.
EventsAreCounted == TypeOK /\ DroppedIsExact /\ PendingIsArmed

\* A closed channel is never sent on (in Go that is a panic, in the path every
\* worker report goes through), whatever a publisher, a flush or a retry that
\* still holds the subscription does.
NoSendOnClosed ==
    [][\A s \in closed : Len(ch'[s]) <= Len(ch[s])]_vars

\* Publish returns although no subscriber ever reads.
PublishReturns ==
    \A p \in Publishers : pub[p].at # "idle" ~> pub[p].at = "idle"

\* Whatever the daemon holds for a subscription is settled - delivered, counted
\* as dropped, overwritten, or given up with the subscription - although no
\* subscriber ever reads.
Settles ==
    \A s \in Subs : \A n \in 1 .. MaxSeq :
        (\E e \in Waiting(s) : e.seq = n)
            ~> (s \in closed \/ \A e \in Waiting(s) : e.seq # n)

\* A subscriber that reads nothing stops neither the publishers, which are the
\* readers of the workers' reports, nor the bus.
Flows == PublishReturns /\ Settles

----------------------------------------------------------------------------
(* A small instance for TLC: two publishers (the pumps of two workers of    *)
(* different campaigns) and one subscription, for the first of them, whose  *)
(* queue holds a single event, so that a second event meets a full channel. *)

MCTwoCampaigns == [p \in Publishers |-> IF p = "p1" THEN "c1" ELSE "c2"]
MCFirstCampaign == [s \in Subs |-> "c1"]
MCEverything == [s \in Subs |-> Kinds]
MCDepthOne == [s \in Subs |-> 1]
=============================================================================
