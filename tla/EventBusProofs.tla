--------------------------- MODULE EventBusProofs ---------------------------
(***************************************************************************)
(* Proofs about EventBus, for any publishers, subscriptions, queue depths  *)
(* and number of events.                                                   *)
(***************************************************************************)
EXTENDS EventBus, FiniteSetTheorems, TLAPS

\* What each program counter of Publish says about the call's local state.
PubOK ==
    \A p \in Publishers :
        /\ pub[p].at = "idle" => pub[p].todo = {} /\ pub[p].to = {}
        /\ pub[p].at = "stamped" =>
               pub[p].ev \in Event /\ pub[p].todo = {} /\ pub[p].to = {}
        /\ pub[p].at = "deliver" => pub[p].ev \in Event /\ pub[p].to = {}
        /\ pub[p].at = "send" =>
               pub[p].ev \in Event /\ \E s \in Subs : pub[p].to = {s}

\* Only Close stops a timer.
StoppedIsClosed == \A s \in Subs : timer[s] = "stopped" => s \in closed

\* A new bus is well typed, and no call of Publish is under way.
LEMMA InitTypeOK == Init => TypeOK /\ PubOK
BY BusAssumption DEF Init, TypeOK, PubOK, Idle, PubState

\* The step of Publish to its next subscription keeps the call's local state typed.
LEMMA AdvanceType ==
    ASSUME TypeOK, PubOK, NEW p \in Publishers, NEW todo \in SUBSET Subs,
           pub[p].ev \in Event, Advance(p, todo)
    PROVE  pub' \in [Publishers -> PubState] /\ PubOK'
BY DEF TypeOK, PubOK, PubState, Advance, Idle

\* A send by subscription.send keeps queue, counter and histories typed.
LEMMA PushType ==
    ASSUME TypeOK, NEW s \in Subs, NEW e \in Event, push(s, e)
    PROVE  /\ ch' \in [Subs -> Seq(Event)]
           /\ dropped' \in [Subs -> Nat]
           /\ delivered' \in [Subs -> Seq(Event)]
           /\ lost' \in [Subs -> SUBSET Event]
<1>1. ch[s] \in Seq(Event) /\ delivered[s] \in Seq(Event)
  BY DEF TypeOK
<1>2. Append(ch[s], e) \in Seq(Event) /\ Append(delivered[s], e) \in Seq(Event)
  BY <1>1
<1>3. CASE s \in closed
  BY <1>3 DEF TypeOK, push
<1>4. CASE s \notin closed /\ Len(ch[s]) < Depth[s] /\ UNCHANGED <<dropped, lost>>
  <2>1. ch' = [ch EXCEPT ![s] = Append(@, e)]
    BY <1>4, <1>1, BusAssumption DEF push
  <2>2. delivered' = [delivered EXCEPT ![s] = Append(@, e)]
    BY <1>4, <1>1, BusAssumption DEF push
  <2> QED BY <1>2, <1>4, <2>1, <2>2 DEF TypeOK
<1>5. CASE s \notin closed /\ UNCHANGED <<ch, delivered>>
  <2>1. CASE UNCHANGED <<dropped, lost>>
    BY <1>5, <2>1 DEF TypeOK
  <2>2. CASE /\ dropped' = [dropped EXCEPT ![s] = @ + 1]
             /\ lost' = [lost EXCEPT ![s] = @ \cup {e}]
    BY <1>5, <2>2 DEF TypeOK
  <2> QED BY <1>5, <2>1, <2>2 DEF push
<1> QED BY <1>3, <1>4, <1>5 DEF push

\* Updating one subscription's set keeps a function of sets typed.
LEMMA SetUpdateType ==
    ASSUME NEW R, NEW f \in [Subs -> SUBSET R], NEW s \in Subs, NEW X \in SUBSET R
    PROVE  [f EXCEPT ![s] = X] \in [Subs -> SUBSET R]
OBVIOUS

\* Updating one subscription's queue keeps a function of queues typed.
LEMMA SeqUpdateType ==
    ASSUME NEW f \in [Subs -> Seq(Event)], NEW s \in Subs, NEW x \in Seq(Event)
    PROVE  [f EXCEPT ![s] = x] \in [Subs -> Seq(Event)]
OBVIOUS

\* What flush takes out of pending is a set of events.
LEMMA HeldType == 
    ASSUME TypeOK, NEW s \in Subs
    PROVE  Held(s) \in SUBSET Event
BY DEF TypeOK, Held

\* Every step of the bus keeps the types and Publish's local state.
LEMMA NextTypeOK == TypeOK /\ PubOK /\ [Next]_vars => TypeOK' /\ PubOK'
<1> SUFFICES ASSUME TypeOK, PubOK, [Next]_vars PROVE TypeOK' /\ PubOK'
  OBVIOUS
<1> USE BusAssumption
<1>1. ASSUME NEW s \in Subs, Subscribe(s) \/ Unregister(s) \/ CloseSub(s)
      PROVE TypeOK' /\ PubOK'
  BY <1>1 DEF TypeOK, PubOK, Subscribe, Unregister, CloseSub, subVars, histVars,
              busVars
<1>2. ASSUME NEW p \in Publishers, NEW k \in Published, Publish(p, k)
      PROVE TypeOK' /\ PubOK'
  <2>1. [seq |-> seq + 1, kind |-> k, campaign |-> CampaignOf[p]] \in Event
    BY DEF TypeOK, Event
  <2>2. pub' \in [Publishers -> PubState]
    BY <1>2, <2>1 DEF TypeOK, Publish, PubState
  <2>3. PubOK'
    BY <1>2, <2>1 DEF TypeOK, Publish, PubOK, PubState
  <2> QED BY <1>2, <2>2, <2>3 DEF TypeOK, Publish, subVars, histVars
<1>3. ASSUME NEW p \in Publishers, Snapshot(p) PROVE TypeOK' /\ PubOK'
  <2> DEFINE todo == {s \in live : wants(s, pub[p].ev.kind)}
  <2>1. todo \in SUBSET Subs /\ pub[p].ev \in Event
    BY <1>3 DEF Snapshot, TypeOK, PubOK
  <2>2. Advance(p, todo)
    BY <1>3 DEF Snapshot
  <2>3. pub' \in [Publishers -> PubState] /\ PubOK'
    <3> HIDE DEF todo
    <3> QED BY <2>1, <2>2, AdvanceType
  <2>4. handed' \in [Subs -> SUBSET Event]
    BY <1>3, <2>1 DEF Snapshot, TypeOK
  <2> QED BY <1>3, <2>3, <2>4 DEF Snapshot, TypeOK, subVars
<1>4. ASSUME NEW p \in Publishers, NEW s \in Subs, deliver(p, s)
      PROVE TypeOK' /\ PubOK'
  <2>1. /\ pub[p].at = "deliver" /\ pub[p].ev \in Event /\ pub[p].to = {}
        /\ pub[p].todo \ {s} \in SUBSET Subs
    BY <1>4 DEF deliver, TypeOK, PubOK, PubState
  <2>2. CASE Advance(p, pub[p].todo \ {s}) /\ UNCHANGED <<pending, timer, superseded>>
    <3>1. pub' \in [Publishers -> PubState] /\ PubOK'
      BY <2>1, <2>2, AdvanceType
    <3> QED BY <1>4, <2>2, <3>1 DEF deliver, TypeOK
  <2>3. CASE Advance(p, pub[p].todo \ {s}) /\ hold(s, pub[p].ev)
    <3>1. pub' \in [Publishers -> PubState] /\ PubOK'
      BY <2>1, <2>3, AdvanceType
    <3>2. pending' \in [Subs -> [Kinds -> Event \cup {NoEvent}]]
      BY <2>1, <2>3 DEF hold, TypeOK, Event
    <3>3. timer' \in [Subs -> {"nil", "armed", "stopped"}]
      BY <2>3 DEF hold, TypeOK
    <3>4. superseded' \in [Subs -> SUBSET (Event \X Event)]
      <4>1. pending[s][pub[p].ev.kind] \in Event \cup {NoEvent}
        BY <2>1 DEF TypeOK, Event
      <4> QED BY <2>1, <2>3, <4>1 DEF hold, TypeOK
    <3> QED BY <1>4, <3>1, <3>2, <3>3, <3>4 DEF deliver, TypeOK
  <2>4. CASE /\ pub' = [pub EXCEPT ![p].at = "send", ![p].to = {s},
                                   ![p].todo = @ \ {s}]
             /\ UNCHANGED <<pending, timer, superseded>>
    <3>1. pub' \in [Publishers -> PubState]
      <4>1. pub[p] \in PubState
        BY DEF TypeOK
      <4>2. [pub[p] EXCEPT !.at = "send", !.to = {s}, !.todo = @ \ {s}] \in PubState
        BY <4>1 DEF PubState
      <4>3. pub' = [pub EXCEPT ![p] =
                [pub[p] EXCEPT !.at = "send", !.to = {s}, !.todo = @ \ {s}]]
        BY <2>4 DEF TypeOK
      <4> QED BY <4>2, <4>3 DEF TypeOK
    <3>2. PubOK'
      <4>1. ASSUME NEW q \in Publishers, q # p PROVE pub'[q] = pub[q]
        BY <2>4, <4>1 DEF TypeOK
      <4>2. pub'[p].at = "send" /\ pub'[p].to = {s} /\ pub'[p].ev = pub[p].ev
        BY <2>4 DEF TypeOK, PubState
      <4> QED BY <2>1, <4>1, <4>2 DEF PubOK
    <3> QED BY <1>4, <2>4, <3>1, <3>2 DEF deliver, TypeOK
  <2> QED BY <1>4, <2>2, <2>3, <2>4 DEF deliver
<1>5. ASSUME NEW p \in Publishers, NEW s \in Subs, send(p, s)
      PROVE TypeOK' /\ PubOK'
  <2>1. pub[p].ev \in Event /\ pub[p].todo \in SUBSET Subs
    BY <1>5 DEF send, TypeOK, PubOK, PubState
  <2>2. pub' \in [Publishers -> PubState] /\ PubOK'
    BY <1>5, <2>1, AdvanceType DEF send
  <2>3. CASE push(s, pub[p].ev) /\ UNCHANGED retrying
    BY <1>5, <2>1, <2>2, <2>3, PushType DEF send, TypeOK
  <2>4. CASE /\ retrying' = [retrying EXCEPT ![s] =
                    @ \cup {[ev |-> pub[p].ev, tried |-> FALSE]}]
             /\ UNCHANGED <<ch, dropped, delivered, lost>>
    <3>1. [ev |-> pub[p].ev, tried |-> FALSE] \in [ev : Event, tried : BOOLEAN]
      BY <2>1
    <3>2. retrying' \in [Subs -> SUBSET [ev : Event, tried : BOOLEAN]]
      BY <2>4, <3>1 DEF TypeOK
    <3> QED BY <1>5, <2>2, <2>4, <3>2 DEF send, TypeOK
  <2> QED BY <1>5, <2>3, <2>4 DEF send
<1>6. ASSUME NEW s \in Subs, flush(s) PROVE TypeOK' /\ PubOK'
  BY <1>6, HeldType DEF flush, TypeOK, PubOK, busVars, histVars
<1>7. ASSUME NEW s \in Subs, NEW batch \in flushing[s], NEW e \in batch,
             flushSend(s, batch, e)
      PROVE TypeOK' /\ PubOK'
  <2>1. e \in Event /\ batch \in SUBSET Event
    BY <1>7 DEF TypeOK
  <2>2. flushing' \in [Subs -> SUBSET (SUBSET Event)]
    BY <1>7, <2>1 DEF flushSend, TypeOK
  <2> QED BY <1>7, <2>1, <2>2, PushType DEF flushSend, TypeOK, PubOK, busVars
<1>8. ASSUME NEW s \in Subs, NEW r \in retrying[s],
             sendUndroppable(s, r) \/ retryLater(s, r) \/ giveUp(s, r)
      PROVE TypeOK' /\ PubOK'
  <2>1. r \in [ev : Event, tried : BOOLEAN]
    BY <1>8 DEF TypeOK
  <2>5. /\ [r EXCEPT !.tried = TRUE] \in [ev : Event, tried : BOOLEAN]
        /\ [r EXCEPT !.tried = FALSE] \in [ev : Event, tried : BOOLEAN]
    BY <2>1
  <2> DEFINE R == [ev : Event, tried : BOOLEAN]
             out == retrying[s] \ {r}
             failed == out \cup {[r EXCEPT !.tried = TRUE]}
             again == out \cup {[r EXCEPT !.tried = FALSE]}
  <2>6. /\ retrying \in [Subs -> SUBSET R]
        /\ out \in SUBSET R /\ failed \in SUBSET R /\ again \in SUBSET R
    BY <2>5 DEF TypeOK
  <2>7. /\ [retrying EXCEPT ![s] = out] \in [Subs -> SUBSET R]
        /\ [retrying EXCEPT ![s] = failed] \in [Subs -> SUBSET R]
        /\ [retrying EXCEPT ![s] = again] \in [Subs -> SUBSET R]
    <3> HIDE DEF R, out, failed, again
    <3> QED BY <2>6, SetUpdateType
  <2>2. CASE sendUndroppable(s, r)
    <3>1. retrying' \in [Subs -> SUBSET R]
      <4>1. \/ retrying' = [retrying EXCEPT ![s] = out]
            \/ retrying' = [retrying EXCEPT ![s] = failed]
        BY <2>2 DEF sendUndroppable
      <4> QED BY <4>1, <2>7
    <3>2. Append(ch[s], r.ev) \in Seq(Event) /\ Append(delivered[s], r.ev) \in Seq(Event)
      BY <2>1 DEF TypeOK
    <3>3. ch' \in [Subs -> Seq(Event)] /\ delivered' \in [Subs -> Seq(Event)]
      <4>1. \/ UNCHANGED <<ch, delivered>>
            \/ /\ ch' = [ch EXCEPT ![s] = Append(ch[s], r.ev)]
               /\ delivered' = [delivered EXCEPT ![s] = Append(delivered[s], r.ev)]
        BY <2>2 DEF sendUndroppable
      <4>2. ch \in [Subs -> Seq(Event)] /\ delivered \in [Subs -> Seq(Event)]
        BY DEF TypeOK
      <4>3. /\ [ch EXCEPT ![s] = Append(ch[s], r.ev)] \in [Subs -> Seq(Event)]
            /\ [delivered EXCEPT ![s] = Append(delivered[s], r.ev)]
                   \in [Subs -> Seq(Event)]
        BY <4>2, <3>2, SeqUpdateType
      <4>4. CASE UNCHANGED <<ch, delivered>>
        BY <4>2, <4>4
      <4> QED BY <4>1, <4>3, <4>4
    <3> QED BY <2>2, <3>1, <3>3 DEF sendUndroppable, TypeOK, PubOK, busVars
  <2>3. CASE retryLater(s, r)
    <3>1. retrying' \in [Subs -> SUBSET R]
      <4>1. retrying' = [retrying EXCEPT ![s] = again]
        BY <2>3 DEF retryLater
      <4> QED BY <4>1, <2>7
    <3> QED BY <2>3, <3>1 DEF retryLater, TypeOK, PubOK, busVars, histVars
  <2>4. CASE giveUp(s, r)
    BY <2>1, <2>4 DEF giveUp, TypeOK, PubOK, busVars
  <2> QED BY <1>8, <2>2, <2>3, <2>4
<1>9. ASSUME NEW s \in Subs, eventStream(s) PROVE TypeOK' /\ PubOK'
  BY <1>9 DEF eventStream, TypeOK, PubOK, busVars, histVars
<1>10. CASE UNCHANGED vars
  BY <1>10 DEF vars, busVars, subVars, histVars, TypeOK, PubOK
<1> QED BY <1>1, <1>2, <1>3, <1>4, <1>5, <1>6, <1>7, <1>8, <1>9, <1>10
        DEF Next, PublisherStep, FlushStep, RetryStep

\* Every state of the bus is well typed.
THEOREM TypeCorrect == Spec => []TypeOK
<1>1. Spec => [](TypeOK /\ PubOK)
  BY InitTypeOK, NextTypeOK, PTL DEF Spec
<1> QED BY <1>1, PTL

-----------------------------------------------------------------------------
(* A coalesced event always has a running timer. *)

ArmedInv == PendingIsArmed /\ StoppedIsClosed

\* On a new bus nothing is held and no timer is stopped.
LEMMA InitArmed == Init => ArmedInv
BY DEF Init, ArmedInv, PendingIsArmed, StoppedIsClosed, Held

\* No step leaves an event held by an open subscription without a timer.
LEMMA NextArmed == TypeOK /\ PubOK /\ ArmedInv /\ [Next]_vars => ArmedInv'
<1> SUFFICES ASSUME TypeOK, PubOK, ArmedInv, [Next]_vars PROVE ArmedInv'
  OBVIOUS
<1>1. CASE UNCHANGED <<pending, timer>> /\ closed \subseteq closed'
  BY <1>1 DEF ArmedInv, PendingIsArmed, StoppedIsClosed, Held
<1>2. ASSUME NEW s \in Subs, CloseSub(s) PROVE ArmedInv'
  <2>1. /\ closed' = closed \cup {s} /\ pending' = pending
        /\ \A t \in Subs \ {s} : timer'[t] = timer[t]
    BY <1>2 DEF CloseSub, TypeOK
  <2>2. \A t \in Subs : Held(t)' = Held(t)
    BY <2>1 DEF Held
  <2>3. PendingIsArmed'
    BY <2>1, <2>2 DEF ArmedInv, PendingIsArmed
  <2> QED BY <2>1, <2>3 DEF ArmedInv, StoppedIsClosed
<1>3. ASSUME NEW p \in Publishers, NEW s \in Subs, deliver(p, s) PROVE ArmedInv'
  <2>1. CASE UNCHANGED <<pending, timer>>
    BY <1>1, <1>3, <2>1 DEF deliver
  <2>2. CASE s \notin closed /\ hold(s, pub[p].ev)
    <3> DEFINE e == pub[p].ev
    <3>1. e \in Event /\ e.kind \in Kinds
      BY <1>3 DEF deliver, PubOK, Event
    <3>2. \A t \in Subs \ {s} : timer'[t] = timer[t] /\ pending'[t] = pending[t]
      BY <2>2 DEF hold, TypeOK
    <3>3. closed' = closed
      BY <1>3 DEF deliver
    <3>4. CASE pending[s][e.kind] # NoEvent
      <4>1. timer'[s] = timer[s]
        BY <2>2, <3>4 DEF hold, TypeOK
      <4>2. timer[s] = "armed"
        BY <2>2, <3>1, <3>4 DEF ArmedInv, PendingIsArmed, Held
      <4> QED BY <3>2, <3>3, <4>1, <4>2
              DEF ArmedInv, PendingIsArmed, StoppedIsClosed, Held
    <3>5. CASE pending[s][e.kind] = NoEvent
      <4>1. timer'[s] = IF timer[s] = "nil" THEN "armed" ELSE timer[s]
        BY <2>2, <3>5 DEF hold, TypeOK
      <4>2. timer[s] # "stopped"
        BY <2>2 DEF ArmedInv, StoppedIsClosed
      <4>3. timer'[s] = "armed"
        BY <4>1, <4>2 DEF TypeOK
      <4> QED BY <3>2, <3>3, <4>3
              DEF ArmedInv, PendingIsArmed, StoppedIsClosed, Held
    <3> QED BY <3>4, <3>5
  <2> QED BY <1>3, <2>1, <2>2 DEF deliver
<1>4. ASSUME NEW s \in Subs, flush(s) PROVE ArmedInv'
  <2>1. \A t \in Subs \ {s} : timer'[t] = timer[t] /\ pending'[t] = pending[t]
    BY <1>4 DEF flush, TypeOK
  <2>2. timer'[s] = "nil" /\ \A k \in Kinds : pending'[s][k] = NoEvent
    BY <1>4 DEF flush, TypeOK
  <2>3. closed' = closed
    BY <1>4 DEF flush
  <2> QED BY <2>1, <2>2, <2>3 DEF ArmedInv, PendingIsArmed, StoppedIsClosed, Held
<1>5. ASSUME NEW s \in Subs,
             \/ Subscribe(s) \/ Unregister(s) \/ eventStream(s)
             \/ \E p \in Publishers : send(p, s)
             \/ \E b \in flushing[s] : \E e \in b : flushSend(s, b, e)
             \/ RetryStep(s)
      PROVE UNCHANGED <<pending, timer, closed>>
  BY <1>5 DEF Subscribe, Unregister, eventStream, send, flushSend, RetryStep,
              sendUndroppable, retryLater, giveUp, subVars
<1>6. ASSUME NEW p \in Publishers,
             Snapshot(p) \/ \E k \in Published : Publish(p, k)
      PROVE UNCHANGED <<pending, timer, closed>>
  BY <1>6 DEF Snapshot, Publish, subVars
<1>7. CASE UNCHANGED vars
  BY <1>1, <1>7 DEF vars, subVars
<1> QED BY <1>1, <1>2, <1>3, <1>4, <1>5, <1>6, <1>7
        DEF Next, PublisherStep, FlushStep

\* A held event of an open subscription always has a timer that will flush it.
THEOREM PendingArmed == Spec => []PendingIsArmed
<1>1. Spec => [](TypeOK /\ PubOK /\ ArmedInv)
  BY InitTypeOK, NextTypeOK, InitArmed, NextArmed, PTL DEF Spec
<1>2. ArmedInv => PendingIsArmed
  BY DEF ArmedInv
<1> QED BY <1>1, <1>2, PTL

-----------------------------------------------------------------------------
(* No step sends on a closed channel. *)

NoSend == \A s \in closed : Len(ch'[s]) <= Len(ch[s])

\* No step lengthens the queue of a subscription that is closed.
LEMMA StepNoSend == TypeOK /\ [Next]_vars => NoSend
<1> SUFFICES ASSUME TypeOK, [Next]_vars, NEW s \in closed
             PROVE Len(ch'[s]) <= Len(ch[s])
  BY DEF NoSend
<1>0. s \in Subs /\ ch[s] \in Seq(Event) /\ Len(ch[s]) \in Nat
  BY DEF TypeOK
<1>1. CASE ch'[s] = ch[s]
  BY <1>0, <1>1
<1>2. ASSUME NEW t \in Subs, NEW e, push(t, e) PROVE ch'[s] = ch[s]
  <2>1. CASE t = s
    BY <1>2, <2>1 DEF push
  <2>2. CASE t # s
    BY <1>2, <2>2, <1>0 DEF push, TypeOK
  <2> QED BY <2>1, <2>2
<1>3. ASSUME NEW t \in Subs, NEW r \in retrying[t],
             sendUndroppable(t, r) \/ retryLater(t, r) \/ giveUp(t, r)
      PROVE ch'[s] = ch[s]
  <2>1. CASE t = s
    BY <1>3, <2>1 DEF sendUndroppable, retryLater, giveUp
  <2>2. CASE t # s
    <3>1. ch' = ch \/ ch' = [ch EXCEPT ![t] = Append(ch[t], r.ev)]
      BY <1>3 DEF sendUndroppable, retryLater, giveUp
    <3> QED BY <2>2, <1>0, <3>1 DEF TypeOK
  <2> QED BY <2>1, <2>2
<1>4. ASSUME NEW t \in Subs, eventStream(t) PROVE Len(ch'[s]) <= Len(ch[s])
  <2>1. CASE t = s
    <3>1. ch[s] # << >> /\ ch'[s] = Tail(ch[s])
      BY <1>4, <2>1 DEF eventStream, TypeOK
    <3> QED BY <1>0, <3>1
  <2>2. CASE t # s
    BY <1>0, <1>4, <2>2 DEF eventStream, TypeOK
  <2> QED BY <2>1, <2>2
<1>5. ASSUME NEW t \in Subs,
             \/ Subscribe(t) \/ Unregister(t) \/ CloseSub(t) \/ flush(t)
             \/ \E p \in Publishers : deliver(p, t) \/ Snapshot(p)
             \/ \E p \in Publishers, k \in Published : Publish(p, k)
      PROVE ch' = ch
  BY <1>5 DEF Subscribe, Unregister, CloseSub, flush, deliver, Snapshot, Publish,
              subVars
<1>6. ASSUME NEW p \in Publishers, Snapshot(p) \/ \E k \in Published : Publish(p, k)
      PROVE ch' = ch
  BY <1>6 DEF Snapshot, Publish, subVars
<1>7. ASSUME NEW p \in Publishers, NEW t \in Subs, send(p, t) PROVE ch'[s] = ch[s]
  BY <1>2, <1>7 DEF send
<1>8. ASSUME NEW t \in Subs, NEW b \in flushing[t], NEW e \in b, flushSend(t, b, e)
      PROVE ch'[s] = ch[s]
  BY <1>2, <1>8 DEF flushSend
<1>9. CASE UNCHANGED vars
  BY <1>1, <1>9 DEF vars, subVars
<1> QED BY <1>1, <1>3, <1>4, <1>5, <1>6, <1>7, <1>8, <1>9
        DEF Next, PublisherStep, FlushStep, RetryStep

\* Whoever still holds a subscription when it is closed never sends on it.
THEOREM ClosedChannelsAreQuiet == Spec => NoSendOnClosed
<1>1. Spec => []TypeOK
  BY TypeCorrect
<1>2. TypeOK /\ [Next]_vars => [NoSend]_vars
  BY StepNoSend
<1>3. Spec => [][NoSend]_vars
  BY <1>1, <1>2, PTL DEF Spec
<1> QED BY <1>3 DEF NoSend, NoSendOnClosed

-----------------------------------------------------------------------------
(* Nothing handed to an open subscription vanishes. *)

InHeld(s, e)       == \E k \in Kinds : pending[s][k] = e
InFlush(s, e)      == \E b \in flushing[s] : e \in b
InRetry(s, e)      == \E r \in retrying[s] : r.ev = e
InPublish(s, e)    == \E p \in Publishers :
                          s \in pub[p].todo \cup pub[p].to /\ pub[p].ev = e
InDelivered(s, e)  == \E i \in 1 .. Len(delivered[s]) : delivered[s][i] = e
InSuperseded(s, e) == \E x \in superseded[s] : x[1] = e

Accounted(s, e) ==
    \/ InDelivered(s, e) \/ e \in lost[s] \/ InSuperseded(s, e)
    \/ InHeld(s, e) \/ InFlush(s, e) \/ InRetry(s, e) \/ InPublish(s, e)

AllAccounted == \A s \in Subs \ closed : \A e \in handed[s] : Accounted(s, e)

\* The inductive accounting implies the property the run checks.
LEMMA AccountedIsNothingVanishes ==
    ASSUME TypeOK PROVE AllAccounted => NothingVanishes
<1> SUFFICES ASSUME AllAccounted, NEW s \in Subs \ closed, NEW e \in handed[s]
             PROVE \/ InDelivered(s, e) \/ e \in Waiting(s)
                   \/ e \in lost[s] \/ InSuperseded(s, e)
  BY DEF NothingVanishes, InDelivered, InSuperseded
<1>1. e # NoEvent
  BY NoEventAssumption DEF TypeOK
<1>2. InHeld(s, e) \/ InFlush(s, e) \/ InRetry(s, e) \/ InPublish(s, e)
      => e \in Waiting(s)
  BY <1>1 DEF Waiting, Held, InHeld, InFlush, InRetry, InPublish
<1> QED BY <1>2 DEF AllAccounted, Accounted

\* What an append to delivered keeps and adds.
LEMMA AppendDelivered ==
    ASSUME TypeOK, NEW t \in Subs, NEW d \in Event,
           delivered' = [delivered EXCEPT ![t] = Append(@, d)],
           NEW s \in Subs, NEW e
    PROVE  /\ InDelivered(s, e) => InDelivered(s, e)'
           /\ InDelivered(t, d)'
<1>1. delivered[t] \in Seq(Event) /\ delivered[s] \in Seq(Event)
  BY DEF TypeOK
<1>2. delivered'[t] = Append(delivered[t], d)
  BY DEF TypeOK
<1>3. /\ Len(delivered'[t]) = Len(delivered[t]) + 1
      /\ delivered'[t][Len(delivered[t]) + 1] = d
      /\ \A i \in 1 .. Len(delivered[t]) : delivered'[t][i] = delivered[t][i]
      /\ Len(delivered[t]) \in Nat
  BY <1>1, <1>2
<1>4. InDelivered(t, d)'
  <2>1. Len(delivered[t]) + 1 \in 1 .. Len(delivered'[t])
    BY <1>3
  <2> QED BY <1>3, <2>1 DEF InDelivered
<1>5. CASE s = t
  <2>1. ASSUME NEW i \in 1 .. Len(delivered[t]), delivered[t][i] = e
        PROVE i \in 1 .. Len(delivered'[t]) /\ delivered'[t][i] = e
    BY <1>3, <2>1
  <2> QED BY <1>4, <1>5, <2>1 DEF InDelivered
<1>6. CASE s # t
  <2>1. delivered'[s] = delivered[s]
    BY <1>6 DEF TypeOK
  <2> QED BY <1>4, <2>1 DEF InDelivered
<1> QED BY <1>5, <1>6

\* A push keeps what is accounted for by delivery or loss, and accounts for its
\* own event when the subscription is open.
LEMMA PushAccounts ==
    ASSUME TypeOK, NEW t \in Subs, NEW d \in Event, push(t, d),
           NEW s \in Subs \ closed, NEW e
    PROVE  /\ InDelivered(s, e) => InDelivered(s, e)'
           /\ e \in lost[s] => e \in lost'[s]
           /\ s = t => InDelivered(s, d)' \/ d \in lost'[s]
<1>1. CASE t \in closed
  BY <1>1 DEF push, InDelivered
<1>2. CASE t \notin closed /\ delivered' = [delivered EXCEPT ![t] = Append(@, d)]
            /\ lost' = lost
  BY <1>2, AppendDelivered
<1>3. CASE /\ lost' = [lost EXCEPT ![t] = @ \cup {d}] /\ delivered' = delivered
  BY <1>3 DEF InDelivered, TypeOK
<1>4. \/ t \in closed
      \/ /\ t \notin closed /\ delivered' = [delivered EXCEPT ![t] = Append(@, d)]
         /\ lost' = lost
      \/ lost' = [lost EXCEPT ![t] = @ \cup {d}] /\ delivered' = delivered
  BY DEF push
<1> QED BY <1>1, <1>2, <1>3, <1>4

\* The loop over a snapshot drops at most the subscription it has served.
LEMMA AdvanceAccounts ==
    ASSUME TypeOK, NEW p \in Publishers, NEW todo \in SUBSET Subs,
           Advance(p, todo), NEW s \in Subs, NEW e,
           InPublish(s, e),
           s \in pub[p].todo \cup pub[p].to /\ pub[p].ev = e => s \in todo
    PROVE  InPublish(s, e)'
<1>1. PICK q \in Publishers : s \in pub[q].todo \cup pub[q].to /\ pub[q].ev = e
  BY DEF InPublish
<1>2. CASE q = p
  <2>1. pub'[p] = [at |-> "deliver", ev |-> pub[p].ev, todo |-> todo, to |-> {}]
    BY <1>1, <1>2 DEF Advance, TypeOK
  <2> QED BY <1>1, <1>2, <2>1 DEF InPublish
<1>3. CASE q # p
  <2>1. pub'[q] = pub[q]
    BY <1>3 DEF Advance, TypeOK
  <2> QED BY <1>1, <2>1 DEF InPublish
<1> QED BY <1>2, <1>3

\* On a new bus nothing has been handed to a subscription yet.
LEMMA InitAccounted == Init => AllAccounted
BY DEF Init, AllAccounted

\* Every step keeps each handed event in one of the places that account for it.
LEMMA NextAccounted ==
    TypeOK /\ PubOK /\ AllAccounted /\ [Next]_vars => AllAccounted'
<1> SUFFICES ASSUME TypeOK, PubOK, AllAccounted, [Next]_vars,
                    NEW s \in Subs \ closed', NEW e \in handed'[s]
             PROVE  Accounted(s, e)'
  BY DEF AllAccounted
<1>1. closed \subseteq closed'
  BY DEF Next, vars, subVars, busVars, histVars, PublisherStep, FlushStep,
         RetryStep, Subscribe, Unregister, CloseSub, Publish, Snapshot, deliver,
         send, flush, flushSend, sendUndroppable, retryLater, giveUp, eventStream
<1>2. s \in Subs \ closed /\ (e \in handed[s] => Accounted(s, e))
  BY <1>1 DEF AllAccounted
\* Steps that touch none of the places an event can be in.
<1>3. CASE UNCHANGED <<pending, flushing, retrying, pub, histVars>>
  BY <1>2, <1>3 DEF Accounted, InHeld, InFlush, InRetry, InPublish, InDelivered,
                    InSuperseded, histVars
<1>4. ASSUME NEW p \in Publishers, NEW k \in Published, Publish(p, k)
      PROVE Accounted(s, e)'
  <2>1. InPublish(s, e) => InPublish(s, e)'
    <3> SUFFICES ASSUME NEW q \in Publishers,
                        s \in pub[q].todo \cup pub[q].to, pub[q].ev = e
                 PROVE InPublish(s, e)'
      BY DEF InPublish
    <3>1. q # p
      BY <1>4 DEF Publish, PubOK
    <3>2. pub'[q] = pub[q]
      BY <1>4, <3>1 DEF Publish, TypeOK
    <3> QED BY <3>2 DEF InPublish
  <2> QED BY <1>2, <1>4, <2>1 DEF Publish, subVars, histVars, Accounted, InHeld,
                 InFlush, InRetry, InDelivered, InSuperseded
<1>5. ASSUME NEW p \in Publishers, Snapshot(p) PROVE Accounted(s, e)'
  <2> DEFINE todo == {t \in live : wants(t, pub[p].ev.kind)}
  <2>1. Advance(p, todo) /\ todo \in SUBSET Subs /\ pub[p].todo = {} /\ pub[p].to = {}
    BY <1>5 DEF Snapshot, TypeOK, PubOK
  <2>2. InPublish(s, e) => InPublish(s, e)'
    <3> HIDE DEF todo
    <3> QED BY <2>1, AdvanceAccounts
  <2>3. CASE e \in handed[s]
    BY <1>2, <1>5, <2>2, <2>3 DEF Snapshot, subVars, Accounted, InHeld, InFlush,
                InRetry, InDelivered, InSuperseded
  <2>4. CASE e \notin handed[s]
    <3>1. s \in todo /\ e = pub[p].ev
      BY <1>5, <2>4 DEF Snapshot, TypeOK
    <3>2. pub'[p] = [at |-> "deliver", ev |-> pub[p].ev, todo |-> todo, to |-> {}]
      BY <2>1, <3>1 DEF Advance, TypeOK
    <3>3. InPublish(s, e)'
      BY <3>1, <3>2 DEF InPublish
    <3> QED BY <3>3 DEF Accounted
  <2> QED BY <2>3, <2>4
<1>6. ASSUME NEW p \in Publishers, NEW t \in Subs, deliver(p, t)
      PROVE Accounted(s, e)'
  <2>1. /\ pub[p].ev \in Event /\ pub[p].to = {} /\ pub[p].todo \in SUBSET Subs
        /\ e \in handed[s]
    BY <1>6 DEF deliver, PubOK, TypeOK, PubState
  <2>2. UNCHANGED <<flushing, retrying, delivered, lost>>
    BY <1>6 DEF deliver
  <2>3. InDelivered(s, e) \/ e \in lost[s] \/ InFlush(s, e) \/ InRetry(s, e)
        => Accounted(s, e)'
    BY <2>2 DEF Accounted, InDelivered, InFlush, InRetry
  <2>4. Advance(p, pub[p].todo \ {t}) /\ InPublish(s, e)
        => InPublish(s, e)' \/ (s = t /\ e = pub[p].ev)
    BY <2>1, AdvanceAccounts
  <2>5. CASE t \in closed
    <3>1. Advance(p, pub[p].todo \ {t}) /\ UNCHANGED <<pending, superseded>>
      BY <1>6, <2>5 DEF deliver
    <3>2. s # t
      BY <1>2, <2>5
    <3> QED BY <1>2, <2>1, <2>3, <2>4, <3>1, <3>2
            DEF Accounted, InHeld, InSuperseded
  <2>6. CASE Advance(p, pub[p].todo \ {t}) /\ hold(t, pub[p].ev)
    <3> PICK d \in Event : d = pub[p].ev
      BY <2>1
    <3>1. d.kind \in Kinds
      BY DEF Event
    <3>2. \A u \in Subs, k \in Kinds :
             pending'[u][k] = IF u = t /\ k = d.kind THEN d ELSE pending[u][k]
      BY <2>6, <3>1 DEF hold, TypeOK
    <3>3. InHeld(t, d)'
      BY <3>1, <3>2 DEF InHeld
    <3>4. InSuperseded(s, e) => InSuperseded(s, e)'
      BY <2>6 DEF hold, TypeOK, InSuperseded
    <3>5. InHeld(s, e) => InHeld(s, e)' \/ InSuperseded(s, e)'
      <4> SUFFICES ASSUME NEW k \in Kinds, pending[s][k] = e
                   PROVE  InHeld(s, e)' \/ InSuperseded(s, e)'
        BY DEF InHeld
      <4>1. CASE s = t /\ k = d.kind
        <5>1. e # NoEvent
          BY <2>1, NoEventAssumption DEF TypeOK
        <5>2. <<e, d>> \in superseded'[s]
          BY <2>6, <4>1, <5>1 DEF hold, TypeOK
        <5> QED BY <5>2 DEF InSuperseded
      <4>2. CASE ~(s = t /\ k = d.kind)
        BY <3>2, <4>2 DEF InHeld
      <4> QED BY <4>1, <4>2
    <3> QED BY <1>2, <2>1, <2>3, <2>4, <2>6, <3>3, <3>4, <3>5 DEF Accounted
  <2>7. CASE /\ pub' = [pub EXCEPT ![p].at = "send", ![p].to = {t},
                                   ![p].todo = @ \ {t}]
             /\ UNCHANGED <<pending, timer, superseded>>
    <3>1. InPublish(s, e) => InPublish(s, e)'
      <4> SUFFICES ASSUME NEW q \in Publishers,
                          s \in pub[q].todo \cup pub[q].to, pub[q].ev = e
                   PROVE InPublish(s, e)'
        BY DEF InPublish
      <4>1. CASE q = p
        <5>1. /\ pub'[p].ev = pub[p].ev /\ pub'[p].to = {t}
              /\ pub'[p].todo = pub[p].todo \ {t}
          BY <2>7 DEF TypeOK, PubState
        <5> QED BY <2>1, <4>1, <5>1 DEF InPublish
      <4>2. CASE q # p
        <5>1. pub'[q] = pub[q]
          BY <2>7, <4>2 DEF TypeOK
        <5> QED BY <5>1 DEF InPublish
      <4> QED BY <4>1, <4>2
    <3> QED BY <1>2, <2>1, <2>3, <2>7, <3>1 DEF Accounted, InHeld, InSuperseded
  <2> QED BY <1>6, <2>5, <2>6, <2>7 DEF deliver
<1>7. ASSUME NEW p \in Publishers, NEW t \in Subs, send(p, t)
      PROVE Accounted(s, e)'
  <2>1. /\ pub[p].ev \in Event /\ pub[p].to = {t} /\ pub[p].todo \in SUBSET Subs
        /\ e \in handed[s] /\ Advance(p, pub[p].todo)
        /\ UNCHANGED <<pending, flushing, superseded>>
    BY <1>7 DEF send, PubOK, TypeOK, PubState
  <2>2. InPublish(s, e) => InPublish(s, e)' \/ (s = t /\ e = pub[p].ev)
    BY <2>1, AdvanceAccounts
  <2>3. InHeld(s, e) \/ InFlush(s, e) \/ InSuperseded(s, e) => Accounted(s, e)'
    BY <2>1 DEF Accounted, InHeld, InFlush, InSuperseded
  <2>4. CASE push(t, pub[p].ev) /\ UNCHANGED retrying
    <3>1. InRetry(s, e) => InRetry(s, e)'
      BY <2>4 DEF InRetry
    <3> QED BY <1>2, <2>1, <2>2, <2>3, <2>4, <3>1, PushAccounts DEF Accounted
  <2>5. CASE /\ retrying' = [retrying EXCEPT ![t] =
                    @ \cup {[ev |-> pub[p].ev, tried |-> FALSE]}]
             /\ UNCHANGED <<ch, dropped, delivered, lost>>
    <3>1. InRetry(s, e) => InRetry(s, e)'
      BY <2>5 DEF InRetry, TypeOK
    <3> PICK d \in Event : d = pub[p].ev
      BY <2>1
    <3>3. [ev |-> d, tried |-> FALSE] \in retrying'[t]
      BY <2>5 DEF TypeOK
    <3>2. InRetry(t, d)'
      BY <3>3 DEF InRetry
    <3> QED BY <1>2, <2>1, <2>2, <2>3, <2>5, <3>1, <3>2 DEF Accounted, InDelivered
  <2> QED BY <1>7, <2>4, <2>5 DEF send
<1>8. ASSUME NEW t \in Subs, flush(t) PROVE Accounted(s, e)'
  <2>1. e \in handed[s] /\ e # NoEvent
    BY <1>8, NoEventAssumption DEF flush, histVars, TypeOK
  <2>2. InHeld(s, e) => InHeld(s, e)' \/ InFlush(s, e)'
    <3>1. CASE s = t
      <4>0. flushing'[s] = flushing[s] \cup ({Held(s)} \ {{}})
        BY <1>8, <3>1 DEF flush, TypeOK
      <4>1. InHeld(s, e) => e \in Held(s) /\ Held(s) \in flushing'[s]
        BY <2>1, <4>0 DEF InHeld, Held
      <4> QED BY <4>1 DEF InFlush
    <3>2. CASE s # t
      BY <1>8, <3>2 DEF flush, InHeld, TypeOK
    <3> QED BY <3>1, <3>2
  <2>3. InFlush(s, e) => InFlush(s, e)'
    BY <1>8 DEF flush, InFlush, TypeOK
  <2> QED BY <1>2, <1>8, <2>1, <2>2, <2>3 DEF flush, busVars, histVars, Accounted,
             InRetry, InPublish, InDelivered, InSuperseded
<1>9. ASSUME NEW t \in Subs, NEW b \in flushing[t], NEW d \in b, flushSend(t, b, d)
      PROVE Accounted(s, e)'
  <2>1. d \in Event /\ push(t, d) /\ e \in handed[s]
    BY <1>9 DEF flushSend, TypeOK
  <2>2. InFlush(s, e) => InFlush(s, e)' \/ (s = t /\ e = d)
    <3> SUFFICES ASSUME NEW c \in flushing[s], e \in c
                 PROVE InFlush(s, e)' \/ (s = t /\ e = d)
      BY DEF InFlush
    <3>1. CASE s = t /\ c = b /\ e # d
      <4>1. e \in b \ {d} /\ b \ {d} \in flushing'[s]
        BY <1>9, <3>1 DEF flushSend, TypeOK
      <4> QED BY <4>1 DEF InFlush
    <3>2. CASE ~(s = t /\ c = b)
      <4>1. c \in flushing'[s]
        BY <1>9, <3>2 DEF flushSend, TypeOK
      <4> QED BY <4>1 DEF InFlush
    <3> QED BY <3>1, <3>2
  <2>3. InHeld(s, e) \/ InRetry(s, e) \/ InPublish(s, e) \/ InSuperseded(s, e)
        => Accounted(s, e)'
    BY <1>9 DEF flushSend, busVars, Accounted, InHeld, InRetry, InPublish,
                InSuperseded
  <2> QED BY <1>2, <2>1, <2>2, <2>3, PushAccounts DEF Accounted
<1>10. ASSUME NEW t \in Subs, NEW r \in retrying[t],
              sendUndroppable(t, r) \/ retryLater(t, r) \/ giveUp(t, r)
       PROVE Accounted(s, e)'
  <2>1. /\ r.ev \in Event /\ e \in handed[s]
        /\ UNCHANGED <<pending, flushing, pub, superseded>>
    BY <1>10 DEF sendUndroppable, retryLater, giveUp, busVars, histVars, TypeOK
  <2>2. InHeld(s, e) \/ InFlush(s, e) \/ InPublish(s, e) \/ InSuperseded(s, e)
        => Accounted(s, e)'
    BY <2>1 DEF Accounted, InHeld, InFlush, InPublish, InSuperseded
  <2>3. ASSUME NEW b \in BOOLEAN,
               retrying' = [retrying EXCEPT ![t] = (@ \ {r}) \cup {[r EXCEPT !.tried = b]}],
               UNCHANGED <<delivered, lost>>
        PROVE Accounted(s, e)'
    <3>1. [r EXCEPT !.tried = b].ev = r.ev
      BY DEF TypeOK
    <3>2. InRetry(s, e) => InRetry(s, e)'
      BY <2>3, <3>1 DEF InRetry, TypeOK
    <3> QED BY <1>2, <2>1, <2>2, <2>3, <3>2 DEF Accounted, InDelivered
  <2>4. ASSUME retrying' = [retrying EXCEPT ![t] = @ \ {r}]
        PROVE InRetry(s, e) => InRetry(s, e)' \/ (s = t /\ e = r.ev)
    BY <2>4 DEF InRetry, TypeOK
  <2>5. CASE giveUp(t, r)
    <3>1. e \in lost[s] => e \in lost'[s]
      BY <2>5 DEF giveUp, TypeOK
    <3>2. r.ev \in lost'[t]
      BY <2>5 DEF giveUp, TypeOK
    <3>3. InDelivered(s, e) => InDelivered(s, e)'
      BY <2>5 DEF giveUp, InDelivered
    <3> QED BY <1>2, <2>1, <2>2, <2>4, <2>5, <3>1, <3>2, <3>3 DEF giveUp, Accounted
  <2>6. CASE /\ delivered' = [delivered EXCEPT ![t] = Append(@, r.ev)]
             /\ retrying' = [retrying EXCEPT ![t] = @ \ {r}] /\ lost' = lost
    BY <1>2, <2>1, <2>2, <2>4, <2>6, AppendDelivered DEF Accounted
  <2>7. CASE /\ t \in closed /\ UNCHANGED <<delivered, lost>>
             /\ retrying' = [retrying EXCEPT ![t] = @ \ {r}]
    <3>1. s # t
      BY <1>2, <2>7
    <3> QED BY <1>2, <2>1, <2>2, <2>4, <2>7, <3>1 DEF Accounted, InDelivered
  <2> QED BY <1>10, <2>3, <2>5, <2>6, <2>7 DEF sendUndroppable, retryLater, histVars
<1>11. CASE UNCHANGED vars
  BY <1>3, <1>11 DEF vars, busVars, subVars
<1>12. ASSUME NEW t \in Subs,
              Subscribe(t) \/ Unregister(t) \/ CloseSub(t) \/ eventStream(t)
       PROVE UNCHANGED <<pending, flushing, retrying, pub, histVars>>
  BY <1>12 DEF Subscribe, Unregister, CloseSub, eventStream, subVars, busVars
<1> QED BY <1>3, <1>4, <1>5, <1>6, <1>7, <1>8, <1>9, <1>10, <1>11, <1>12
        DEF Next, PublisherStep, FlushStep, RetryStep

\* No event handed to an open subscription is silently lost.
THEOREM NoSilentLoss == Spec => []NothingVanishes
<1>1. Spec => [](TypeOK /\ PubOK /\ AllAccounted)
  BY InitTypeOK, NextTypeOK, InitAccounted, NextAccounted, PTL DEF Spec
<1>2. TypeOK /\ AllAccounted => NothingVanishes
  BY AccountedIsNothingVanishes
<1> QED BY <1>1, <1>2, PTL

-----------------------------------------------------------------------------
(* The drop counter is exact. *)

\* No two calls of Publish carry the same sequence number, and a stamped event
\* has been handed to nobody yet.
StampsInv ==
    /\ \A s \in Subs : \A e \in handed[s] : e.seq <= seq
    /\ \A p \in Publishers : pub[p].at # "idle" => pub[p].ev.seq <= seq
    /\ \A p, q \in Publishers :
           pub[p].at # "idle" /\ pub[q].at # "idle" /\ p # q
           => pub[p].ev.seq # pub[q].ev.seq
    /\ \A p \in Publishers : pub[p].at = "stamped" =>
           \A s \in Subs : \A e \in handed[s] : e.seq # pub[p].ev.seq
    /\ \A p \in Publishers : pub[p].at = "send" => pub[p].to \cap pub[p].todo = {}

Placed(s, e) ==
    \/ InHeld(s, e) \/ InFlush(s, e) \/ InRetry(s, e) \/ InPublish(s, e)
    \/ InSuperseded(s, e)

\* An event is in at most one of the places that hold it for a subscription,
\* and only if it was handed to it.
OncePlaced(s, e) ==
    /\ Placed(s, e) => e \in handed[s]
    /\ InHeld(s, e) => ~InFlush(s, e) /\ ~InRetry(s, e) /\ ~InPublish(s, e)
    /\ InFlush(s, e) => ~InRetry(s, e) /\ ~InPublish(s, e)
    /\ InRetry(s, e) => ~InPublish(s, e)
    /\ InSuperseded(s, e) => /\ ~InHeld(s, e) /\ ~InFlush(s, e)
                             /\ ~InRetry(s, e) /\ ~InPublish(s, e)

\* The same within each place: one kind of pending, one batch, one retry.
PlaceInv(s) ==
    /\ \A e \in Event : OncePlaced(s, e)
    /\ \A k \in Kinds : pending[s][k] # NoEvent => pending[s][k].kind = k
    /\ \A b, c \in flushing[s] : b # c => b \cap c = {}
    /\ \A q, r \in retrying[s] : q.ev = r.ev => q = r

Overwritten(s) == {x[1] : x \in superseded[s]}

CountInv(s) ==
    /\ IsFiniteSet(handed[s])
    /\ Cardinality(handed[s]) =
           Len(delivered[s]) + Cardinality(Waiting(s)) + dropped[s]
           + Cardinality(Overwritten(s))

ExactInv == \A s \in Subs \ closed : PlaceInv(s) /\ CountInv(s)

\* A step that only moves a call of Publish along, and hands nothing out, keeps
\* the stamps apart.
LEMMA AdvanceStamps ==
    ASSUME TypeOK, PubOK, StampsInv, NEW p \in Publishers,
           NEW todo \in SUBSET Subs, pub[p].at # "idle", Advance(p, todo),
           UNCHANGED <<seq, handed>>
    PROVE  StampsInv'
<1>1. /\ pub'[p].at \in {"idle", "deliver"}
      /\ pub'[p].at # "idle" => pub'[p].ev = pub[p].ev
      /\ \A q \in Publishers \ {p} : pub'[q] = pub[q]
  BY DEF Advance, TypeOK, Idle
<1> QED BY <1>1 DEF StampsInv

\* Sequence numbers are taken once, so every step keeps the stamps apart.
LEMMA NextStamps == TypeOK /\ PubOK /\ StampsInv /\ [Next]_vars => StampsInv'
<1> SUFFICES ASSUME TypeOK, PubOK, StampsInv, [Next]_vars PROVE StampsInv'
  OBVIOUS
<1>1. CASE UNCHANGED <<seq, pub, handed>>
  BY <1>1 DEF StampsInv
<1>2. ASSUME NEW p \in Publishers, NEW k \in Published, Publish(p, k)
      PROVE  StampsInv'
  <2>1. /\ seq' = seq + 1 /\ handed' = handed
        /\ pub'[p].at = "stamped" /\ pub'[p].ev.seq = seq + 1
        /\ \A q \in Publishers \ {p} : pub'[q] = pub[q]
    BY <1>2 DEF Publish, TypeOK, histVars
  <2>2. seq \in Nat /\ \A q \in Publishers : pub[q].at # "idle" => pub[q].ev.seq \in Nat
    BY DEF TypeOK, PubOK, PubState, Event
  <2>3. \A s \in Subs : \A e \in handed[s] : e.seq \in Nat
    BY DEF TypeOK, Event
  <2> QED BY <2>1, <2>2, <2>3 DEF StampsInv
<1>3. ASSUME NEW p \in Publishers, Snapshot(p) PROVE StampsInv'
  <2> DEFINE todo == {s \in live : wants(s, pub[p].ev.kind)}
  <2>1. /\ seq' = seq /\ pub[p].at = "stamped" /\ Advance(p, todo)
        /\ \A s \in Subs : handed'[s] \subseteq handed[s] \cup {pub[p].ev}
    BY <1>3 DEF Snapshot
  <2>2. /\ pub'[p].at \in {"idle", "deliver"}
        /\ pub'[p].at # "idle" => pub'[p].ev = pub[p].ev
        /\ \A q \in Publishers \ {p} : pub'[q] = pub[q]
    BY <2>1 DEF Advance, TypeOK, Idle
  <2> HIDE DEF todo
  <2> QED BY <2>1, <2>2 DEF StampsInv
<1>4. ASSUME NEW p \in Publishers, NEW s \in Subs, deliver(p, s) PROVE StampsInv'
  <2>1. pub[p].at = "deliver" /\ pub[p].to = {} /\ UNCHANGED <<seq, handed>>
    BY <1>4 DEF deliver, PubOK
  <2>2. CASE Advance(p, pub[p].todo \ {s})
    <3>1. pub[p].todo \ {s} \in SUBSET Subs
      BY DEF TypeOK, PubState
    <3> QED BY <2>1, <2>2, <3>1, AdvanceStamps
  <2>3. CASE pub' = [pub EXCEPT ![p].at = "send", ![p].to = {s}, ![p].todo = @ \ {s}]
    <3>1. /\ pub'[p].at = "send" /\ pub'[p].to = {s} /\ pub'[p].ev = pub[p].ev
          /\ pub'[p].todo = pub[p].todo \ {s}
          /\ \A q \in Publishers \ {p} : pub'[q] = pub[q]
      BY <2>3 DEF TypeOK, PubState
    <3> QED BY <2>1, <3>1 DEF StampsInv
  <2> QED BY <1>4, <2>2, <2>3 DEF deliver
<1>5. ASSUME NEW p \in Publishers, NEW s \in Subs, send(p, s) PROVE StampsInv'
  <2>1. pub[p].todo \in SUBSET Subs
    BY DEF TypeOK, PubState
  <2> QED BY <1>5, <2>1, AdvanceStamps DEF send
<1>6. ASSUME NEW s \in Subs,
             \/ Subscribe(s) \/ Unregister(s) \/ CloseSub(s) \/ eventStream(s)
             \/ FlushStep(s) \/ RetryStep(s)
      PROVE  UNCHANGED <<seq, pub, handed>>
  BY <1>6 DEF Subscribe, Unregister, CloseSub, eventStream, FlushStep, flush,
              flushSend, RetryStep, sendUndroppable, retryLater, giveUp, busVars,
              histVars
<1>7. CASE UNCHANGED vars
  BY <1>1, <1>7 DEF vars, busVars, histVars
<1> QED BY <1>1, <1>2, <1>3, <1>4, <1>5, <1>6, <1>7 DEF Next, PublisherStep

\* What the daemon still holds for a subscription, place by place.
InWaiting(s) ==
    {e \in Event : InHeld(s, e) \/ InFlush(s, e) \/ InRetry(s, e) \/ InPublish(s, e)}

WaitingPlaces == \A s \in Subs : Waiting(s) = InWaiting(s)

\* Waiting is the union of the places.
LEMMA WaitingIsPlaces == TypeOK /\ PubOK => WaitingPlaces
<1> SUFFICES ASSUME TypeOK, PubOK, NEW s \in Subs, NEW e
             PROVE  e \in Waiting(s) <=> e \in InWaiting(s)
  BY DEF WaitingPlaces
<1>1. e \in Held(s) <=> e \in Event /\ InHeld(s, e)
  BY NoEventAssumption DEF Held, InHeld, TypeOK
<1>2. e \in UNION flushing[s] <=> e \in Event /\ InFlush(s, e)
  BY DEF InFlush, TypeOK
<1>3. e \in {r.ev : r \in retrying[s]} <=> e \in Event /\ InRetry(s, e)
  BY DEF InRetry, TypeOK
<1>4. e \in {pub[p].ev : p \in {q \in Publishers : s \in pub[q].todo \cup pub[q].to}}
      <=> e \in Event /\ InPublish(s, e)
  <2>1. \A p \in Publishers : s \in pub[p].todo \cup pub[p].to => pub[p].ev \in Event
    BY DEF TypeOK, PubOK, PubState
  <2> QED BY <2>1 DEF InPublish
<1> QED BY <1>1, <1>2, <1>3, <1>4 DEF Waiting, InWaiting

\* The same after a step.
LEMMA WaitingIsPlacesNext == TypeOK' /\ PubOK' => WaitingPlaces'
BY WaitingIsPlaces, PTL

Settled(s) == Len(delivered[s]) + dropped[s]

\* The arithmetic of the four kinds of step: nothing moves, an event is handed
\* out, an event is overwritten, an event is delivered or counted as dropped.
LEMMA CountKept ==
    ASSUME TypeOK, TypeOK', PubOK, PubOK', NEW s \in Subs, PlaceInv(s), CountInv(s),
           \/ /\ handed'[s] = handed[s] /\ InWaiting(s)' = InWaiting(s)
              /\ Overwritten(s)' = Overwritten(s) /\ Settled(s)' = Settled(s)
           \/ \E e : /\ e \notin handed[s] /\ handed'[s] = handed[s] \cup {e}
                     /\ InWaiting(s)' = InWaiting(s) \cup {e}
                     /\ Overwritten(s)' = Overwritten(s) /\ Settled(s)' = Settled(s)
           \/ \E e \in InWaiting(s) :
                     /\ handed'[s] = handed[s] /\ InWaiting(s)' = InWaiting(s) \ {e}
                     /\ Overwritten(s)' = Overwritten(s) \cup {e}
                     /\ Settled(s)' = Settled(s)
           \/ \E e \in InWaiting(s) :
                     /\ handed'[s] = handed[s] /\ InWaiting(s)' = InWaiting(s) \ {e}
                     /\ Overwritten(s)' = Overwritten(s)
                     /\ Settled(s)' = Settled(s) + 1
    PROVE  CountInv(s)'
<1>1. Waiting(s) = InWaiting(s)
  BY WaitingIsPlaces DEF WaitingPlaces
<1>3. Waiting(s)' = InWaiting(s)'
  BY WaitingIsPlacesNext DEF WaitingPlaces
<1>4. /\ Len(delivered[s]) \in Nat /\ dropped[s] \in Nat
      /\ Len(delivered'[s]) \in Nat /\ dropped'[s] \in Nat
  BY DEF TypeOK
<1>5. Settled(s) \in Nat /\ Settled(s)' \in Nat
  BY <1>4 DEF Settled
<1>6. /\ InWaiting(s) \subseteq handed[s] /\ Overwritten(s) \subseteq handed[s]
      /\ InWaiting(s) \cap Overwritten(s) = {}
  <2>1. Overwritten(s) \subseteq Event /\ \A e : e \in Overwritten(s) <=> InSuperseded(s, e)
    BY DEF Overwritten, InSuperseded, TypeOK
  <2> QED BY <2>1 DEF InWaiting, PlaceInv, OncePlaced, Placed
<1>7. /\ IsFiniteSet(handed[s])
      /\ Cardinality(handed[s]) = Len(delivered[s]) + Cardinality(InWaiting(s))
                                  + dropped[s] + Cardinality(Overwritten(s))
  BY <1>1 DEF CountInv
<1>8. Cardinality(InWaiting(s)) \in Nat /\ Cardinality(Overwritten(s)) \in Nat
  BY <1>6, <1>7, FS_Subset, FS_CardinalityType
<1>9. Cardinality(handed[s]) = Settled(s) + Cardinality(InWaiting(s))
                               + Cardinality(Overwritten(s))
  BY <1>4, <1>7, <1>8 DEF Settled
<1> DEFINE H == handed[s]  W == InWaiting(s)  O == Overwritten(s)
           H2 == handed'[s]  W2 == InWaiting(s)'  O2 == Overwritten(s)'
           n == Settled(s)  n2 == Settled(s)'
           Goal == /\ IsFiniteSet(H2) /\ Cardinality(W2) \in Nat /\ Cardinality(O2) \in Nat
                   /\ Cardinality(H2) = n2 + Cardinality(W2) + Cardinality(O2)
<1>10. \/ H2 = H /\ W2 = W /\ O2 = O /\ n2 = n
       \/ \E e : e \notin H /\ H2 = H \cup {e} /\ W2 = W \cup {e} /\ O2 = O /\ n2 = n
       \/ \E e \in W : H2 = H /\ W2 = W \ {e} /\ O2 = O \cup {e} /\ n2 = n
       \/ \E e \in W : H2 = H /\ W2 = W \ {e} /\ O2 = O /\ n2 = n + 1
  OBVIOUS
<1>11. /\ n \in Nat /\ n2 \in Nat /\ W \subseteq H /\ W \cap O = {}
       /\ IsFiniteSet(H) /\ IsFiniteSet(W) /\ IsFiniteSet(O)
       /\ Cardinality(W) \in Nat /\ Cardinality(O) \in Nat
       /\ Cardinality(H) = n + Cardinality(W) + Cardinality(O)
  BY <1>5, <1>6, <1>7, <1>8, <1>9, FS_Subset
<1>12. Goal
  <2> HIDE DEF H, W, O, H2, W2, O2, n, n2
  <2>1. CASE H2 = H /\ W2 = W /\ O2 = O /\ n2 = n
    BY <1>11, <2>1
  <2>2. ASSUME NEW e, e \notin H, H2 = H \cup {e}, W2 = W \cup {e}, O2 = O, n2 = n
        PROVE  Goal
    <3>1. IsFiniteSet(H2) /\ Cardinality(H2) = Cardinality(H) + 1
      BY <1>11, <2>2, FS_AddElement
    <3>2. Cardinality(W2) = Cardinality(W) + 1
      BY <1>11, <2>2, FS_AddElement
    <3> QED BY <1>11, <2>2, <3>1, <3>2
  <2>3. ASSUME NEW e \in W, H2 = H, W2 = W \ {e}, O2 = O \cup {e}, n2 = n
        PROVE  Goal
    <3>1. IsFiniteSet(W2) /\ Cardinality(W2) = Cardinality(W) - 1
      BY <1>11, <2>3, FS_RemoveElement
    <3>2. Cardinality(O2) = Cardinality(O) + 1
      BY <1>11, <2>3, FS_AddElement
    <3>3. Cardinality(W2) \in Nat
      BY <3>1, FS_CardinalityType
    <3> QED BY <1>11, <2>3, <3>1, <3>2, <3>3
  <2>4. ASSUME NEW e \in W, H2 = H, W2 = W \ {e}, O2 = O, n2 = n + 1
        PROVE  Goal
    <3>1. IsFiniteSet(W2) /\ Cardinality(W2) = Cardinality(W) - 1
      BY <1>11, <2>4, FS_RemoveElement
    <3>2. Cardinality(W2) \in Nat
      BY <3>1, FS_CardinalityType
    <3> QED BY <1>11, <2>4, <3>1, <3>2
  <2> QED BY <1>10, <2>1, <2>2, <2>3, <2>4
<1> QED BY <1>3, <1>4, <1>12 DEF CountInv, Settled

\* What the places of one subscription look like to PlaceInv and CountInv.
Untouched(s) ==
    /\ pending'[s] = pending[s] /\ flushing'[s] = flushing[s]
    /\ retrying'[s] = retrying[s] /\ superseded'[s] = superseded[s]

\* A step that leaves everything held for a subscription where it is.
LEMMA QuietStep ==
    ASSUME TypeOK, TypeOK', PubOK, PubOK', NEW s \in Subs, PlaceInv(s), CountInv(s),
           Untouched(s), handed'[s] = handed[s], delivered'[s] = delivered[s],
           dropped'[s] = dropped[s],
           \A e \in Event : InPublish(s, e)' <=> InPublish(s, e)
    PROVE  PlaceInv(s)' /\ CountInv(s)'
<1>1. \A e \in Event : /\ InHeld(s, e)' <=> InHeld(s, e)
                       /\ InFlush(s, e)' <=> InFlush(s, e)
                       /\ InRetry(s, e)' <=> InRetry(s, e)
                       /\ InSuperseded(s, e)' <=> InSuperseded(s, e)
  BY DEF Untouched, InHeld, InFlush, InRetry, InSuperseded
<1>2. PlaceInv(s)'
  <2>1. \A e \in Event : OncePlaced(s, e)'
    BY <1>1 DEF PlaceInv, OncePlaced, Placed
  <2> QED BY <2>1 DEF PlaceInv, Untouched
<1>3. InWaiting(s)' = InWaiting(s)
  BY <1>1 DEF InWaiting
<1>4. Overwritten(s)' = Overwritten(s) /\ Settled(s)' = Settled(s)
  BY DEF Untouched, Overwritten, Settled
<1> QED BY <1>2, <1>3, <1>4, CountKept

\* Moving a call of Publish along takes exactly the served subscription off it.
LEMMA AdvancePlaces ==
    ASSUME TypeOK, PubOK, StampsInv, NEW p \in Publishers, NEW t \in Subs,
           pub[p].at # "idle", pub[p].to \subseteq {t},
           Advance(p, pub[p].todo \ {t}), NEW s \in Subs, NEW e \in Event,
           s = t => s \in pub[p].todo \cup pub[p].to
    PROVE  InPublish(s, e)' <=> InPublish(s, e) /\ ~(s = t /\ e = pub[p].ev)
<1>1. \A q \in Publishers \ {p} : pub'[q] = pub[q]
  BY DEF Advance, TypeOK
<1>2. s \in pub'[p].todo \cup pub'[p].to
      <=> s \in pub[p].todo \cup pub[p].to /\ s # t
  BY DEF Advance, TypeOK, Idle
<1>3. s \in pub'[p].todo \cup pub'[p].to => pub'[p].ev = pub[p].ev
  BY DEF Advance, TypeOK, Idle
<1>4. \A q \in Publishers \ {p} :
          s \in pub[q].todo \cup pub[q].to => pub[q].ev # pub[p].ev
  BY DEF StampsInv, PubOK
<1>5. InPublish(s, e)' => InPublish(s, e) /\ ~(s = t /\ e = pub[p].ev)
  BY <1>1, <1>2, <1>3, <1>4 DEF InPublish
<1>6. InPublish(s, e) /\ ~(s = t /\ e = pub[p].ev) => InPublish(s, e)'
  BY <1>1, <1>2, <1>3 DEF InPublish
<1> QED BY <1>5, <1>6

\* A push to an open subscription settles one event, and touches no other
\* subscription.
LEMMA PushSettles ==
    ASSUME TypeOK, NEW t \in Subs, NEW d \in Event, push(t, d), NEW s \in Subs \ closed
    PROVE  /\ s = t => Settled(s)' = Settled(s) + 1
           /\ s # t => delivered'[s] = delivered[s] /\ dropped'[s] = dropped[s]
<1>1. Len(delivered[s]) \in Nat /\ dropped[s] \in Nat /\ delivered[t] \in Seq(Event)
  BY DEF TypeOK
<1>2. CASE t \in closed
  BY <1>2 DEF push
<1>3. CASE /\ delivered' = [delivered EXCEPT ![t] = Append(@, d)]
           /\ UNCHANGED dropped
  <2>1. Len(Append(delivered[t], d)) = Len(delivered[t]) + 1
    BY <1>1
  <2> QED BY <1>1, <1>3, <2>1 DEF Settled, TypeOK
<1>4. CASE dropped' = [dropped EXCEPT ![t] = @ + 1] /\ UNCHANGED delivered
  BY <1>1, <1>4 DEF Settled, TypeOK
<1> QED BY <1>2, <1>3, <1>4 DEF push

\* A step that settles one event: it leaves its place, and the counter or the
\* channel takes it.
LEMMA SettleStep ==
    ASSUME TypeOK, TypeOK', PubOK, PubOK', NEW s \in Subs, PlaceInv(s), CountInv(s),
           NEW d \in InWaiting(s), InWaiting(s)' = InWaiting(s) \ {d},
           handed'[s] = handed[s], superseded'[s] = superseded[s],
           Settled(s)' = Settled(s) + 1
    PROVE  CountInv(s)'
<1>1. Overwritten(s)' = Overwritten(s)
  BY DEF Overwritten
<1> QED BY <1>1, CountKept

\* Every step keeps each event of an open subscription in one place, and counts
\* the ones it drops.
LEMMA NextExact ==
    /\ TypeOK /\ PubOK /\ StampsInv /\ ExactInv
    /\ TypeOK' /\ PubOK' /\ [Next]_vars
    => ExactInv'
<1> SUFFICES ASSUME TypeOK, PubOK, StampsInv, ExactInv, TypeOK', PubOK', [Next]_vars,
                    NEW s \in Subs \ closed'
             PROVE  PlaceInv(s)' /\ CountInv(s)'
  BY DEF ExactInv
<1>1. closed \subseteq closed'
  BY DEF Next, vars, subVars, busVars, histVars, PublisherStep, FlushStep,
         RetryStep, Subscribe, Unregister, CloseSub, Publish, Snapshot, deliver,
         send, flush, flushSend, sendUndroppable, retryLater, giveUp, eventStream
<1>2. s \in Subs \ closed /\ PlaceInv(s) /\ CountInv(s)
  BY <1>1 DEF ExactInv
<1>3. CASE UNCHANGED <<pending, flushing, retrying, dropped, pub, histVars>>
  <2>1. \A e \in Event : InPublish(s, e)' <=> InPublish(s, e)
    BY <1>3 DEF InPublish
  <2> QED BY <1>2, <1>3, <2>1, QuietStep DEF Untouched, histVars
<1>4. ASSUME NEW p \in Publishers, NEW k \in Published, Publish(p, k)
      PROVE  PlaceInv(s)' /\ CountInv(s)'
  <2>1. /\ pub[p].todo = {} /\ pub[p].to = {}
        /\ pub'[p].todo = {} /\ pub'[p].to = {}
        /\ \A q \in Publishers \ {p} : pub'[q] = pub[q]
    BY <1>4 DEF Publish, PubOK, TypeOK
  <2>2. \A e \in Event : InPublish(s, e)' <=> InPublish(s, e)
    BY <2>1 DEF InPublish
  <2>3. UNCHANGED <<pending, flushing, retrying, dropped, histVars>>
    BY <1>4 DEF Publish, subVars
  <2> QED BY <1>2, <2>2, <2>3, QuietStep DEF Untouched, histVars
<1>5. ASSUME NEW p \in Publishers, Snapshot(p) PROVE PlaceInv(s)' /\ CountInv(s)'
  <2> DEFINE todo == {t \in live : wants(t, pub[p].ev.kind)}
             d == pub[p].ev
  <2>1. /\ pub[p].at = "stamped" /\ d \in Event /\ pub[p].todo = {} /\ pub[p].to = {}
        /\ Advance(p, todo) /\ todo \in SUBSET Subs
        /\ UNCHANGED <<pending, flushing, retrying, dropped, delivered, superseded>>
        /\ handed'[s] = IF s \in todo THEN handed[s] \cup {d} ELSE handed[s]
    BY <1>5 DEF Snapshot, PubOK, TypeOK, subVars
  <2> HIDE DEF todo
  <2>2. /\ \A q \in Publishers \ {p} : pub'[q] = pub[q]
        /\ s \in pub'[p].todo \cup pub'[p].to <=> s \in todo
        /\ s \in todo => pub'[p].ev = d
    BY <2>1 DEF Advance, TypeOK, Idle
  <2>3. \A e \in Event : InPublish(s, e)' <=> InPublish(s, e) \/ (s \in todo /\ e = d)
    BY <2>1, <2>2 DEF InPublish
  <2>4. CASE s \notin todo
    BY <1>2, <2>1, <2>3, <2>4, QuietStep DEF Untouched
  <2>5. CASE s \in todo
    <3>1. d \notin handed[s]
      BY <2>1 DEF StampsInv
    <3>2. \A e \in Event : /\ InHeld(s, e)' <=> InHeld(s, e)
                           /\ InFlush(s, e)' <=> InFlush(s, e)
                           /\ InRetry(s, e)' <=> InRetry(s, e)
                           /\ InSuperseded(s, e)' <=> InSuperseded(s, e)
      BY <2>1 DEF InHeld, InFlush, InRetry, InSuperseded
    <3>3. ~Placed(s, d)
      BY <1>2, <2>1, <3>1 DEF PlaceInv, OncePlaced
    <3>4. \A e \in Event : OncePlaced(s, e)'
      BY <1>2, <2>1, <2>3, <2>5, <3>2, <3>3 DEF PlaceInv, OncePlaced, Placed
    <3>5. PlaceInv(s)'
      BY <1>2, <2>1, <3>4 DEF PlaceInv
    <3>6. InWaiting(s)' = InWaiting(s) \cup {d}
      BY <2>1, <2>3, <2>5, <3>2 DEF InWaiting
    <3>7. Overwritten(s)' = Overwritten(s) /\ Settled(s)' = Settled(s)
      BY <2>1 DEF Overwritten, Settled
    <3>8. handed'[s] = handed[s] \cup {d}
      BY <2>1, <2>5
    <3> QED BY <1>2, <3>1, <3>5, <3>6, <3>7, <3>8, CountKept
  <2> QED BY <2>4, <2>5
<1>6. ASSUME NEW p \in Publishers, NEW t \in Subs, deliver(p, t)
      PROVE  PlaceInv(s)' /\ CountInv(s)'
  <2> DEFINE d == pub[p].ev
  <2>1. /\ pub[p].at = "deliver" /\ d \in Event /\ pub[p].to = {} /\ t \in pub[p].todo
        /\ UNCHANGED <<flushing, retrying, dropped, handed, delivered>>
    BY <1>6 DEF deliver, PubOK
  <2>2. ASSUME Advance(p, pub[p].todo \ {t}), NEW e \in Event
        PROVE  InPublish(s, e)' <=> InPublish(s, e) /\ ~(s = t /\ e = d)
    BY <2>1, <2>2, AdvancePlaces
  <2>3. CASE t \in closed
    <3>1. Advance(p, pub[p].todo \ {t}) /\ UNCHANGED <<pending, superseded>> /\ s # t
      BY <1>2, <1>6, <2>3 DEF deliver
    <3> QED BY <1>2, <2>1, <2>2, <3>1, QuietStep DEF Untouched
  <2>4. CASE Advance(p, pub[p].todo \ {t}) /\ hold(t, d) /\ s # t
    <3>1. pending'[s] = pending[s] /\ superseded'[s] = superseded[s]
      BY <2>4 DEF hold, TypeOK
    <3> QED BY <1>2, <2>1, <2>2, <2>4, <3>1, QuietStep DEF Untouched
  <2>5. CASE Advance(p, pub[p].todo \ {t}) /\ hold(t, d) /\ s = t
    <3> DEFINE old == pending[s][d.kind]
    <3>1. d.kind \in Kinds /\ old \in Event \cup {NoEvent} /\ NoEvent \notin Event
      BY <2>1, NoEventAssumption DEF Event, TypeOK
    <3>2. \A k \in Kinds : pending'[s][k] = IF k = d.kind THEN d ELSE pending[s][k]
      BY <2>5, <3>1 DEF hold, TypeOK
    <3>3. superseded'[s] = IF old # NoEvent THEN superseded[s] \cup {<<old, d>>}
                           ELSE superseded[s]
      BY <2>5 DEF hold, TypeOK
    <3>4. InPublish(s, d)
      BY <2>1, <2>5 DEF InPublish
    <3>5. \A k \in Kinds : pending[s][k] # NoEvent => pending[s][k].kind = k
      BY <1>2 DEF PlaceInv
    <3>6. \A e \in Event : InHeld(s, e)' <=> e = d \/ (InHeld(s, e) /\ e # old)
      <4> SUFFICES ASSUME NEW e \in Event
                   PROVE  InHeld(s, e)' <=> e = d \/ (InHeld(s, e) /\ e # old)
        OBVIOUS
      <4>1. InHeld(s, e)' => e = d \/ (InHeld(s, e) /\ e # old)
        BY <3>1, <3>2, <3>5 DEF InHeld
      <4>2. e = d \/ (InHeld(s, e) /\ e # old) => InHeld(s, e)'
        BY <3>1, <3>2 DEF InHeld
      <4> QED BY <4>1, <4>2
    <3>7. \A e \in Event :
              InSuperseded(s, e)' <=> InSuperseded(s, e) \/ (old # NoEvent /\ e = old)
      <4>1. \A x : x \in superseded'[s]
                   <=> x \in superseded[s] \/ (old # NoEvent /\ x = <<old, d>>)
        BY <3>3
      <4>2. <<old, d>>[1] = old
        OBVIOUS
      <4> HIDE DEF old, d
      <4> QED BY <4>1, <4>2 DEF InSuperseded
    <3>8. \A e \in Event : /\ InFlush(s, e)' <=> InFlush(s, e)
                           /\ InRetry(s, e)' <=> InRetry(s, e)
                           /\ InPublish(s, e)' <=> InPublish(s, e) /\ e # d
      BY <2>1, <2>2, <2>5 DEF InFlush, InRetry
    <3>9. old # NoEvent => old \in Event /\ InHeld(s, old)
      BY <3>1 DEF InHeld
    <3>10. \A e \in Event : OncePlaced(s, e)
      BY <1>2 DEF PlaceInv
    <3> HIDE DEF old, d
    <3>11. \A e \in Event : OncePlaced(s, e)'
      BY <2>1, <3>4, <3>6, <3>7, <3>8, <3>9, <3>10 DEF OncePlaced, Placed
    <3>12. PlaceInv(s)'
      BY <1>2, <2>1, <3>2, <3>11 DEF PlaceInv
    <3>13. Settled(s)' = Settled(s) /\ handed'[s] = handed[s]
      BY <2>1 DEF Settled
    <3>14. \A e : e \in Overwritten(s)' <=> e \in Overwritten(s) \/ (old # NoEvent /\ e = old)
      <4>1. \A x : x \in superseded'[s]
                   <=> x \in superseded[s] \/ (old # NoEvent /\ x = <<old, d>>)
        BY <3>3
      <4>2. <<old, d>>[1] = old
        OBVIOUS
      <4> QED BY <4>1, <4>2 DEF Overwritten
    <3>15. CASE old = NoEvent
      <4>1. InWaiting(s)' = InWaiting(s)
        BY <2>1, <3>1, <3>4, <3>6, <3>8, <3>15 DEF InWaiting
      <4>2. Overwritten(s)' = Overwritten(s)
        BY <3>14, <3>15
      <4> QED BY <1>2, <3>12, <3>13, <4>1, <4>2, CountKept
    <3>16. CASE old # NoEvent
      <4>1. OncePlaced(s, old) /\ old # d
        BY <2>1, <3>4, <3>9, <3>10, <3>16 DEF OncePlaced
      <4>2. InWaiting(s)' = InWaiting(s) \ {old} /\ old \in InWaiting(s)
        BY <2>1, <3>4, <3>6, <3>8, <3>9, <3>16, <4>1 DEF InWaiting, OncePlaced
      <4>3. Overwritten(s)' = Overwritten(s) \cup {old}
        BY <3>14, <3>16
      <4> QED BY <1>2, <3>12, <3>13, <4>2, <4>3, CountKept
    <3> QED BY <3>15, <3>16
  <2>6. CASE /\ pub' = [pub EXCEPT ![p].at = "send", ![p].to = {t},
                                   ![p].todo = @ \ {t}]
             /\ UNCHANGED <<pending, superseded>>
    <3>1. /\ pub'[p].ev = d /\ pub'[p].to = {t} /\ pub'[p].todo = pub[p].todo \ {t}
          /\ \A q \in Publishers \ {p} : pub'[q] = pub[q]
      BY <2>6 DEF TypeOK, PubState
    <3>2. \A e \in Event : InPublish(s, e)' <=> InPublish(s, e)
      BY <2>1, <3>1 DEF InPublish
    <3> QED BY <1>2, <2>1, <2>6, <3>2, QuietStep DEF Untouched
  <2> QED BY <1>6, <2>3, <2>4, <2>5, <2>6 DEF deliver
<1>7. ASSUME NEW p \in Publishers, NEW t \in Subs, send(p, t)
      PROVE  PlaceInv(s)' /\ CountInv(s)'
  <2> DEFINE d == pub[p].ev
  <2>1. /\ pub[p].at = "send" /\ d \in Event /\ pub[p].to = {t} /\ t \notin pub[p].todo
        /\ UNCHANGED <<pending, flushing, superseded, handed>>
    BY <1>7 DEF send, PubOK, StampsInv
  <2>2. pub[p].todo = pub[p].todo \ {t} /\ Advance(p, pub[p].todo)
    BY <1>7, <2>1 DEF send
  <2>3. \A e \in Event : InPublish(s, e)' <=> InPublish(s, e) /\ ~(s = t /\ e = d)
    BY <2>1, <2>2, AdvancePlaces
  <2>4. InPublish(t, d)
    BY <2>1 DEF InPublish
  <2>5. \A e \in Event : OncePlaced(s, e)
    BY <1>2 DEF PlaceInv
  <2>6. \A e \in Event : /\ InHeld(s, e)' <=> InHeld(s, e)
                         /\ InFlush(s, e)' <=> InFlush(s, e)
                         /\ InSuperseded(s, e)' <=> InSuperseded(s, e)
    BY <2>1 DEF InHeld, InFlush, InSuperseded
  <2>7. CASE push(t, d) /\ UNCHANGED retrying
    <3>1. CASE s # t
      <4>1. delivered'[s] = delivered[s] /\ dropped'[s] = dropped[s]
        BY <1>2, <2>1, <2>7, <3>1, PushSettles
      <4> QED BY <1>2, <2>1, <2>3, <2>7, <3>1, <4>1, QuietStep DEF Untouched
    <3>2. CASE s = t
      <4>1. Settled(s)' = Settled(s) + 1
        BY <1>2, <2>1, <2>7, <3>2, PushSettles
      <4>2. \A e \in Event : InRetry(s, e)' <=> InRetry(s, e)
        BY <2>7 DEF InRetry
      <4>3. InWaiting(s)' = InWaiting(s) \ {d} /\ d \in InWaiting(s)
        BY <2>1, <2>3, <2>4, <2>5, <2>6, <3>2, <4>2 DEF InWaiting, OncePlaced
      <4>4. \A e \in Event : OncePlaced(s, e)'
        BY <2>1, <2>3, <2>5, <2>6, <4>2 DEF OncePlaced, Placed
      <4>5. PlaceInv(s)'
        BY <1>2, <2>1, <2>7, <4>4 DEF PlaceInv
      <4> QED BY <1>2, <2>1, <4>1, <4>3, <4>5, SettleStep
    <3> QED BY <3>1, <3>2
  <2>8. CASE /\ retrying' = [retrying EXCEPT ![t] =
                    @ \cup {[ev |-> d, tried |-> FALSE]}]
             /\ UNCHANGED <<dropped, delivered>>
    <3>1. CASE s # t
      <4>1. retrying'[s] = retrying[s]
        BY <2>8, <3>1 DEF TypeOK
      <4> QED BY <1>2, <2>1, <2>3, <2>8, <3>1, <4>1, QuietStep DEF Untouched
    <3>2. CASE s = t
      <4>1. retrying'[s] = retrying[s] \cup {[ev |-> d, tried |-> FALSE]}
        BY <2>8, <3>2 DEF TypeOK
      <4> DEFINE x == [ev |-> d, tried |-> FALSE]
      <4>0. x.ev = d /\ \A y : y \in retrying'[s] <=> y \in retrying[s] \/ y = x
        BY <4>1
      <4> HIDE DEF x, d
      <4>2. \A e \in Event : InRetry(s, e)' <=> InRetry(s, e) \/ e = d
        BY <4>0 DEF InRetry
      <4>3. InWaiting(s)' = InWaiting(s)
        BY <2>1, <2>3, <2>4, <2>6, <3>2, <4>2 DEF InWaiting
      <4>4. \A e \in Event : OncePlaced(s, e)'
        BY <2>1, <2>3, <2>4, <2>5, <2>6, <3>2, <4>2 DEF OncePlaced, Placed
      <4>5. ~InRetry(s, d)
        BY <2>1, <2>4, <2>5, <3>2 DEF OncePlaced
      <4>6. \A q, r \in retrying'[s] : q.ev = r.ev => q = r
        BY <1>2, <4>0, <4>5 DEF PlaceInv, InRetry
      <4>7. PlaceInv(s)'
        BY <1>2, <2>1, <4>4, <4>6 DEF PlaceInv
      <4>8. Overwritten(s)' = Overwritten(s) /\ Settled(s)' = Settled(s)
        BY <2>1, <2>8 DEF Overwritten, Settled
      <4> QED BY <1>2, <2>1, <4>3, <4>7, <4>8, CountKept
    <3> QED BY <3>1, <3>2
  <2> QED BY <1>7, <2>7, <2>8 DEF send
<1>8. ASSUME NEW t \in Subs, flush(t) PROVE PlaceInv(s)' /\ CountInv(s)'
  <2>1. UNCHANGED <<retrying, dropped, pub, handed, delivered, superseded>>
    BY <1>8 DEF flush, busVars, histVars
  <2>2. \A e \in Event : /\ InRetry(s, e)' <=> InRetry(s, e)
                         /\ InPublish(s, e)' <=> InPublish(s, e)
                         /\ InSuperseded(s, e)' <=> InSuperseded(s, e)
    BY <2>1 DEF InRetry, InPublish, InSuperseded
  <2>3. CASE s # t
    <3>1. pending'[s] = pending[s] /\ flushing'[s] = flushing[s]
      BY <1>8, <2>3 DEF flush, TypeOK
    <3> QED BY <1>2, <2>1, <2>2, <3>1, QuietStep DEF Untouched
  <2>4. CASE s = t
    <3>1. /\ \A k \in Kinds : pending'[s][k] = NoEvent
          /\ flushing'[s] = flushing[s] \cup ({Held(s)} \ {{}})
      BY <1>8, <2>4 DEF flush, TypeOK
    <3>2. \A e \in Event : e \in Held(s) <=> InHeld(s, e)
      BY NoEventAssumption DEF Held, InHeld
    <3>3. \A e \in Event : ~InHeld(s, e)'
      BY <3>1, NoEventAssumption DEF InHeld
    <3>4. \A e \in Event : InFlush(s, e)' <=> InFlush(s, e) \/ InHeld(s, e)
      BY <3>1, <3>2 DEF InFlush
    <3>5. \A e \in Event : OncePlaced(s, e)
      BY <1>2 DEF PlaceInv
    <3>6. \A e \in Event : OncePlaced(s, e)'
      BY <2>1, <2>2, <3>3, <3>4, <3>5 DEF OncePlaced, Placed
    <3>7. \A b, c \in flushing'[s] : b # c => b \cap c = {}
      <4>1. \A b \in flushing[s] : b \subseteq Event /\ b \cap Held(s) = {}
        BY <3>2, <3>5 DEF OncePlaced, InFlush, TypeOK
      <4>2. \A b, c \in flushing[s] : b # c => b \cap c = {}
        BY <1>2 DEF PlaceInv
      <4> QED BY <3>1, <4>1, <4>2
    <3>8. PlaceInv(s)'
      BY <1>2, <2>1, <3>1, <3>6, <3>7 DEF PlaceInv
    <3>9. InWaiting(s)' = InWaiting(s)
      BY <2>2, <3>3, <3>4 DEF InWaiting
    <3>10. Overwritten(s)' = Overwritten(s) /\ Settled(s)' = Settled(s)
      BY <2>1 DEF Overwritten, Settled
    <3> QED BY <1>2, <2>1, <3>8, <3>9, <3>10, CountKept
  <2> QED BY <2>3, <2>4
<1>9. ASSUME NEW t \in Subs, NEW b \in flushing[t], NEW d \in b, flushSend(t, b, d)
      PROVE  PlaceInv(s)' /\ CountInv(s)'
  <2>1. /\ d \in Event /\ push(t, d)
        /\ UNCHANGED <<pending, retrying, pub, handed, superseded>>
    BY <1>9 DEF flushSend, TypeOK, busVars
  <2>2. \A e \in Event : /\ InHeld(s, e)' <=> InHeld(s, e)
                         /\ InRetry(s, e)' <=> InRetry(s, e)
                         /\ InPublish(s, e)' <=> InPublish(s, e)
                         /\ InSuperseded(s, e)' <=> InSuperseded(s, e)
    BY <2>1 DEF InHeld, InRetry, InPublish, InSuperseded
  <2>3. CASE s # t
    <3>1. flushing'[s] = flushing[s]
      BY <1>9, <2>3 DEF flushSend, TypeOK
    <3>2. delivered'[s] = delivered[s] /\ dropped'[s] = dropped[s]
      BY <1>2, <2>1, <2>3, PushSettles
    <3> QED BY <1>2, <2>1, <2>2, <3>1, <3>2, QuietStep DEF Untouched
  <2>4. CASE s = t
    <3>1. flushing'[s] = (flushing[s] \ {b}) \cup ({b \ {d}} \ {{}})
      BY <1>9, <2>4 DEF flushSend, TypeOK
    <3>2. \A c, f \in flushing[s] : c # f => c \cap f = {}
      BY <1>2 DEF PlaceInv
    <3>3. \A e \in Event : InFlush(s, e)' <=> InFlush(s, e) /\ e # d
      <4> SUFFICES ASSUME NEW e \in Event
                   PROVE  InFlush(s, e)' <=> InFlush(s, e) /\ e # d
        OBVIOUS
      <4>1. InFlush(s, e)' => InFlush(s, e) /\ e # d
        BY <2>4, <3>1, <3>2 DEF InFlush
      <4>2. ASSUME NEW c \in flushing[s], e \in c, e # d PROVE InFlush(s, e)'
        <5>1. CASE c = b
          <6>1. e \in b \ {d} /\ b \ {d} \in flushing'[s]
            BY <3>1, <4>2, <5>1
          <6> QED BY <6>1 DEF InFlush
        <5>2. CASE c # b
          BY <3>1, <4>2, <5>2 DEF InFlush
        <5> QED BY <5>1, <5>2
      <4> QED BY <4>1, <4>2 DEF InFlush
    <3>4. InFlush(s, d)
      BY <2>4 DEF InFlush
    <3>5. \A e \in Event : OncePlaced(s, e)
      BY <1>2 DEF PlaceInv
    <3>6. \A e \in Event : OncePlaced(s, e)'
      BY <2>1, <2>2, <3>3, <3>5 DEF OncePlaced, Placed
    <3>7. \A c, f \in flushing'[s] : c # f => c \cap f = {}
      BY <2>4, <3>1, <3>2
    <3>8. PlaceInv(s)'
      BY <1>2, <2>1, <3>6, <3>7 DEF PlaceInv
    <3>9. InWaiting(s)' = InWaiting(s) \ {d} /\ d \in InWaiting(s)
      BY <2>1, <2>2, <3>3, <3>4, <3>5 DEF InWaiting, OncePlaced
    <3>10. Settled(s)' = Settled(s) + 1
      BY <1>2, <2>1, <2>4, PushSettles
    <3> QED BY <1>2, <2>1, <3>8, <3>9, <3>10, SettleStep
  <2> QED BY <2>3, <2>4
<1>10. ASSUME NEW t \in Subs, NEW r \in retrying[t],
              sendUndroppable(t, r) \/ retryLater(t, r) \/ giveUp(t, r)
       PROVE  PlaceInv(s)' /\ CountInv(s)'
  <2>1. /\ r \in [ev : Event, tried : BOOLEAN]
        /\ UNCHANGED <<pending, flushing, pub, handed, superseded>>
    BY <1>10 DEF sendUndroppable, retryLater, giveUp, busVars, histVars, TypeOK
  <2>2. \A e \in Event : /\ InHeld(s, e)' <=> InHeld(s, e)
                         /\ InFlush(s, e)' <=> InFlush(s, e)
                         /\ InPublish(s, e)' <=> InPublish(s, e)
                         /\ InSuperseded(s, e)' <=> InSuperseded(s, e)
    BY <2>1 DEF InHeld, InFlush, InPublish, InSuperseded
  <2>3. CASE s # t
    <3>1. /\ \E X : retrying' = [retrying EXCEPT ![t] = X]
          /\ \/ delivered' = delivered
             \/ delivered' = [delivered EXCEPT ![t] = Append(@, r.ev)]
          /\ dropped' = dropped \/ dropped' = [dropped EXCEPT ![t] = @ + 1]
      BY <1>10 DEF sendUndroppable, retryLater, giveUp, histVars
    <3>2. /\ retrying'[s] = retrying[s] /\ delivered'[s] = delivered[s]
          /\ dropped'[s] = dropped[s]
      BY <2>3, <3>1 DEF TypeOK
    <3> QED BY <1>2, <2>1, <2>2, <3>2, QuietStep DEF Untouched
  <2>4. CASE s = t
    <3>1. \A e \in Event : OncePlaced(s, e)
      BY <1>2 DEF PlaceInv
    <3>2. \A q, u \in retrying[s] : q.ev = u.ev => q = u
      BY <1>2 DEF PlaceInv
    <3>3. InRetry(s, r.ev) /\ r.ev \in Event
      BY <2>1, <2>4 DEF InRetry
    <3>4. ASSUME NEW b \in BOOLEAN, UNCHANGED <<delivered, dropped>>,
                 retrying'[s] = (retrying[s] \ {r}) \cup {[r EXCEPT !.tried = b]}
          PROVE  PlaceInv(s)' /\ CountInv(s)'
      <4>1. [r EXCEPT !.tried = b].ev = r.ev
        BY <2>1
      <4>2. \A e \in Event : InRetry(s, e)' <=> InRetry(s, e)
        BY <2>4, <3>4, <4>1 DEF InRetry
      <4>3. \A e \in Event : OncePlaced(s, e)'
        BY <2>1, <2>2, <3>1, <4>2 DEF OncePlaced, Placed
      <4>4. \A q, u \in retrying'[s] : q.ev = u.ev => q = u
        BY <2>4, <3>2, <3>4, <4>1
      <4>5. PlaceInv(s)'
        BY <1>2, <2>1, <4>3, <4>4 DEF PlaceInv
      <4>6. InWaiting(s)' = InWaiting(s)
        BY <2>2, <4>2 DEF InWaiting
      <4>7. Overwritten(s)' = Overwritten(s) /\ Settled(s)' = Settled(s)
        BY <2>1, <3>4 DEF Overwritten, Settled
      <4> QED BY <1>2, <2>1, <4>5, <4>6, <4>7, CountKept
    <3>5. ASSUME retrying'[s] = retrying[s] \ {r}, Settled(s)' = Settled(s) + 1
          PROVE  PlaceInv(s)' /\ CountInv(s)'
      <4>1. \A e \in Event : InRetry(s, e)' <=> InRetry(s, e) /\ e # r.ev
        BY <2>4, <3>2, <3>5 DEF InRetry
      <4>2. \A e \in Event : OncePlaced(s, e)'
        BY <2>1, <2>2, <3>1, <4>1 DEF OncePlaced, Placed
      <4>3. PlaceInv(s)'
        BY <1>2, <2>1, <3>2, <3>5, <4>2 DEF PlaceInv
      <4>4. InWaiting(s)' = InWaiting(s) \ {r.ev} /\ r.ev \in InWaiting(s)
        BY <2>2, <3>1, <3>3, <4>1 DEF InWaiting, OncePlaced
      <4> QED BY <1>2, <2>1, <3>5, <4>3, <4>4, SettleStep
    <3>6. /\ Len(delivered[s]) \in Nat /\ dropped[s] \in Nat /\ delivered[s] \in Seq(Event)
          /\ Len(Append(delivered[s], r.ev)) = Len(delivered[s]) + 1
      BY <3>3 DEF TypeOK
    <3>7. CASE giveUp(t, r)
      <4>1. /\ retrying'[s] = retrying[s] \ {r} /\ dropped'[s] = dropped[s] + 1
            /\ delivered' = delivered
        BY <2>4, <3>7 DEF giveUp, TypeOK
      <4> QED BY <3>5, <3>6, <4>1 DEF Settled
    <3>8. CASE retryLater(t, r)
      <4>1. /\ retrying'[s] = (retrying[s] \ {r}) \cup {[r EXCEPT !.tried = FALSE]}
            /\ UNCHANGED <<delivered, dropped>>
        BY <2>4, <3>8 DEF retryLater, TypeOK, histVars
      <4> QED BY <3>4, <4>1
    <3>9. CASE sendUndroppable(t, r)
      <4>1. CASE /\ delivered' = [delivered EXCEPT ![t] = Append(@, r.ev)]
                 /\ retrying' = [retrying EXCEPT ![t] = @ \ {r}]
        <5>1. /\ retrying'[s] = retrying[s] \ {r} /\ dropped'[s] = dropped[s]
              /\ delivered'[s] = Append(delivered[s], r.ev)
          BY <2>4, <3>9, <4>1 DEF sendUndroppable, TypeOK
        <5>2. Len(delivered'[s]) = Len(delivered[s]) + 1
          BY <3>6, <5>1
        <5>3. Settled(s)' = Settled(s) + 1
          BY <3>6, <5>1, <5>2 DEF Settled
        <5> QED BY <3>5, <5>1, <5>3
      <4>2. CASE /\ retrying' = [retrying EXCEPT ![t] =
                        (@ \ {r}) \cup {[r EXCEPT !.tried = TRUE]}]
                 /\ UNCHANGED delivered
        <5>1. /\ retrying'[s] = (retrying[s] \ {r}) \cup {[r EXCEPT !.tried = TRUE]}
              /\ UNCHANGED <<delivered, dropped>>
          BY <2>4, <3>9, <4>2 DEF sendUndroppable, TypeOK
        <5> QED BY <3>4, <5>1
      <4> QED BY <1>2, <2>4, <3>9, <4>1, <4>2 DEF sendUndroppable
    <3> QED BY <1>10, <3>7, <3>8, <3>9
  <2> QED BY <2>3, <2>4
<1>11. CASE UNCHANGED vars
  BY <1>3, <1>11 DEF vars, busVars, subVars
<1>12. ASSUME NEW t \in Subs,
              Subscribe(t) \/ Unregister(t) \/ CloseSub(t) \/ eventStream(t)
       PROVE  UNCHANGED <<pending, flushing, retrying, dropped, pub, histVars>>
  BY <1>12 DEF Subscribe, Unregister, CloseSub, eventStream, subVars, busVars
<1> QED BY <1>3, <1>4, <1>5, <1>6, <1>7, <1>8, <1>9, <1>10, <1>11, <1>12
        DEF Next, PublisherStep, FlushStep, RetryStep

\* On a new bus nothing has been published, held or counted.
LEMMA InitExact == Init => StampsInv /\ ExactInv
<1> SUFFICES ASSUME Init PROVE StampsInv /\ ExactInv
  OBVIOUS
<1>1. StampsInv
  BY DEF Init, StampsInv, Idle
<1>2. ASSUME NEW s \in Subs PROVE PlaceInv(s) /\ CountInv(s)
  <2>1. \A e \in Event : ~Placed(s, e)
    BY NoEventAssumption DEF Init, Placed, InHeld, InFlush, InRetry, InPublish,
                             InSuperseded, Idle
  <2>2. PlaceInv(s)
    BY <2>1 DEF Init, PlaceInv, OncePlaced, Placed
  <2>3. Waiting(s) = {}
    BY DEF Init, Waiting, Held, Idle
  <2>4. Overwritten(s) = {} /\ handed[s] = {} /\ Len(delivered[s]) = 0 /\ dropped[s] = 0
    BY DEF Init, Overwritten
  <2> QED BY <2>2, <2>3, <2>4, FS_EmptySet DEF CountInv
<1> QED BY <1>1, <1>2 DEF ExactInv

\* The counter an open subscription reports is exactly the number of events it
\* was handed and will not get, and whatever is held will be flushed.
THEOREM CountersAreExact == Spec => []EventsAreCounted
<1> DEFINE I == TypeOK /\ PubOK /\ ArmedInv /\ StampsInv /\ ExactInv
<1>1. Init => I
  BY InitTypeOK, InitArmed, InitExact
<1>2. I /\ [Next]_vars => I'
  BY NextTypeOK, NextArmed, NextStamps, NextExact
<1>3. I => EventsAreCounted
  BY DEF EventsAreCounted, ArmedInv, ExactInv, CountInv, DroppedIsExact, Overwritten
<1> QED BY <1>1, <1>2, <1>3, PTL DEF Spec
=============================================================================
