---------------------------- MODULE DaemonProofs ----------------------------
(***************************************************************************)
(* Proofs about the four parts of MCDaemon, the registry of campaigns, the *)
(* synchronisation of the workers' corpora, the counters with their        *)
(* history and the guidance by states, for any requests, names,            *)
(* directories, workers, discoveries, intervals and targets, and any       *)
(* bounds.                                                                 *)
(***************************************************************************)
EXTENDS MCDaemon, FiniteSetTheorems, SequenceTheorems, WellFoundedInduction, TLAPS

-----------------------------------------------------------------------------
(* The registry (Registry).                                                  *)

\* The operations of a request that act for the name and directory it was given.
Building == {"createStore", "loadStore", "loadRow", "build", "insert", "register"}

ObjectType ==
    [state : {"none", "created", "running", "startFailed", "finished"},
     name : Names \cup {Nobody}, dir : Dirs \cup {Nobody},
     seed : Requests \cup {Nobody}]

RequestType ==
    [op : {"idle", "done", "start", "stop"} \cup Building,
     name : Names \cup {Nobody}, dir : Dirs \cup {Nobody},
     on : Requests \cup {Nobody}]

RegTypes ==
    /\ campaigns \in [Names -> Requests \cup {Nobody}]
    /\ stores \in [Dirs -> {"none", "open", "closed"}]
    /\ opened \in [Dirs -> Nat]
    /\ rows \in [Dirs -> [Names -> Requests \cup {Nobody}]]
    /\ object \in [Requests -> ObjectType]
    /\ request \in [Requests -> RequestType]
    /\ daemon \in {"up", "campaigns", "closed"}
    /\ closing \in [cs : SUBSET Requests, stores : SUBSET Dirs]

Exists(o) == o \in Requests /\ object[o].state # "none"

\* A directory is opened at most once, and only storeAt opens one.
OpenedOnce == \A d \in Dirs : opened[d] <= 1 /\ (stores[d] = "none" => opened[d] = 0)

\* What each request has in hand.
RequestsHold ==
    \A r \in Requests :
        /\ request[r].op \in Building => request[r].name \in Names /\ request[r].dir \in Dirs
        /\ request[r].op = "register" => Exists(r)
        /\ request[r].op \in {"start", "stop"} => Exists(request[r].on)

\* What is registered, and what Close is going to stop, are campaigns.
HeldExist ==
    /\ \A n \in Names : campaigns[n] # Nobody => Exists(campaigns[n])
    /\ \A o \in closing.cs : Exists(o)

\* A campaign has the seed of its row, and its row is taken.
SeedsAreRows ==
    \A r \in Requests : object[r].state # "none" =>
        /\ object[r].name \in Names /\ object[r].dir \in Dirs
        /\ object[r].seed \in Requests
        /\ object[r].seed = rows[object[r].dir][object[r].name]

RegInv == RegTypes /\ OpenedOnce /\ RequestsHold /\ HeldExist /\ SeedsAreRows

\* A daemon that has just been created has opened and loaded nothing.
LEMMA InitRegInv == Init => RegInv
<1> SUFFICES ASSUME Reg!Init PROVE RegInv
  BY DEF Init
<1>1. RegTypes
  BY DEF Reg!Init, Reg!NoObject, Reg!Idle, RegTypes, ObjectType, RequestType
<1> QED BY <1>1 DEF Reg!Init, Reg!NoObject, Reg!Idle, RegInv, OpenedOnce, RequestsHold,
                    HeldExist, SeedsAreRows, Building, Exists

\* A request's next operation, whatever else the step does.
LEMMA GotoKeeps ==
    ASSUME RegTypes, NEW r \in Requests,
           NEW op \in {"idle", "done", "start", "stop"} \cup Building, Reg!Goto(r, op)
    PROVE  /\ request' \in [Requests -> RequestType]
           /\ \A q \in Requests \ {r} : request'[q] = request[q]
           /\ request'[r].op = op /\ request'[r].name = request[r].name
           /\ request'[r].dir = request[r].dir /\ request'[r].on = request[r].on
BY DEF RegTypes, RequestType, Reg!Goto

\* A step that lets no campaign cease to exist keeps what requests have in hand,
\* if it only moves one request on, and to a step it has the means for.
LEMMA RequestStep ==
    ASSUME RegTypes, RequestsHold, NEW r \in Requests,
           NEW op \in {"idle", "done"} \cup Building, Reg!Goto(r, op),
           op \in Building => request[r].op \in Building,
           op = "register" => Exists(r)',
           \A o \in Requests : Exists(o) => Exists(o)'
    PROVE  RequestsHold'
<1>1. /\ \A q \in Requests \ {r} : request'[q] = request[q]
      /\ request'[r].op = op /\ request'[r].name = request[r].name
      /\ request'[r].dir = request[r].dir
  BY GotoKeeps
<1>2. \A o : Exists(o) => Exists(o)'
  BY DEF Exists
<1>3. op \notin {"start", "stop"}
  BY DEF Building
<1> QED BY <1>1, <1>2, <1>3 DEF RequestsHold

\* A step that leaves the table and the campaigns as they are, and closing too.
LEMMA HeldStays ==
    ASSUME HeldExist, UNCHANGED <<campaigns, object, closing>>
    PROVE  HeldExist'
BY DEF HeldExist, Exists

\* Changing the state of one existing campaign.
LEMMA StateStep ==
    ASSUME RegTypes, SeedsAreRows, NEW o \in Requests, Exists(o),
           NEW x \in {"created", "running", "startFailed", "finished"},
           object' = [object EXCEPT ![o].state = x], rows' = rows
    PROVE  /\ object' \in [Requests -> ObjectType] /\ SeedsAreRows'
           /\ \A q \in Requests : Exists(q) => Exists(q)'
<1>1. /\ \A q \in Requests \ {o} : object'[q] = object[q]
      /\ object'[o].state = x /\ object'[o].name = object[o].name
      /\ object'[o].dir = object[o].dir /\ object'[o].seed = object[o].seed
  BY DEF RegTypes, ObjectType
<1>2. object' \in [Requests -> ObjectType]
  <2>1. [object[o] EXCEPT !.state = x] \in ObjectType
    <3>1. PICK b \in ObjectType : b = object[o]
      BY DEF RegTypes
    <3>2. [b EXCEPT !.state = x] \in ObjectType
      BY DEF ObjectType
    <3> QED BY <3>1, <3>2
  <2>2. object' = [object EXCEPT ![o] = [object[o] EXCEPT !.state = x]]
    BY DEF RegTypes
  <2> QED BY <2>1, <2>2 DEF RegTypes
<1>3. SeedsAreRows'
  BY <1>1 DEF SeedsAreRows, Exists
<1> QED BY <1>1, <1>2, <1>3 DEF Exists

\* Building the campaign of a request, under the seed its row records.
LEMMA BuiltStep ==
    ASSUME RegTypes, SeedsAreRows, NEW r \in Requests, NEW seed \in Requests,
           request[r].name \in Names, request[r].dir \in Dirs,
           Reg!Built(r, seed), rows' \in [Dirs -> [Names -> Requests \cup {Nobody}]],
           rows'[request[r].dir][request[r].name] = seed,
           \A d \in Dirs, n \in Names : rows[d][n] # Nobody => rows'[d][n] = rows[d][n]
    PROVE  /\ object' \in [Requests -> ObjectType] /\ SeedsAreRows'
           /\ Exists(r)' /\ \A q \in Requests : Exists(q) => Exists(q)'
<1>1. /\ object'[r] = [state |-> "created", name |-> request[r].name,
                       dir |-> request[r].dir, seed |-> seed]
      /\ \A q \in Requests \ {r} : object'[q] = object[q]
  BY DEF Reg!Built, RegTypes
<1>2. object'[r] \in ObjectType
  BY <1>1 DEF ObjectType
<1>3. object' \in [Requests -> ObjectType]
  BY <1>2 DEF Reg!Built, RegTypes
<1>4. SeedsAreRows'
  <2> SUFFICES ASSUME NEW q \in Requests, object'[q].state # "none"
               PROVE  /\ object'[q].name \in Names /\ object'[q].dir \in Dirs
                      /\ object'[q].seed \in Requests
                      /\ object'[q].seed = rows'[object'[q].dir][object'[q].name]
    BY DEF SeedsAreRows
  <2>1. CASE q = r
    BY <1>1, <2>1
  <2>2. CASE q # r
    BY <1>1, <2>2, DaemonAssumption DEF SeedsAreRows
  <2> QED BY <2>1, <2>2
<1> QED BY <1>1, <1>3, <1>4 DEF Exists

\* Every step of the registry keeps the invariant.
LEMMA NextRegInv == RegInv /\ Reg!Next => RegInv'
<1> SUFFICES ASSUME RegInv, Reg!Next PROVE RegInv'
  OBVIOUS
<1> USE DEF RegInv
<1>e. "idle" \notin Building /\ "done" \notin Building
      /\ {"createStore", "loadStore", "loadRow", "build", "insert", "register"} = Building
  BY DEF Building
\* A step that only moves one request on.
<1>1. ASSUME NEW r \in Requests, NEW op \in {"done"} \cup (Building \ {"register"}),
             Reg!Goto(r, op), op \in Building => request[r].op \in Building,
             UNCHANGED <<campaigns, stores, opened, rows, object, daemon, closing>>
      PROVE  RegInv'
  <2>1. request' \in [Requests -> RequestType]
    BY <1>1, GotoKeeps
  <2>2. \A o \in Requests : Exists(o) => Exists(o)'
    BY <1>1 DEF Exists
  <2>3. RequestsHold'
    BY <1>1, <1>e, <2>2, RequestStep
  <2>4. HeldExist'
    BY <1>1, HeldStays
  <2> QED BY <1>1, <2>1, <2>3, <2>4 DEF RegTypes, OpenedOnce, SeedsAreRows
<1>2. ASSUME NEW r \in Requests, Reg!Fails(r) PROVE RegInv'
  BY <1>1, <1>2, <1>e DEF Reg!Fails
\* A request's first step replaces all of its local state.
<1>3. ASSUME NEW r \in Requests, NEW x \in RequestType,
             request' = [request EXCEPT ![r] = x],
             x.op \in Building => x.name \in Names /\ x.dir \in Dirs,
             x.op # "register", x.op \in {"start", "stop"} => Exists(x.on),
             UNCHANGED <<campaigns, stores, opened, rows, object, daemon, closing>>
      PROVE  RegInv'
  <2>1. /\ \A q \in Requests \ {r} : request'[q] = request[q]
        /\ request'[r] = x /\ request' \in [Requests -> RequestType]
    BY <1>3 DEF RegTypes
  <2>2. \A o : Exists(o)' <=> Exists(o)
    BY <1>3 DEF Exists
  <2>3. RequestsHold'
    BY <1>3, <2>1, <2>2 DEF RequestsHold
  <2>4. HeldExist'
    BY <1>3, HeldStays
  <2> QED BY <1>3, <2>1, <2>3, <2>4 DEF RegTypes, OpenedOnce, SeedsAreRows
<1>4. ASSUME NEW r \in Requests, NEW n \in Names, NEW d \in Dirs,
             Reg!Create(r, n, d) \/ Reg!Load(r, n, d)
      PROVE  RegInv'
  <2>1. PICK op \in {"done", "createStore", "loadStore"} :
            request' = [request EXCEPT ![r] = [op |-> op, name |-> n, dir |-> d, on |-> Nobody]]
    BY <1>4 DEF Reg!Create, Reg!Load
  <2>2. [op |-> op, name |-> n, dir |-> d, on |-> Nobody] \in RequestType
    BY <2>1 DEF RequestType, Building
  <2>3. UNCHANGED <<campaigns, stores, opened, rows, object, daemon, closing>>
    BY <1>4 DEF Reg!Create, Reg!Load
  <2> QED BY <1>3, <2>1, <2>2, <2>3
<1>5. ASSUME NEW r \in Requests, NEW n \in Names, NEW op \in {"start", "stop"},
             Reg!act(r, op, n)
      PROVE  RegInv'
  <2>1. PICK x : /\ x = [op |-> IF campaigns[n] = Nobody THEN "done" ELSE op,
                         name |-> n, dir |-> Nobody, on |-> campaigns[n]]
                 /\ request' = [request EXCEPT ![r] = x]
    BY <1>5 DEF Reg!act
  <2>2. x \in RequestType
    BY <2>1 DEF RequestType, RegTypes
  <2>3. x.op \notin Building /\ (x.op \in {"start", "stop"} => Exists(x.on)) /\ x.op # "register"
    BY <2>1 DEF HeldExist, Building
  <2>4. UNCHANGED <<campaigns, stores, opened, rows, object, daemon, closing>>
    BY <1>5 DEF Reg!act
  <2> QED BY <1>3, <2>1, <2>2, <2>3, <2>4
<1>6. ASSUME NEW r \in Requests, Reg!storeAt(r) PROVE RegInv'
  <2>1. request[r].op \in Building /\ request[r].dir \in Dirs
    BY <1>6, <1>e DEF Reg!storeAt, Reg!At, RequestsHold
  <2>2. PICK op \in {"loadRow", "build"} : Reg!Goto(r, op)
    BY <1>6 DEF Reg!storeAt
  <2>3. /\ stores' \in [Dirs -> {"none", "open", "closed"}] /\ opened' \in [Dirs -> Nat]
        /\ \A d \in Dirs : opened'[d] <= 1 /\ (stores'[d] = "none" => opened'[d] = 0)
    <3>1. PICK d \in Dirs : d = request[r].dir
      BY <2>1
    <3>2. /\ stores' = [stores EXCEPT ![d] = IF @ = "none" THEN "open" ELSE @]
          /\ opened' = [opened EXCEPT ![d] = IF stores[d] = "none" THEN @ + 1 ELSE @]
      BY <1>6, <3>1 DEF Reg!storeAt
    <3> QED BY <3>2 DEF RegTypes, OpenedOnce
  <2>4. UNCHANGED <<campaigns, rows, object, daemon, closing>>
    BY <1>6 DEF Reg!storeAt
  <2>5. request' \in [Requests -> RequestType]
    BY <1>e, <2>2, GotoKeeps
  <2>6. RequestsHold'
    <3>1. \A o \in Requests : Exists(o) => Exists(o)'
      BY <2>4 DEF Exists
    <3> QED BY <1>e, <2>1, <2>2, <3>1, RequestStep
  <2> QED BY <2>3, <2>4, <2>5, <2>6, HeldStays DEF RegTypes, OpenedOnce, SeedsAreRows
<1>7. ASSUME NEW r \in Requests, Reg!storeAtFails(r) PROVE RegInv'
  BY <1>2, <1>7 DEF Reg!storeAtFails
<1>8. ASSUME NEW r \in Requests, Reg!loadRow(r) PROVE RegInv'
  <2>1. CASE Reg!Fails(r)
    BY <1>2, <2>1
  <2>2. CASE ~Reg!Fails(r)
    BY <1>1, <1>8, <1>e, <2>2 DEF Reg!loadRow, Reg!At
  <2> QED BY <2>1, <2>2
\* A step that builds the request's campaign.
<1>9. ASSUME NEW r \in Requests, NEW seed \in Requests, request[r].op \in Building,
             Reg!Built(r, seed), Reg!Goto(r, "register"),
             rows' \in [Dirs -> [Names -> Requests \cup {Nobody}]],
             rows'[request[r].dir][request[r].name] = seed,
             \A d \in Dirs, n \in Names : rows[d][n] # Nobody => rows'[d][n] = rows[d][n],
             UNCHANGED <<campaigns, stores, opened, daemon, closing>>
      PROVE  RegInv'
  <2>1. request[r].name \in Names /\ request[r].dir \in Dirs
    BY <1>9 DEF RequestsHold
  <2>2. /\ object' \in [Requests -> ObjectType] /\ SeedsAreRows'
        /\ Exists(r)' /\ \A q \in Requests : Exists(q) => Exists(q)'
    BY <1>9, <2>1, BuiltStep
  <2>3. request' \in [Requests -> RequestType]
    BY <1>9, <1>e, GotoKeeps
  <2>4. RequestsHold'
    BY <1>9, <1>e, <2>2, RequestStep
  <2>5. HeldExist'
    BY <1>9, <2>2 DEF HeldExist, Exists
  <2> QED BY <1>9, <2>2, <2>3, <2>4, <2>5 DEF RegTypes, OpenedOnce
<1>10. ASSUME NEW r \in Requests, Reg!NewCampaign(r) PROVE RegInv'
  <2>1. request[r].op = "build" /\ request[r].op \in Building
    BY <1>10, <1>e DEF Reg!NewCampaign, Reg!At
  <2>2. request[r].name \in Names /\ request[r].dir \in Dirs
    BY <2>1 DEF RequestsHold
  <2>3. CASE Reg!Row(r) # Nobody
    <3>1. Reg!Row(r) \in Requests
      BY <2>2, <2>3 DEF Reg!Row, RegTypes
    <3>2. /\ Reg!Built(r, Reg!Row(r)) /\ Reg!Goto(r, "register")
          /\ UNCHANGED <<campaigns, stores, opened, rows, daemon, closing>>
      BY <1>10, <2>3 DEF Reg!NewCampaign
    <3>3. rows' \in [Dirs -> [Names -> Requests \cup {Nobody}]]
      BY <3>2 DEF RegTypes
    <3>4. rows'[request[r].dir][request[r].name] = Reg!Row(r)
      BY <3>2 DEF Reg!Row
    <3> QED BY <1>9, <2>1, <3>1, <3>2, <3>3, <3>4
  <2>4. CASE Reg!Row(r) = Nobody
    <3>1. /\ Reg!Goto(r, "insert")
          /\ UNCHANGED <<campaigns, stores, opened, rows, object, daemon, closing>>
      BY <1>10, <2>4 DEF Reg!NewCampaign
    <3> QED BY <1>1, <1>e, <2>1, <3>1
  <2> QED BY <2>3, <2>4
<1>11. ASSUME NEW r \in Requests, Reg!newCampaignFails(r) PROVE RegInv'
  BY <1>2, <1>11 DEF Reg!newCampaignFails
<1>12. ASSUME NEW r \in Requests, Reg!CreateCampaign(r) PROVE RegInv'
  <2>1. request[r].op \in Building /\ rows[request[r].dir][request[r].name] = Nobody
    BY <1>12, <1>e DEF Reg!CreateCampaign, Reg!At, Reg!Row
  <2>2. request[r].name \in Names /\ request[r].dir \in Dirs
    BY <2>1 DEF RequestsHold
  <2>3. /\ rows' = [rows EXCEPT ![request[r].dir][request[r].name] = r]
        /\ Reg!Built(r, r) /\ Reg!Goto(r, "register")
        /\ UNCHANGED <<campaigns, stores, opened, daemon, closing>>
    BY <1>12 DEF Reg!CreateCampaign
  <2>4. /\ rows' \in [Dirs -> [Names -> Requests \cup {Nobody}]]
        /\ rows'[request[r].dir][request[r].name] = r
        /\ \A d \in Dirs, n \in Names : rows[d][n] # Nobody => rows'[d][n] = rows[d][n]
    BY <2>1, <2>2, <2>3 DEF RegTypes
  <2> QED BY <1>9, <2>1, <2>3, <2>4
<1>13. ASSUME NEW r \in Requests, Reg!createCampaignFails(r) PROVE RegInv'
  BY <1>2, <1>13 DEF Reg!createCampaignFails
<1>14. ASSUME NEW r \in Requests, Reg!register(r) PROVE RegInv'
  <2>1. /\ request[r].op = "register" /\ request[r].op \in Building
        /\ request[r].name \in Names /\ Exists(r)
    BY <1>14, <1>e DEF Reg!register, Reg!At, RequestsHold
  <2>2. /\ campaigns' = [campaigns EXCEPT ![request[r].name] = r] /\ Reg!Goto(r, "done")
        /\ UNCHANGED <<stores, opened, rows, object, daemon, closing>>
    BY <1>14 DEF Reg!register
  <2>3. campaigns' \in [Names -> Requests \cup {Nobody}]
    BY <2>2 DEF RegTypes
  <2>4. \A o : Exists(o)' <=> Exists(o)
    BY <2>2 DEF Exists
  <2>5. HeldExist'
    BY <2>1, <2>2, <2>4 DEF HeldExist, RegTypes
  <2>6. RequestsHold'
    BY <1>e, <2>2, <2>4, RequestStep
  <2>7. request' \in [Requests -> RequestType]
    BY <2>2, GotoKeeps
  <2> QED BY <2>2, <2>3, <2>5, <2>6, <2>7 DEF RegTypes, OpenedOnce, SeedsAreRows
\* A step that changes the state of one campaign that exists.
<1>15. ASSUME NEW r \in Requests, Reg!start(r) \/ Reg!stop(r) PROVE RegInv'
  <2>1. PICK o \in Requests : o = request[r].on /\ Exists(o)
    BY <1>15 DEF Reg!start, Reg!stop, Reg!At, RequestsHold, Exists
  <2>2. object[o].state \in {"created", "running", "startFailed", "finished"}
    BY <2>1 DEF Exists, RegTypes, ObjectType
  <2>3. /\ \E x \in {"created", "running", "startFailed", "finished"} :
               object' = [object EXCEPT ![o].state = x]
        /\ Reg!Goto(r, "done") /\ UNCHANGED <<campaigns, stores, opened, rows, daemon, closing>>
    BY <1>15, <2>1, <2>2 DEF Reg!start, Reg!stop
  <2>4. /\ object' \in [Requests -> ObjectType] /\ SeedsAreRows'
        /\ \A q \in Requests : Exists(q) => Exists(q)'
    BY <2>1, <2>3, StateStep
  <2>5. request' \in [Requests -> RequestType]
    BY <2>3, GotoKeeps
  <2>6. RequestsHold'
    BY <1>e, <2>3, <2>4, RequestStep
  <2>7. HeldExist'
    BY <2>3, <2>4 DEF HeldExist, Exists
  <2> QED BY <2>3, <2>4, <2>5, <2>6, <2>7 DEF RegTypes, OpenedOnce
<1>16. ASSUME NEW r \in Requests, NEW n \in Names, Reg!Forget(r, n) PROVE RegInv'
  <2>1. /\ Reg!Goto(r, "done") /\ UNCHANGED <<stores, opened, rows, object, daemon, closing>>
        /\ campaigns' \in [Names -> Requests \cup {Nobody}]
        /\ \A m \in Names : campaigns'[m] \in {campaigns[m], Nobody}
    BY <1>16 DEF Reg!Forget, RegTypes
  <2>2. \A o : Exists(o)' <=> Exists(o)
    BY <2>1 DEF Exists
  <2>3. HeldExist'
    BY <2>1, <2>2 DEF HeldExist
  <2>4. RequestsHold'
    BY <1>e, <2>1, <2>2, RequestStep
  <2>5. request' \in [Requests -> RequestType]
    BY <2>1, GotoKeeps
  <2> QED BY <2>1, <2>3, <2>4, <2>5 DEF RegTypes, OpenedOnce, SeedsAreRows
<1>17. CASE Reg!Close
  <2>1. /\ daemon' = "campaigns"
        /\ closing' = [cs |-> {campaigns[n] : n \in Reg!Loaded},
                       stores |-> {d \in Dirs : stores[d] # "none"}]
        /\ UNCHANGED <<campaigns, stores, opened, rows, object, request>>
    BY <1>17 DEF Reg!Close
  <2>2. {campaigns[n] : n \in Reg!Loaded} \in SUBSET {o \in Requests : Exists(o)}
    BY DEF Reg!Loaded, HeldExist, Exists
  <2>3. closing' \in [cs : SUBSET Requests, stores : SUBSET Dirs]
    BY <2>1, <2>2
  <2>4. \A o : Exists(o)' <=> Exists(o)
    BY <2>1 DEF Exists
  <2>5. HeldExist'
    BY <2>1, <2>2, <2>4 DEF HeldExist
  <2> QED BY <2>1, <2>3, <2>4, <2>5 DEF RegTypes, OpenedOnce, RequestsHold, SeedsAreRows
<1>18. ASSUME NEW o \in Requests, Reg!closeCampaign(o) PROVE RegInv'
  <2>1. o \in closing.cs /\ Exists(o)
    BY <1>18 DEF Reg!closeCampaign, HeldExist
  <2>2. object[o].state \in {"created", "running", "startFailed", "finished"}
    BY <2>1 DEF Exists, RegTypes, ObjectType
  <2>3. /\ \E x \in {"created", "running", "startFailed", "finished"} :
               object' = [object EXCEPT ![o].state = x]
        /\ closing' = [closing EXCEPT !.cs = @ \ {o}]
        /\ UNCHANGED <<campaigns, stores, opened, rows, request, daemon>>
    BY <1>18, <2>2 DEF Reg!closeCampaign
  <2>4. /\ object' \in [Requests -> ObjectType] /\ SeedsAreRows'
        /\ \A q \in Requests : Exists(q) => Exists(q)'
    BY <2>1, <2>3, StateStep
  <2>5. closing' \in [cs : SUBSET Requests, stores : SUBSET Dirs] /\ closing'.cs \subseteq closing.cs
    BY <2>3 DEF RegTypes
  <2>6. HeldExist'
    BY <2>3, <2>4, <2>5 DEF HeldExist, Exists
  <2>7. RequestsHold'
    BY <2>3, <2>4 DEF RequestsHold, Exists
  <2> QED BY <2>3, <2>4, <2>5, <2>6, <2>7 DEF RegTypes, OpenedOnce
<1>19. CASE Reg!closeStores
  <2>1. /\ stores' = [d \in Dirs |-> IF d \in closing.stores THEN "closed" ELSE stores[d]]
        /\ daemon' = "closed"
        /\ UNCHANGED <<campaigns, opened, rows, object, request, closing>>
    BY <1>19 DEF Reg!closeStores
  <2>2. stores' \in [Dirs -> {"none", "open", "closed"}] /\ OpenedOnce'
    BY <2>1 DEF RegTypes, OpenedOnce
  <2>3. \A o : Exists(o)' <=> Exists(o)
    BY <2>1 DEF Exists
  <2> QED BY <2>1, <2>2, <2>3, HeldStays DEF RegTypes, RequestsHold, SeedsAreRows
<1> QED BY <1>4, <1>5, <1>6, <1>7, <1>8, <1>10, <1>11, <1>12, <1>13, <1>14, <1>15, <1>16,
           <1>17, <1>18, <1>19
        DEF Reg!Next

\* The registry's part of a step, or no step of it at all.
LEMMA StepRegInv == RegInv /\ [Next]_vars => RegInv'
<1>1. RegInv /\ UNCHANGED regVars => RegInv'
  BY DEF regVars, RegInv, RegTypes, OpenedOnce, RequestsHold, HeldExist, SeedsAreRows, Exists
<1> QED BY <1>1, NextRegInv DEF Next, vars

\* However requests interleave, a store is opened once, and every campaign ever
\* built runs under the id and seed its store records.
THEOREM RegistryCorrect == Spec => []RegistryIsSound
<1>1. RegInv => RegistryIsSound
  BY DEF RegInv, RegTypes, OpenedOnce, SeedsAreRows, ObjectType, RegistryIsSound,
         Reg!TypeOK, Reg!OneHandlePerStore, Reg!OneSeedPerCampaign
<1> QED BY <1>1, InitRegInv, StepRegInv, PTL DEF Spec

-----------------------------------------------------------------------------
(* The synchronisation of the workers' corpora (CorpusSync).                 *)

Pump == [at : {"read", "save", "queue"}, fresh : SUBSET Found]

SyncTypes ==
    /\ corpus \in [Procs -> SUBSET Found] /\ reported \in [Procs -> SUBSET Found]
    /\ upPipe \in [Procs -> Seq(SUBSET Found)] /\ onPump \in [Procs -> Pump]
    /\ seen \in SUBSET Found /\ saved \in SUBSET Found /\ unsaved \in SUBSET Found
    /\ pending \in [Procs -> SUBSET Found] /\ flushing \in [Procs -> SUBSET Found]
    /\ missed \in [Procs -> SUBSET Found] /\ bereft \in [Procs -> SUBSET Found]
    /\ outbox \in [Procs -> Seq(SUBSET Found)]
    /\ queued \in [Found -> Nat]

\* An entry is in one of the messages of a pipe.
Carries(pipe, e) == \E i \in 1 .. Len(pipe) : e \in pipe[i]

Saving(e) == \E p \in Procs : onPump[p].at = "save" /\ e \in onPump[p].fresh

\* What is queued for the siblings, or on its way to them, is in the store.
SpreadIsSaved ==
    /\ \A p \in Procs : pending[p] \subseteq saved /\ flushing[p] \subseteq saved
    /\ \A p \in Procs : onPump[p].at = "queue" => onPump[p].fresh \subseteq saved
    /\ \A p \in Procs : \A e \in Found : Carries(outbox[p], e) => e \in saved

\* What is marked as seen has been saved, has failed to be, or is being saved.
SeenIsKept == \A e \in seen : e \in saved \cup unsaved \/ Saving(e)

\* What a worker will not report again is kept or still in some worker's pipe.
ReportsAreKept ==
    \A p \in Procs : \A e \in reported[p] :
        \/ e \in saved \cup unsaved \/ Saving(e)
        \/ \E q \in Procs : Carries(upPipe[q], e)

\* No two pumps hold the same entry, and none that was queued before.
PumpsApart ==
    /\ \A p \in Procs : onPump[p].fresh \subseteq seen
    /\ \A p, q \in Procs : p # q => onPump[p].fresh \cap onPump[q].fresh = {}
    /\ \A p \in Procs : \A e \in onPump[p].fresh : queued[e] = 0
    /\ \A p \in Procs : onPump[p].at = "read" => onPump[p].fresh = {}
    /\ \A e \in Found : queued[e] <= 1 /\ (queued[e] # 0 => e \in seen)

OutboxBounded == \A p \in Procs : Len(outbox[p]) <= OutboxDepth

SyncInv ==
    /\ SyncTypes /\ SpreadIsSaved /\ SeenIsKept /\ ReportsAreKept /\ PumpsApart
    /\ OutboxBounded

\* What a pipe carries after a message is written to it.
LEMMA AppendCarries ==
    ASSUME NEW pipe \in Seq(SUBSET Found), NEW m \in SUBSET Found
    PROVE  /\ Append(pipe, m) \in Seq(SUBSET Found)
           /\ Len(Append(pipe, m)) = Len(pipe) + 1
           /\ \A e \in Found : Carries(Append(pipe, m), e) <=> Carries(pipe, e) \/ e \in m
<1>1. /\ Append(pipe, m) \in Seq(SUBSET Found) /\ Len(pipe) \in Nat
      /\ Len(Append(pipe, m)) = Len(pipe) + 1
      /\ Append(pipe, m)[Len(pipe) + 1] = m
      /\ \A i \in 1 .. Len(pipe) : Append(pipe, m)[i] = pipe[i]
  OBVIOUS
<1>2. ASSUME NEW e \in Found, Carries(Append(pipe, m), e)
      PROVE  Carries(pipe, e) \/ e \in m
  <2>1. PICK i \in 1 .. (Len(pipe) + 1) : e \in Append(pipe, m)[i]
    BY <1>1, <1>2 DEF Carries
  <2>2. CASE i = Len(pipe) + 1
    BY <1>1, <2>1, <2>2
  <2>3. CASE i # Len(pipe) + 1
    <3>1. i \in 1 .. Len(pipe)
      BY <1>1, <2>3
    <3> QED BY <1>1, <2>1, <3>1 DEF Carries
  <2> QED BY <2>2, <2>3
<1>3. ASSUME NEW e \in Found, Carries(pipe, e) PROVE Carries(Append(pipe, m), e)
  <2>1. PICK i \in 1 .. Len(pipe) : e \in pipe[i]
    BY <1>3 DEF Carries
  <2>2. i \in 1 .. Len(Append(pipe, m)) /\ e \in Append(pipe, m)[i]
    BY <1>1, <2>1
  <2> QED BY <2>2 DEF Carries
<1>4. ASSUME NEW e \in m PROVE Carries(Append(pipe, m), e)
  <2>1. Len(pipe) + 1 \in 1 .. Len(Append(pipe, m))
    BY <1>1
  <2> QED BY <1>1, <2>1 DEF Carries
<1> QED BY <1>1, <1>2, <1>3, <1>4

\* What a pipe carries after its first message is read.
LEMMA TailCarries ==
    ASSUME NEW pipe \in Seq(SUBSET Found), pipe # << >>
    PROVE  /\ Tail(pipe) \in Seq(SUBSET Found) /\ Head(pipe) \in SUBSET Found
           /\ Len(Tail(pipe)) = Len(pipe) - 1
           /\ \A e \in Found : Carries(pipe, e) <=> e \in Head(pipe) \/ Carries(Tail(pipe), e)
<1>1. /\ Tail(pipe) \in Seq(SUBSET Found) /\ Head(pipe) \in SUBSET Found
      /\ Len(pipe) \in Nat \ {0} /\ Len(Tail(pipe)) = Len(pipe) - 1
      /\ Head(pipe) = pipe[1]
      /\ \A i \in 1 .. (Len(pipe) - 1) : Tail(pipe)[i] = pipe[i + 1]
  OBVIOUS
<1>2. ASSUME NEW e \in Found, Carries(pipe, e)
      PROVE  e \in Head(pipe) \/ Carries(Tail(pipe), e)
  <2>1. PICK i \in 1 .. Len(pipe) : e \in pipe[i]
    BY <1>2 DEF Carries
  <2>2. CASE i = 1
    BY <1>1, <2>1, <2>2
  <2>3. CASE i # 1
    <3>1. i - 1 \in 1 .. Len(Tail(pipe)) /\ Tail(pipe)[i - 1] = pipe[(i - 1) + 1]
      BY <1>1, <2>3
    <3>2. (i - 1) + 1 = i
      OBVIOUS
    <3> QED BY <2>1, <3>1, <3>2 DEF Carries
  <2> QED BY <2>2, <2>3
<1>3. ASSUME NEW e \in Found, Carries(Tail(pipe), e) PROVE Carries(pipe, e)
  <2>1. PICK i \in 1 .. Len(Tail(pipe)) : e \in Tail(pipe)[i]
    BY <1>3 DEF Carries
  <2>2. i + 1 \in 1 .. Len(pipe) /\ pipe[i + 1] = Tail(pipe)[i]
    BY <1>1, <2>1
  <2> QED BY <2>1, <2>2 DEF Carries
<1>4. ASSUME NEW e \in Head(pipe) PROVE Carries(pipe, e)
  <2>1. 1 \in 1 .. Len(pipe)
    BY <1>1
  <2> QED BY <1>1, <2>1 DEF Carries
<1> QED BY <1>1, <1>2, <1>3, <1>4

\* At the start nothing has been found.
LEMMA InitSyncInv == Init => SyncInv
<1> SUFFICES ASSUME Sync!Init PROVE SyncInv
  BY DEF Init
<1> USE DEF Sync!Init, Sync!Reading
<1>1. SyncTypes
  BY DEF SyncTypes, Pump
<1>2. OutboxBounded
  <2>1. Len(<< >>) = 0
    OBVIOUS
  <2> QED BY <2>1, DaemonAssumption DEF OutboxBounded
<1>3. \A p \in Procs : \A e \in Found : ~Carries(outbox[p], e)
  BY DEF Carries
<1> QED BY <1>1, <1>2, <1>3 DEF SyncInv, SpreadIsSaved, SeenIsKept, ReportsAreKept, PumpsApart

\* A message that is read is gone from the pipe, a message written is at its end.
LEMMA QueueWritten ==
    ASSUME NEW qs \in [Procs -> Seq(SUBSET Found)], NEW p \in Procs, NEW m \in SUBSET Found
    PROVE  LET rest == [qs EXCEPT ![p] = Append(@, m)] IN
           /\ rest \in [Procs -> Seq(SUBSET Found)]
           /\ \A q \in Procs \ {p} : rest[q] = qs[q]
           /\ \A e \in Found : Carries(rest[p], e) <=> Carries(qs[p], e) \/ e \in m
<1>1. PICK s \in Seq(SUBSET Found) : s = Append(qs[p], m)
  BY AppendCarries
<1>2. [qs EXCEPT ![p] = Append(@, m)] = [qs EXCEPT ![p] = s]
  BY <1>1
<1>3. \A e \in Found : Carries(s, e) <=> Carries(qs[p], e) \/ e \in m
  BY <1>1, AppendCarries
<1> QED BY <1>2, <1>3

LEMMA QueueRead ==
    ASSUME NEW qs \in [Procs -> Seq(SUBSET Found)], NEW p \in Procs, qs[p] # << >>
    PROVE  LET rest == [qs EXCEPT ![p] = Tail(@)] IN
           /\ rest \in [Procs -> Seq(SUBSET Found)]
           /\ Head(qs[p]) \in SUBSET Found
           /\ \A q \in Procs \ {p} : rest[q] = qs[q]
           /\ Len(rest[p]) = Len(qs[p]) - 1
           /\ \A e \in Found : Carries(qs[p], e) <=> e \in Head(qs[p]) \/ Carries(rest[p], e)
<1>1. PICK s \in Seq(SUBSET Found) : s = Tail(qs[p])
  BY TailCarries
<1>2. [qs EXCEPT ![p] = Tail(@)] = [qs EXCEPT ![p] = s]
  BY <1>1
<1>3. /\ Head(qs[p]) \in SUBSET Found /\ Len(s) = Len(qs[p]) - 1
      /\ \A e \in Found : Carries(qs[p], e) <=> e \in Head(qs[p]) \/ Carries(s, e)
  BY <1>1, TailCarries
<1> QED BY <1>2, <1>3

\* The steps of a worker keep the invariant: it reports into its pipe, and what it
\* takes from its outbox or the store is saved.
LEMMA WorkerSync ==
    ASSUME SyncInv, NEW p \in Procs,
           \/ \E e \in Found : Sync!discover(p, e)
           \/ Sync!flushCorpus(p) \/ Sync!acceptSync(p) \/ Sync!crash(p)
    PROVE  SyncInv'
<1> USE DEF SyncInv
<1>1. ASSUME NEW e \in Found, Sync!discover(p, e) PROVE SyncInv'
  BY <1>1 DEF Sync!discover, SyncTypes, SpreadIsSaved, SeenIsKept, ReportsAreKept, PumpsApart,
              OutboxBounded, Saving, Carries
<1>2. CASE Sync!flushCorpus(p)
  <2>1. PICK m \in SUBSET Found : m = corpus[p] \ reported[p]
    BY DEF SyncTypes
  <2>2. /\ upPipe' = [upPipe EXCEPT ![p] = Append(@, m)]
        /\ reported' = [reported EXCEPT ![p] = @ \cup corpus[p]]
        /\ UNCHANGED <<corpus, onPump, seen, saved, pending, outbox, flushing, missed,
                       unsaved, bereft, queued>>
    BY <1>2, <2>1 DEF Sync!flushCorpus
  <2>3. /\ upPipe' \in [Procs -> Seq(SUBSET Found)]
        /\ \A q \in Procs \ {p} : upPipe'[q] = upPipe[q]
        /\ \A e \in Found : Carries(upPipe'[p], e) <=> Carries(upPipe[p], e) \/ e \in m
    <3>1. upPipe \in [Procs -> Seq(SUBSET Found)] /\ upPipe' = [upPipe EXCEPT ![p] = Append(@, m)]
      BY <2>2 DEF SyncTypes
    <3> HIDE DEF SyncInv
    <3> QED BY ONLY <3>1, m \in SUBSET Found, p \in Procs, QueueWritten
  <2>4. SyncTypes'
    BY <2>2, <2>3 DEF SyncTypes
  <2>5. \A e : Saving(e)' <=> Saving(e)
    BY <2>2 DEF Saving
  <2>6. ReportsAreKept'
    <3>1. \A q \in Procs : \A e \in Found : Carries(upPipe[q], e) => Carries(upPipe'[q], e)
      BY <2>3
    <3>2. ASSUME NEW q \in Procs, NEW e \in reported'[q], e \notin reported[q]
          PROVE  Carries(upPipe'[p], e)
      <4>1. q = p /\ e \in corpus[p] /\ e \in Found
        BY <2>2, <3>2 DEF SyncTypes
      <4> QED BY <2>1, <2>3, <3>2, <4>1
    <3>3. \A q \in Procs : reported'[q] \subseteq Found
      BY <2>4 DEF SyncTypes
    <3>4. SUFFICES ASSUME NEW q \in Procs, NEW e \in reported'[q]
                   PROVE  \/ e \in saved \cup unsaved \/ Saving(e)
                          \/ \E r \in Procs : Carries(upPipe'[r], e)
      BY <2>2, <2>5 DEF ReportsAreKept
    <3>5. CASE e \notin reported[q]
      BY <3>2, <3>5
    <3>6. CASE e \in reported[q]
      BY <3>1, <3>3, <3>6 DEF ReportsAreKept
    <3> QED BY <3>5, <3>6
  <2> QED BY <2>2, <2>4, <2>5, <2>6 DEF SpreadIsSaved, SeenIsKept, PumpsApart, OutboxBounded
<1>3. CASE Sync!acceptSync(p)
  <2>1. /\ outbox[p] # << >>
        /\ outbox' = [outbox EXCEPT ![p] = Tail(@)]
        /\ corpus' = [corpus EXCEPT ![p] = @ \cup Head(outbox[p])]
        /\ reported' = [reported EXCEPT ![p] = @ \cup Head(outbox[p])]
        /\ UNCHANGED <<upPipe, onPump, seen, saved, pending, flushing, missed, unsaved, bereft,
                       queued>>
    BY <1>3 DEF Sync!acceptSync
  <2>2. /\ outbox' \in [Procs -> Seq(SUBSET Found)] /\ Head(outbox[p]) \in SUBSET Found
        /\ \A q \in Procs \ {p} : outbox'[q] = outbox[q]
        /\ Len(outbox'[p]) = Len(outbox[p]) - 1
        /\ \A e \in Found : Carries(outbox[p], e) <=> e \in Head(outbox[p]) \/ Carries(outbox'[p], e)
    BY <2>1, QueueRead DEF SyncTypes
  <2>3. SyncTypes'
    BY <2>1, <2>2 DEF SyncTypes
  <2>4. \A e \in Head(outbox[p]) : e \in saved
    BY <2>2 DEF SpreadIsSaved
  <2>5. SpreadIsSaved'
    BY <2>1, <2>2 DEF SpreadIsSaved
  <2>6. \A e : Saving(e)' <=> Saving(e)
    BY <2>1 DEF Saving
  <2>7. ReportsAreKept'
    <3>1. \A q \in Procs : \A e \in reported'[q] : e \in reported[q] \/ e \in saved
      BY <2>1, <2>4 DEF SyncTypes
    <3> QED BY <2>1, <2>6, <3>1 DEF ReportsAreKept
  <2>8. OutboxBounded'
    <3>1. Len(outbox[p]) \in Nat
      BY DEF SyncTypes
    <3> QED BY <2>2, <3>1, DaemonAssumption DEF OutboxBounded
  <2> QED BY <2>1, <2>3, <2>5, <2>6, <2>7, <2>8 DEF SeenIsKept, PumpsApart
<1>4. CASE Sync!crash(p)
  <2>1. /\ corpus' = [corpus EXCEPT ![p] = saved]
        /\ reported' = [reported EXCEPT ![p] = saved]
        /\ bereft' = [bereft EXCEPT ![p] = @ \cup (reported[p] \ saved)]
        /\ \/ outbox' = outbox
           \/ outbox[p] # << >> /\ outbox' = [outbox EXCEPT ![p] = Tail(@)]
        /\ UNCHANGED <<upPipe, onPump, seen, saved, pending, flushing, missed, unsaved, queued>>
    <3>1. PICK rest \in {outbox[p]} \cup (IF outbox[p] = << >> THEN {} ELSE {Tail(outbox[p])}) :
              outbox' = [outbox EXCEPT ![p] = rest]
      BY <1>4 DEF Sync!crash
    <3>2. CASE rest = outbox[p]
      <4>1. outbox' = outbox
        BY <3>1, <3>2 DEF SyncTypes
      <4> QED BY <1>4, <4>1 DEF Sync!crash
    <3>3. CASE rest # outbox[p]
      <4>1. outbox[p] # << >> /\ outbox' = [outbox EXCEPT ![p] = Tail(@)]
        BY <3>1, <3>3
      <4> QED BY <1>4, <4>1 DEF Sync!crash
    <3> QED BY <3>2, <3>3
  <2>2. /\ outbox' \in [Procs -> Seq(SUBSET Found)]
        /\ \A q \in Procs : Len(outbox'[q]) <= Len(outbox[q])
        /\ \A q \in Procs : \A e \in Found : Carries(outbox'[q], e) => Carries(outbox[q], e)
    <3>1. \A q \in Procs : Len(outbox[q]) \in Nat
      BY DEF SyncTypes
    <3>2. CASE outbox' = outbox
      BY <3>1, <3>2 DEF SyncTypes
    <3>3. CASE outbox[p] # << >> /\ outbox' = [outbox EXCEPT ![p] = Tail(@)]
      <4>1. /\ outbox' \in [Procs -> Seq(SUBSET Found)]
            /\ \A q \in Procs \ {p} : outbox'[q] = outbox[q]
            /\ Len(outbox'[p]) = Len(outbox[p]) - 1
            /\ \A e \in Found : Carries(outbox'[p], e) => Carries(outbox[p], e)
        BY <3>3, QueueRead DEF SyncTypes
      <4> QED BY <3>1, <4>1
    <3> QED BY <2>1, <3>2, <3>3
  <2>3. SyncTypes'
    BY <2>1, <2>2 DEF SyncTypes
  <2>4. SpreadIsSaved'
    BY <2>1, <2>2 DEF SpreadIsSaved
  <2>5. \A e : Saving(e)' <=> Saving(e)
    BY <2>1 DEF Saving
  <2>6. ReportsAreKept'
    <3>1. \A q \in Procs : \A e \in reported'[q] : e \in reported[q] \/ e \in saved
      BY <2>1 DEF SyncTypes
    <3> QED BY <2>1, <2>5, <3>1 DEF ReportsAreKept
  <2>7. OutboxBounded'
    <3>1. \A q \in Procs : Len(outbox[q]) \in Nat /\ Len(outbox'[q]) \in Nat
      BY <2>2 DEF SyncTypes
    <3> QED BY <2>2, <3>1, DaemonAssumption DEF OutboxBounded
  <2> QED BY <2>1, <2>3, <2>4, <2>5, <2>6, <2>7 DEF SeenIsKept, PumpsApart
<1> QED BY <1>1, <1>2, <1>3, <1>4

\* onCorpus moves what it marks from the pipe to the pump; the save that follows
\* keeps it, or is recorded as having failed.
LEMMA PumpSync ==
    ASSUME SyncInv, NEW p \in Procs,
           \/ Sync!onCorpus(p) \/ Sync!onCorpusSave(p) \/ Sync!onCorpusSaveFails(p)
           \/ Sync!onCorpusQueue(p)
    PROVE  SyncInv'
<1> USE DEF SyncInv
<1>t. onPump[p] \in Pump /\ onPump[p].fresh \subseteq Found
  BY DEF SyncTypes, Pump
<1>1. CASE Sync!onCorpus(p)
  <2>1. PICK fresh \in SUBSET Found : fresh = Head(upPipe[p]) \ seen
    <3>1. upPipe[p] \in Seq(SUBSET Found) /\ upPipe[p] # << >>
      BY <1>1 DEF Sync!onCorpus, SyncTypes
    <3>2. PICK h \in SUBSET Found : h = Head(upPipe[p])
      BY ONLY <3>1, TailCarries
    <3>3. h \ seen \in SUBSET Found
      OBVIOUS
    <3> QED BY ONLY <3>2, <3>3
  <2>2. PICK x \in Pump : /\ x = IF fresh = {} THEN Sync!Reading ELSE [at |-> "save", fresh |-> fresh]
                          /\ onPump' = [onPump EXCEPT ![p] = x]
    <3>1. (IF fresh = {} THEN Sync!Reading ELSE [at |-> "save", fresh |-> fresh]) \in Pump
      BY DEF Sync!Reading, Pump
    <3> QED BY <1>1, <2>1, <3>1 DEF Sync!onCorpus
  <2>3. /\ onPump[p].at = "read" /\ upPipe[p] # << >>
        /\ seen' = seen \cup fresh
        /\ upPipe' = [upPipe EXCEPT ![p] = Tail(@)]
        /\ UNCHANGED <<corpus, reported, saved, pending, outbox, flushing, missed, unsaved,
                       bereft, queued>>
    BY <1>1, <2>1 DEF Sync!onCorpus
  <2>4. /\ upPipe' \in [Procs -> Seq(SUBSET Found)]
        /\ \A q \in Procs \ {p} : upPipe'[q] = upPipe[q]
        /\ \A e \in Found : Carries(upPipe[p], e) => e \in Head(upPipe[p]) \/ Carries(upPipe'[p], e)
    <3>1. upPipe \in [Procs -> Seq(SUBSET Found)]
      BY DEF SyncTypes
    <3> QED BY ONLY <3>1, <2>3, p \in Procs, QueueRead
  <2>5. onPump' \in [Procs -> Pump] /\ onPump'[p] = x /\ \A q \in Procs \ {p} : onPump'[q] = onPump[q]
    BY <2>2 DEF SyncTypes
  <2>6. /\ x.fresh = fresh /\ (fresh # {} => x.at = "save") /\ (fresh = {} => x.at = "read")
    BY <2>2 DEF Sync!Reading
  <2>7. SyncTypes'
    BY <2>3, <2>4, <2>5 DEF SyncTypes
  <2>8. \A e : (Saving(e) => Saving(e)') /\ (e \in fresh => Saving(e)')
    BY <2>3, <2>5, <2>6 DEF Saving
  <2>9. SeenIsKept'
    BY <2>3, <2>8 DEF SeenIsKept
  <2>10. ReportsAreKept'
    <3>1. SUFFICES ASSUME NEW q \in Procs, NEW e \in reported[q]
                   PROVE  \/ e \in saved \cup unsaved \/ Saving(e)'
                          \/ \E r \in Procs : Carries(upPipe'[r], e)
      BY <2>3 DEF ReportsAreKept
    <3>2. e \in Found
      BY DEF SyncTypes
    <3>3. \/ e \in saved \cup unsaved \/ Saving(e)'
          \/ \E r \in Procs : Carries(upPipe[r], e)
      BY <2>8 DEF ReportsAreKept
    <3>4. ASSUME NEW r \in Procs, Carries(upPipe[r], e)
          PROVE  Carries(upPipe'[r], e) \/ e \in seen'
      BY <2>1, <2>3, <2>4, <3>2, <3>4
    <3>5. e \in seen' => e \in saved \cup unsaved \/ Saving(e)'
      BY <2>3, <2>9 DEF SeenIsKept
    <3> QED BY <3>3, <3>4, <3>5
  <2>11. PumpsApart'
    <3>1. /\ \A q \in Procs : onPump'[q].fresh \subseteq seen'
          /\ \A q \in Procs : onPump'[q].at = "read" => onPump'[q].fresh = {}
      BY <2>3, <2>5, <2>6 DEF PumpsApart
    <3>2. \A q, r \in Procs : q # r => onPump'[q].fresh \cap onPump'[r].fresh = {}
      BY <2>1, <2>5, <2>6 DEF PumpsApart
    <3>3. \A q \in Procs : \A e \in onPump'[q].fresh : queued[e] = 0
      BY <2>1, <2>5, <2>6 DEF PumpsApart
    <3> QED BY <2>3, <3>1, <3>2, <3>3 DEF PumpsApart
  <2>12. SpreadIsSaved'
    BY <2>3, <2>5, <2>6 DEF SpreadIsSaved
  <2> QED BY <2>3, <2>7, <2>9, <2>10, <2>11, <2>12 DEF OutboxBounded
<1>2. CASE Sync!onCorpusSave(p)
  <2>1. PICK x \in Pump : /\ x = [onPump[p] EXCEPT !.at = "queue"]
                          /\ onPump' = [onPump EXCEPT ![p] = x]
    <3>1. PICK b \in Pump : b = onPump[p]
      BY <1>t
    <3>2. [b EXCEPT !.at = "queue"] \in Pump
      BY DEF Pump
    <3> QED BY <1>2, <3>1, <3>2 DEF Sync!onCorpusSave
  <2>2. x.at = "queue" /\ x.fresh = onPump[p].fresh
    BY <1>t, <2>1 DEF Pump
  <2>3. /\ onPump[p].at = "save" /\ saved' = saved \cup onPump[p].fresh
        /\ UNCHANGED <<corpus, reported, upPipe, seen, pending, outbox, flushing, missed,
                       unsaved, bereft, queued>>
    BY <1>2 DEF Sync!onCorpusSave
  <2>4. onPump' \in [Procs -> Pump] /\ onPump'[p] = x /\ \A q \in Procs \ {p} : onPump'[q] = onPump[q]
    BY <2>1 DEF SyncTypes
  <2>5. SyncTypes'
    BY <1>t, <2>3, <2>4 DEF SyncTypes
  <2>6. \A e : Saving(e) => Saving(e)' \/ e \in saved'
    BY <2>3, <2>4 DEF Saving
  <2>7. SeenIsKept' /\ ReportsAreKept'
    BY <2>3, <2>6 DEF SeenIsKept, ReportsAreKept
  <2>8. PumpsApart'
    <3>1. \A q \in Procs : onPump'[q].fresh = onPump[q].fresh
      BY <2>2, <2>4
    <3>2. \A q \in Procs : onPump'[q].at = "read" => onPump[q].at = "read"
      BY <2>2, <2>4
    <3> QED BY <2>3, <3>1, <3>2 DEF PumpsApart
  <2>9. SpreadIsSaved'
    BY <2>2, <2>3, <2>4 DEF SpreadIsSaved
  <2> QED BY <2>3, <2>5, <2>7, <2>8, <2>9 DEF OutboxBounded
<1>3. CASE Sync!onCorpusSaveFails(p)
  <2>1. /\ onPump[p].at = "save" /\ unsaved' = unsaved \cup onPump[p].fresh
        /\ onPump' = [onPump EXCEPT ![p] = Sync!Reading]
        /\ UNCHANGED <<corpus, reported, upPipe, seen, saved, pending, outbox, flushing, missed,
                       bereft, queued>>
    BY <1>3 DEF Sync!onCorpusSaveFails
  <2>2. /\ onPump' \in [Procs -> Pump] /\ onPump'[p] = [at |-> "read", fresh |-> {}]
        /\ \A q \in Procs \ {p} : onPump'[q] = onPump[q]
    BY <2>1 DEF SyncTypes, Sync!Reading, Pump
  <2>3. SyncTypes'
    BY <1>t, <2>1, <2>2 DEF SyncTypes
  <2>4. \A e : Saving(e) => Saving(e)' \/ e \in unsaved'
    BY <2>1, <2>2 DEF Saving
  <2>5. SeenIsKept' /\ ReportsAreKept'
    BY <2>1, <2>4 DEF SeenIsKept, ReportsAreKept
  <2>6. PumpsApart'
    BY <2>1, <2>2 DEF PumpsApart
  <2>7. SpreadIsSaved'
    BY <2>1, <2>2 DEF SpreadIsSaved
  <2> QED BY <2>1, <2>3, <2>5, <2>6, <2>7 DEF OutboxBounded
<1>4. CASE Sync!onCorpusQueue(p)
  <2>1. /\ onPump[p].at = "queue"
        /\ pending' = [pending EXCEPT ![p] = @ \cup onPump[p].fresh]
        /\ queued' = [e \in Found |-> IF e \in onPump[p].fresh THEN queued[e] + 1 ELSE queued[e]]
        /\ onPump' = [onPump EXCEPT ![p] = Sync!Reading]
        /\ UNCHANGED <<corpus, reported, upPipe, seen, saved, outbox, flushing, missed, unsaved,
                       bereft>>
    BY <1>4 DEF Sync!onCorpusQueue
  <2>2. /\ onPump' \in [Procs -> Pump] /\ onPump'[p] = [at |-> "read", fresh |-> {}]
        /\ \A q \in Procs \ {p} : onPump'[q] = onPump[q]
    BY <2>1 DEF SyncTypes, Sync!Reading, Pump
  <2>3. SyncTypes'
    BY <1>t, <2>1, <2>2 DEF SyncTypes
  <2>4. \A e : Saving(e) => Saving(e)'
    BY <2>1, <2>2 DEF Saving
  <2>5. SeenIsKept' /\ ReportsAreKept'
    BY <2>1, <2>4 DEF SeenIsKept, ReportsAreKept
  <2>6. SpreadIsSaved'
    BY <2>1, <2>2 DEF SpreadIsSaved, SyncTypes
  <2>7. PumpsApart'
    <3>1. \A e \in Found : e \in onPump[p].fresh => queued[e] = 0 /\ queued'[e] = 1 /\ e \in seen
      BY <2>1 DEF PumpsApart, SyncTypes
    <3>2. \A e \in Found : e \notin onPump[p].fresh => queued'[e] = queued[e]
      BY <2>1
    <3>3. \A e \in Found : queued'[e] <= 1 /\ (queued'[e] # 0 => e \in seen')
      BY <2>1, <3>1, <3>2 DEF PumpsApart
    <3>4. \A q \in Procs : \A e \in onPump'[q].fresh : queued'[e] = 0
      <4>1. \A q \in Procs : onPump[q].fresh \subseteq Found
        BY DEF SyncTypes, Pump
      <4> QED BY <2>2, <3>2, <4>1 DEF PumpsApart
    <3>5. \A q, r \in Procs : q # r => onPump'[q].fresh \cap onPump'[r].fresh = {}
      BY <2>2 DEF PumpsApart
    <3>6. \A q \in Procs : /\ onPump'[q].fresh \subseteq seen'
                           /\ onPump'[q].at = "read" => onPump'[q].fresh = {}
      BY <2>1, <2>2 DEF PumpsApart
    <3> QED BY <3>3, <3>4, <3>5, <3>6 DEF PumpsApart
  <2> QED BY <2>1, <2>3, <2>5, <2>6, <2>7 DEF OutboxBounded
<1> QED BY <1>1, <1>2, <1>3, <1>4

\* The campaign's ticker: what is flushed is pending, what is broadcast is saved.
LEMMA TickSync ==
    ASSUME SyncInv, Sync!flushSync \/ \E p \in Procs : Sync!broadcast(p)
    PROVE  SyncInv'
<1> USE DEF SyncInv
<1>1. CASE Sync!flushSync
  <2>1. /\ flushing' = pending /\ pending' = [p \in Procs |-> {}]
        /\ UNCHANGED <<corpus, reported, upPipe, onPump, seen, saved, outbox, missed, unsaved,
                       bereft, queued>>
    BY <1>1 DEF Sync!flushSync
  <2>2. \A e : Saving(e)' <=> Saving(e)
    BY <2>1 DEF Saving
  <2> QED BY <2>1, <2>2
          DEF SyncTypes, SpreadIsSaved, SeenIsKept, ReportsAreKept, PumpsApart, OutboxBounded
<1>2. ASSUME NEW from \in Procs, Sync!broadcast(from) PROVE SyncInv'
  <2> DEFINE fits(p) == Len(outbox[p]) < OutboxDepth
  <2>1. /\ outbox' = [p \in Procs |->
               IF p # from /\ fits(p) THEN Append(outbox[p], flushing[from]) ELSE outbox[p]]
        /\ missed' = [p \in Procs |->
               IF p # from /\ ~fits(p) THEN missed[p] \cup flushing[from] ELSE missed[p]]
        /\ flushing' = [flushing EXCEPT ![from] = {}]
        /\ UNCHANGED <<corpus, reported, upPipe, onPump, seen, saved, pending, unsaved, bereft,
                       queued>>
    BY <1>2 DEF Sync!broadcast
  <2>2. flushing[from] \in SUBSET Found /\ flushing[from] \subseteq saved
    BY DEF SyncTypes, SpreadIsSaved
  <2>3. ASSUME NEW p \in Procs
        PROVE  /\ outbox'[p] \in Seq(SUBSET Found) /\ Len(outbox'[p]) <= OutboxDepth
               /\ \A e \in Found : Carries(outbox'[p], e) => e \in saved
    <3>1. /\ outbox[p] \in Seq(SUBSET Found) /\ Len(outbox[p]) \in Nat
          /\ Len(outbox[p]) <= OutboxDepth
          /\ \A e \in Found : Carries(outbox[p], e) => e \in saved
      BY DEF SyncTypes, SpreadIsSaved, OutboxBounded
    <3>2. CASE p # from /\ fits(p)
      <4>1. /\ Append(outbox[p], flushing[from]) \in Seq(SUBSET Found)
            /\ Len(Append(outbox[p], flushing[from])) = Len(outbox[p]) + 1
            /\ \A e \in Found : Carries(Append(outbox[p], flushing[from]), e)
                                    => Carries(outbox[p], e) \/ e \in flushing[from]
        BY ONLY <2>2, <3>1, AppendCarries
      <4>2. outbox'[p] = Append(outbox[p], flushing[from])
        BY <2>1, <3>2
      <4>3. Len(outbox[p]) + 1 <= OutboxDepth
        BY <3>1, <3>2, DaemonAssumption
      <4> QED BY <2>2, <3>1, <4>1, <4>2, <4>3
    <3>3. CASE ~(p # from /\ fits(p))
      <4>1. outbox'[p] = outbox[p]
        BY <2>1, <3>3
      <4> QED BY <3>1, <4>1
    <3> QED BY <3>2, <3>3
  <2> HIDE DEF fits
  <2>4. outbox' \in [Procs -> Seq(SUBSET Found)] /\ missed' \in [Procs -> SUBSET Found]
        /\ flushing' \in [Procs -> SUBSET Found] /\ \A p \in Procs : flushing'[p] \subseteq flushing[p]
    <3>1. outbox' = [p \in Procs |-> outbox'[p]]
      BY <2>1
    <3>2. outbox' \in [Procs -> Seq(SUBSET Found)]
      BY <2>3, <3>1
    <3> QED BY <2>1, <2>2, <3>2 DEF SyncTypes
  <2>5. SyncTypes'
    BY <2>1, <2>4 DEF SyncTypes
  <2>6. SpreadIsSaved'
    BY <2>1, <2>3, <2>4 DEF SpreadIsSaved
  <2>7. OutboxBounded'
    BY <2>3 DEF OutboxBounded
  <2>8. \A e : Saving(e)' <=> Saving(e)
    BY <2>1 DEF Saving
  <2> QED BY <2>1, <2>5, <2>6, <2>7, <2>8 DEF SeenIsKept, ReportsAreKept, PumpsApart
<1> QED BY <1>1, <1>2

LEMMA StepSyncInv == SyncInv /\ [Next]_vars => SyncInv'
<1>1. SyncInv /\ UNCHANGED syncVars => SyncInv'
  BY DEF syncVars, SyncInv, SyncTypes, SpreadIsSaved, SeenIsKept, ReportsAreKept, PumpsApart,
         OutboxBounded, Saving, Carries
<1>2. SyncInv /\ Sync!Next => SyncInv'
  BY WorkerSync, PumpSync, TickSync DEF Sync!Next
<1> QED BY <1>1, <1>2 DEF Next, vars

\* An entry a worker has reported is stored, or in a save that failed, or still on
\* its way, and it is queued for the siblings once: whatever the order in which the
\* workers' reports, the saves and the crashes fall.
THEOREM ReportsCorrect == Spec => []ReportedIsKept
<1>1. SyncInv => ReportedIsKept
  <2> SUFFICES ASSUME SyncInv PROVE ReportedIsKept
    OBVIOUS
  <2> USE DEF SyncInv
  <2>1. Sync!TypeOK
    BY DEF SyncTypes, OutboxBounded, Sync!TypeOK
  <2>2. Sync!OneRound
    BY DEF PumpsApart, Sync!OneRound
  <2>3. ASSUME NEW q \in Procs, NEW e, Carries(upPipe[q], e)
        PROVE  e \in UNION Sync!ToSet(upPipe[q])
    BY <2>3 DEF Carries, Sync!ToSet
  <2>4. Sync!ReportedIsKept
    BY <2>3 DEF ReportsAreKept, Saving, Sync!ReportedIsKept, Sync!InFlight
  <2> QED BY <2>1, <2>2, <2>4 DEF ReportedIsKept
<1> QED BY <1>1, InitSyncInv, StepSyncInv, PTL DEF Spec

-----------------------------------------------------------------------------
(* Counters and their history (Metrics): induction over an interval, and the *)
(* sums that the totals are made of.                                         *)

\* A set of numbers has a least one.
LEMMA Least == ASSUME NEW T \in SUBSET Nat, T # {} PROVE \E m \in T : \A k \in T : m <= k
<1> DEFINE R == {ss \in Nat \X Nat : ss[1] < ss[2]}
<1>1. IsWellFoundedOn(R, Nat)
  BY NatLessThanWellFounded DEF OpToRel
<1>2. PICK m \in T : \A k \in T : <<k, m>> \notin R
  <2> HIDE DEF R
  <2> QED BY <1>1, WFMin
<1>3. ASSUME NEW k \in T PROVE m <= k
  <2>1. m \in Nat /\ k \in Nat
    OBVIOUS
  <2>2. k < m => <<k, m>> \in R
    BY <2>1
  <2> QED BY <1>2, <2>1, <2>2
<1> QED BY <1>3

\* Induction up to a bound.
LEMMA Ascending ==
    ASSUME NEW N \in Nat, NEW P, 0 \in P, \A n \in 1 .. N : n - 1 \in P => n \in P
    PROVE  \A n \in 0 .. N : n \in P
<1> SUFFICES ASSUME ~ \A n \in 0 .. N : n \in P PROVE FALSE
  OBVIOUS
<1> DEFINE T == {n \in 0 .. N : n \notin P}
<1>1. PICK m \in T : \A k \in T : m <= k
  <2>1. T \in SUBSET Nat /\ T # {}
    OBVIOUS
  <2> HIDE DEF T
  <2> QED BY <2>1, Least
<1>2. m \in 1 .. N
  OBVIOUS
<1>3. m - 1 \in P
  BY <1>1, <1>2
<1> QED BY <1>2, <1>3

\* The partial sums of m, as MapThenSumSet makes them, one member chosen after the other.
Sums(D, m, it) ==
    it = [s \in SUBSET D |->
             IF s = {} THEN 0 ELSE m[CHOOSE x \in s : TRUE] + it[s \ {CHOOSE x \in s : TRUE}]]
Total(D, m) == (CHOOSE it : Sums(D, m, it))[D]

\* Taking the chosen member from a set leaves a smaller one.
LEMMA OneLess ==
    ASSUME NEW D, IsFiniteSet(D), NEW s \in SUBSET D, s # {}
    PROVE  LET c == CHOOSE x \in s : TRUE
           IN  /\ c \in s /\ c \in D /\ s \ {c} \in SUBSET D
               /\ Cardinality(s) \in Nat \ {0} /\ Cardinality(s \ {c}) = Cardinality(s) - 1
<1> DEFINE c == CHOOSE x \in s : TRUE
<1>1. c \in s
  OBVIOUS
<1> HIDE DEF c
<1>2. IsFiniteSet(s)
  BY FS_Subset
<1>3. Cardinality(s) \in Nat /\ Cardinality(s) # 0
  BY <1>1, <1>2, FS_CardinalityType, FS_EmptySet
<1>4. Cardinality(s \ {c}) = Cardinality(s) - 1
  BY <1>1, <1>2, FS_RemoveElement
<1> QED BY <1>1, <1>3, <1>4 DEF c

\* The partial sums exist.
LEMMA SumsExist ==
    ASSUME NEW D, IsFiniteSet(D), NEW m \in [D -> Nat]
    PROVE  \E it \in [SUBSET D -> Nat] : Sums(D, m, it)
<1> DEFINE N == Cardinality(D)
           c(s) == CHOOSE x \in s : TRUE
           Small(n) == {s \in SUBSET D : Cardinality(s) <= n}
           Upto(n, it) ==
               it \in [Small(n) -> Nat]
               /\ \A s \in Small(n) : it[s] = IF s = {} THEN 0 ELSE m[c(s)] + it[s \ {c(s)}]
           P == {n \in 0 .. N : \E it : Upto(n, it)}
<1>0. /\ N \in Nat /\ \A s \in SUBSET D : Cardinality(s) \in Nat /\ Cardinality(s) <= N
      /\ \A s \in SUBSET D : Cardinality(s) = 0 <=> s = {}
  BY FS_CardinalityType, FS_Subset, FS_EmptySet
<1>1. 0 \in P
  <2>1. Upto(0, [s \in Small(0) |-> 0])
    BY <1>0
  <2> HIDE DEF Upto
  <2> QED BY <1>0, <2>1
<1>2. ASSUME NEW n \in 1 .. N, n - 1 \in P PROVE n \in P
  <2>1. PICK it : Upto(n - 1, it)
    BY <1>2
  <2> DEFINE h == [s \in Small(n) |->
                      IF s = {} THEN 0 ELSE m[c(s)] + it[s \ {c(s)}]]
  <2>2. ASSUME NEW s \in Small(n), s # {}
        PROVE  c(s) \in D /\ s \ {c(s)} \in Small(n - 1)
    BY OneLess, <1>0, <2>2
  <2>3. \A s \in Small(n - 1) : s \in Small(n) /\ h[s] = it[s]
    BY <1>0, <2>1
  <2>4. h \in [Small(n) -> Nat]
    <3>1. ASSUME NEW s \in Small(n) PROVE h[s] \in Nat
      <4> HIDE DEF c, Small
      <4> QED BY <2>1, <2>2
    <3> QED BY <3>1
  <2>5. ASSUME NEW s \in Small(n), s # {} PROVE h[s] = m[c(s)] + h[s \ {c(s)}]
    <3>1. h[s] = m[c(s)] + it[s \ {c(s)}]
      BY <2>5
    <3>2. h[s \ {c(s)}] = it[s \ {c(s)}]
      BY <2>2, <2>3, <2>5
    <3> QED BY <3>1, <3>2
  <2>6. \A s \in Small(n) : s = {} => h[s] = 0
    OBVIOUS
  <2> HIDE DEF h, c, Small
  <2>7. Upto(n, h)
    BY <2>4, <2>5, <2>6
  <2> HIDE DEF Upto
  <2> QED BY <2>7
<1> HIDE DEF P
<1>3. N \in P
  BY <1>0, <1>1, <1>2, Ascending
<1>4. PICK it : Upto(N, it)
  BY <1>3 DEF P
<1>5. Small(N) = SUBSET D
  BY <1>0
<1>6. it \in [SUBSET D -> Nat]
  BY <1>4, <1>5
<1>7. it = [s \in SUBSET D |-> IF s = {} THEN 0 ELSE m[c(s)] + it[s \ {c(s)}]]
  <2> HIDE DEF c
  <2> QED BY <1>4, <1>5, <1>6
<1>8. Sums(D, m, it)
  BY <1>7 DEF Sums
<1> QED BY <1>6, <1>8

\* A total grows at most as much as its terms do.
LEMMA TotalsCompare ==
    ASSUME NEW D, IsFiniteSet(D), NEW m \in [D -> Nat], NEW n \in [D -> Nat], NEW w,
           \A x \in D : n[x] <= m[x] + (IF x = w THEN 1 ELSE 0)
    PROVE  /\ Total(D, m) \in Nat /\ Total(D, n) \in Nat
           /\ Total(D, n) <= Total(D, m) + (IF w \in D THEN 1 ELSE 0)
<1> DEFINE a == CHOOSE it : Sums(D, m, it)
           b == CHOOSE it : Sums(D, n, it)
<1>1. Sums(D, m, a) /\ Sums(D, n, b)
  BY SumsExist
<1>2. /\ \A s \in SUBSET D : s = {} => a[s] = 0 /\ b[s] = 0
      /\ \A s \in SUBSET D : s # {} =>
            /\ a[s] = m[CHOOSE x \in s : TRUE] + a[s \ {CHOOSE x \in s : TRUE}]
            /\ b[s] = n[CHOOSE x \in s : TRUE] + b[s \ {CHOOSE x \in s : TRUE}]
  <2> HIDE DEF a, b
  <2> QED BY <1>1 DEF Sums
<1> HIDE DEF a, b
<1> DEFINE N == Cardinality(D)
           Close(s) == a[s] \in Nat /\ b[s] \in Nat /\ b[s] <= a[s] + (IF w \in s THEN 1 ELSE 0)
           P == {k \in 0 .. N : \A s \in SUBSET D : Cardinality(s) = k => Close(s)}
<1>3. /\ N \in Nat
      /\ \A s \in SUBSET D : Cardinality(s) = 0 <=> s = {}
  BY FS_CardinalityType, FS_Subset, FS_EmptySet
<1>4. 0 \in P
  BY <1>2, <1>3
<1>5. ASSUME NEW k \in 1 .. N, k - 1 \in P PROVE k \in P
  <2>1. ASSUME NEW s \in SUBSET D, Cardinality(s) = k PROVE Close(s)
    <3> DEFINE c == CHOOSE x \in s : TRUE
    <3>1. s # {}
      BY <1>3, <2>1
    <3>2. /\ c \in s /\ c \in D /\ s \ {c} \in SUBSET D
          /\ Cardinality(s \ {c}) = k - 1
      BY <2>1, <3>1, OneLess
    <3>3. a[s] = m[c] + a[s \ {c}] /\ b[s] = n[c] + b[s \ {c}]
      BY <1>2, <3>1
    <3> HIDE DEF c
    <3>4. Close(s \ {c})
      BY <1>5, <3>2
    <3>5. m[c] \in Nat /\ n[c] \in Nat /\ n[c] <= m[c] + (IF c = w THEN 1 ELSE 0)
      BY <3>2
    <3>6. CASE c = w
      BY <3>2, <3>3, <3>4, <3>5, <3>6
    <3>7. CASE c # w
      BY <3>2, <3>3, <3>4, <3>5, <3>7
    <3> QED BY <3>6, <3>7
  <2> QED BY <2>1
<1> HIDE DEF P
<1>6. N \in P
  BY <1>3, <1>4, <1>5, Ascending
<1>7. Close(D)
  BY <1>6 DEF P
<1> QED BY <1>7 DEF Total, a, b

\* A total of smaller terms is no larger.
LEMMA TotalNoMore ==
    ASSUME NEW D, IsFiniteSet(D), NEW m \in [D -> Nat], NEW n \in [D -> Nat], \A x \in D : n[x] <= m[x]
    PROVE  Total(D, m) \in Nat /\ Total(D, n) \in Nat /\ Total(D, n) <= Total(D, m)
<1>1. PICK w : w \notin D
  <2>1. {x \in D : x \notin x} \notin D
    OBVIOUS
  <2> QED BY <2>1
<1>2. \A x \in D : n[x] <= m[x] + (IF x = w THEN 1 ELSE 0)
  BY <1>1
<1>3. Total(D, m) \in Nat /\ Total(D, n) \in Nat
      /\ Total(D, n) <= Total(D, m) + (IF w \in D THEN 1 ELSE 0)
  BY <1>2, TotalsCompare
<1> QED BY <1>1, <1>3

\* Nothing adds up to nothing.
LEMMA TotalOfNothing == ASSUME NEW D, IsFiniteSet(D) PROVE Total(D, [w \in D |-> 0]) = 0
<1> DEFINE m == [w \in D |-> 0]
           a == CHOOSE it : Sums(D, m, it)
<1>1. Sums(D, m, a)
  <2>1. m \in [D -> Nat]
    OBVIOUS
  <2> HIDE DEF m
  <2> QED BY <2>1, SumsExist
<1>2. /\ \A s \in SUBSET D : s = {} => a[s] = 0
      /\ \A s \in SUBSET D : s # {} =>
            a[s] = m[CHOOSE x \in s : TRUE] + a[s \ {CHOOSE x \in s : TRUE}]
  <2> HIDE DEF a, m
  <2> QED BY <1>1 DEF Sums
<1> HIDE DEF a
<1> DEFINE N == Cardinality(D)
           P == {k \in 0 .. N : \A s \in SUBSET D : Cardinality(s) = k => a[s] = 0}
<1>3. /\ N \in Nat
      /\ \A s \in SUBSET D : Cardinality(s) = 0 <=> s = {}
  BY FS_CardinalityType, FS_Subset, FS_EmptySet
<1>4. 0 \in P
  BY <1>2, <1>3
<1>5. ASSUME NEW k \in 1 .. N, k - 1 \in P PROVE k \in P
  <2>1. ASSUME NEW s \in SUBSET D, Cardinality(s) = k PROVE a[s] = 0
    <3> DEFINE c == CHOOSE x \in s : TRUE
    <3>1. s # {}
      BY <1>3, <2>1
    <3>2. c \in D /\ s \ {c} \in SUBSET D /\ Cardinality(s \ {c}) = k - 1
      BY <2>1, <3>1, OneLess
    <3>3. a[s] = m[c] + a[s \ {c}]
      BY <1>2, <3>1
    <3> HIDE DEF c
    <3> QED BY <1>5, <3>2, <3>3
  <2> QED BY <2>1
<1> HIDE DEF P
<1>6. N \in P
  BY <1>3, <1>4, <1>5, Ascending
<1> QED BY <1>6 DEF Total, a, P

\* The numbers of T below t, as many as the position of t in the order of T.
Below(T, t) == {u \in T : u < t}

\* Every position in the order of T is that of one member.
LEMMA Ranked ==
    ASSUME NEW c \in Nat, NEW T \in SUBSET (1 .. c), NEW i \in 1 .. Cardinality(T)
    PROVE  \E t \in T : Cardinality(Below(T, t)) = i - 1
<1> DEFINE Upto(n) == {u \in T : u <= n}
           f(n) == Cardinality(Upto(n))
           W == {n \in 0 .. c : f(n) >= i}
<1>a. \A u \in T : u \in Nat /\ 1 <= u /\ u <= c
  OBVIOUS
<1>b. IsFiniteSet(T)
  <2>1. IsFiniteSet(1 .. c)
    BY FS_Interval
  <2> QED BY <2>1, FS_Subset
<1>0. \A n : IsFiniteSet(Upto(n)) /\ f(n) \in Nat
  <2>1. \A n : Upto(n) \in SUBSET T
    OBVIOUS
  <2> HIDE DEF Upto
  <2> QED BY <1>b, <2>1, FS_Subset, FS_CardinalityType
<1>1. f(0) = 0 /\ f(c) = Cardinality(T)
  <2>1. Upto(0) = {}
    <3>1. \A u \in T : ~(u <= 0)
      BY <1>a
    <3> QED BY <3>1
  <2>2. Upto(c) = T
    BY <1>a
  <2> HIDE DEF Upto
  <2> QED BY <2>1, <2>2, FS_EmptySet
<1>2. ASSUME NEW n \in 1 .. c PROVE f(n) = IF n \in T THEN f(n - 1) + 1 ELSE f(n - 1)
  <2>1. ASSUME n \in T PROVE Upto(n) = Upto(n - 1) \cup {n}
    <3>1. \A u \in T : u <= n <=> u <= n - 1 \/ u = n
      BY <1>a
    <3> QED BY <2>1, <3>1
  <2>2. ASSUME n \notin T PROVE Upto(n) = Upto(n - 1)
    <3>1. \A u \in T : u <= n <=> u <= n - 1
      BY <1>a, <2>2
    <3> QED BY <3>1
  <2>3. n \notin Upto(n - 1)
    OBVIOUS
  <2> HIDE DEF Upto
  <2> QED BY <1>0, <2>1, <2>2, <2>3, FS_AddElement
<1>3. PICK m \in W : \A k \in W : m <= k
  <2>1. W \in SUBSET Nat /\ c \in W
    <3> HIDE DEF f
    <3>1. Cardinality(T) \in Nat
      BY <1>b, FS_CardinalityType
    <3>2. f(c) >= i
      BY <1>1, <3>1
    <3> QED BY <3>2
  <2> HIDE DEF W
  <2> QED BY <2>1, Least
<1>c. \A n : f(n) \in Nat
  BY <1>0
<1> HIDE DEF f
<1>4. m \in 1 .. c /\ f(m) >= i
  BY <1>1
<1>5. f(m - 1) < i
  <2>1. m - 1 \notin W /\ m - 1 \in 0 .. c
    <3> HIDE DEF W
    <3> QED BY <1>3, <1>4
  <2> QED BY <1>c, <2>1
<1>6. m \in T /\ f(m - 1) = i - 1
  <2>1. f(m) \in Nat /\ f(m - 1) \in Nat
    BY <1>c
  <2> QED BY <1>2, <1>4, <1>5, <2>1
<1>7. Below(T, m) = Upto(m - 1)
  <2>1. \A u \in T : u < m <=> u <= m - 1
    BY <1>a, <1>4
  <2> QED BY <2>1 DEF Below
<1> QED BY <1>6, <1>7 DEF f

\* The positions follow the order.
LEMMA RanksDiffer ==
    ASSUME NEW c \in Nat, NEW T \in SUBSET (1 .. c), NEW t \in T
    PROVE  /\ Cardinality(T) \in Nat
           /\ Cardinality(Below(T, t)) \in 0 .. Cardinality(T) - 1
           /\ \A v \in T : t < v => Cardinality(Below(T, t)) < Cardinality(Below(T, v))
<1>a. \A u \in T : u \in Nat
  OBVIOUS
<1>0. IsFiniteSet(T)
  <2>1. IsFiniteSet(1 .. c)
    BY FS_Interval
  <2> QED BY <2>1, FS_Subset
<1>1. ASSUME NEW B \in SUBSET T, Below(T, t) \cup {t} \subseteq B
      PROVE  Cardinality(Below(T, t)) \in Nat /\ Cardinality(B) \in Nat
             /\ Cardinality(Below(T, t)) < Cardinality(B)
  <2>1. Below(T, t) \in SUBSET T /\ t \notin Below(T, t)
    BY <1>a DEF Below
  <2>2. IsFiniteSet(Below(T, t)) /\ IsFiniteSet(B)
    BY <1>0, <2>1, FS_Subset
  <2>3. Cardinality(Below(T, t) \cup {t}) = Cardinality(Below(T, t)) + 1
    BY <2>1, <2>2, FS_AddElement
  <2>4. Cardinality(Below(T, t) \cup {t}) <= Cardinality(B)
    BY <1>1, <2>2, FS_Subset
  <2> QED BY <2>2, <2>3, <2>4, FS_CardinalityType
<1>2. Below(T, t) \cup {t} \subseteq T
  BY DEF Below
<1>3. ASSUME NEW v \in T, t < v PROVE Below(T, t) \cup {t} \subseteq Below(T, v)
  <2>1. \A u \in T : u < t => u < v
    BY <1>a, <1>3
  <2> QED BY <1>3, <2>1 DEF Below
<1>4. \A v \in T : Below(T, v) \in SUBSET T
  BY DEF Below
<1>5. Cardinality(Below(T, t)) \in Nat /\ Cardinality(T) \in Nat
      /\ Cardinality(Below(T, t)) < Cardinality(T)
  BY <1>1, <1>2
<1>6. \A v \in T : t < v => Cardinality(Below(T, t)) < Cardinality(Below(T, v))
  BY <1>1, <1>3, <1>4
<1> QED BY <1>5, <1>6

-----------------------------------------------------------------------------
(* One level of the history.                                                 *)

\* What a level b holds of the snapshots A: in order, up to the last that reached it, and since
\* the first that it holds, every snapshot has a predecessor in it at a distance below d.
Ordered(b) == \A i, j \in 1 .. Len(b) : i < j => b[i].at < b[j].at
Covers(b, A, d) ==
    \A s \in A : b # <<>> /\ b[1].at <= s.at =>
        \E i \in 1 .. Len(b) : b[i].at <= s.at /\ s.at - b[i].at < d
Level(b, A, d, last) ==
    /\ b \in Seq(A) /\ Ordered(b) /\ Covers(b, A, d)
    /\ b # <<>> => b[Len(b)].at = last

Timed(A) == \A s \in A : s.at \in Nat

\* What is dropped is dropped from the front.
LEMMA DropLevel ==
    ASSUME NEW A, Timed(A), NEW d \in Nat, NEW last, NEW b, Level(b, A, d, last),
           NEW k \in 1 .. Len(b) + 1
    PROVE  Level(SubSeq(b, k, Len(b)), A, d, last)
<1> DEFINE r == SubSeq(b, k, Len(b))
<1>0. b \in Seq(A) /\ Len(b) \in Nat
  BY DEF Level
<1>1. /\ r \in Seq(A) /\ Len(r) = Len(b) + 1 - k
      /\ \A i \in 1 .. Len(r) : r[i] = b[i + k - 1]
  BY <1>0
<1>2. /\ \A i \in 1 .. Len(b) : b[i] \in A /\ b[i].at \in Nat
      /\ \A i \in 1 .. Len(r) : i + k - 1 \in 1 .. Len(b)
  BY <1>0, <1>1 DEF Timed
<1> HIDE DEF r
<1>3. Ordered(r)
  <2> SUFFICES ASSUME NEW i \in 1 .. Len(r), NEW j \in 1 .. Len(r), i < j
               PROVE  r[i].at < r[j].at
    BY DEF Ordered
  <2>1. /\ i + k - 1 \in 1 .. Len(b) /\ j + k - 1 \in 1 .. Len(b) /\ i + k - 1 < j + k - 1
        /\ r[i] = b[i + k - 1] /\ r[j] = b[j + k - 1]
    BY <1>0, <1>1, <1>2
  <2> QED BY <2>1 DEF Level, Ordered
<1>4. ASSUME r # <<>> PROVE Len(r) >= 1 /\ b # <<>> /\ r[Len(r)] = b[Len(b)] /\ r[1] = b[k]
                           /\ k \in 1 .. Len(b)
  BY <1>0, <1>1, <1>4
<1>5. Covers(r, A, d)
  <2> SUFFICES ASSUME NEW s \in A, r # <<>>, r[1].at <= s.at
               PROVE  \E i \in 1 .. Len(r) : r[i].at <= s.at /\ s.at - r[i].at < d
    BY DEF Covers
  <2>1. b[1].at <= b[k].at /\ b[1].at \in Nat /\ b[k].at \in Nat /\ s.at \in Nat
    <3>1. 1 \in 1 .. Len(b) /\ k \in 1 .. Len(b)
      BY <1>0, <1>4
    <3>2. 1 < k => b[1].at < b[k].at
      BY <3>1 DEF Level, Ordered
    <3>3. b[1].at \in Nat /\ b[k].at \in Nat
      BY <1>2, <3>1
    <3>4. 1 = k \/ 1 < k
      BY <3>1
    <3> QED BY <3>2, <3>3, <3>4 DEF Timed
  <2>2. PICK i \in 1 .. Len(b) : b[i].at <= s.at /\ s.at - b[i].at < d
    <3>1. b # <<>> /\ r[1] = b[k]
      BY <1>4
    <3>2. b[1].at <= s.at
      BY <2>1, <3>1
    <3> QED BY <3>1, <3>2 DEF Level, Covers
  <2>3. CASE i >= k
    <3>1. i - k + 1 \in 1 .. Len(r) /\ r[i - k + 1] = b[i]
      BY <1>0, <1>1, <2>3
    <3> QED BY <2>2, <3>1
  <2>4. CASE i < k
    <3>1. b[i].at < b[k].at
      BY <1>4, <2>4 DEF Level, Ordered
    <3>2. s.at - b[k].at < d
      BY <1>2, <2>1, <2>2, <3>1
    <3>3. 1 \in 1 .. Len(r)
      BY <1>1, <1>4
    <3> QED BY <1>4, <3>2, <3>3
  <2> QED BY <2>3, <2>4
<1>6. r # <<>> => r[Len(r)].at = last
  BY <1>4 DEF Level
<1> QED BY <1>1, <1>3, <1>5, <1>6 DEF Level, r

\* A snapshot that reaches the level.
LEMMA AppendLevel ==
    ASSUME NEW A, NEW p, Timed(A \cup {p}), \A s \in A : s.at < p.at, NEW d \in Nat \ {0}, NEW last,
           NEW b, Level(b, A, d, last)
    PROVE  Level(Append(b, p), A \cup {p}, d, p.at)
<1> DEFINE r == Append(b, p)
           B == A \cup {p}
<1>0. b \in Seq(A) /\ b \in Seq(B) /\ Len(b) \in Nat
  BY DEF Level
<1>1. /\ r \in Seq(B) /\ Len(r) = Len(b) + 1 /\ r[Len(b) + 1] = p
      /\ \A i \in 1 .. Len(b) : r[i] = b[i]
  BY <1>0
<1>2. \A i \in 1 .. Len(b) : b[i] \in A /\ b[i].at \in Nat
  BY <1>0 DEF Timed
<1>3. p.at \in Nat
  BY DEF Timed
<1> HIDE DEF r
<1>4. Ordered(r)
  <2> SUFFICES ASSUME NEW i \in 1 .. Len(r), NEW j \in 1 .. Len(r), i < j
               PROVE  r[i].at < r[j].at
    BY DEF Ordered
  <2>1. i \in 1 .. Len(b)
    BY <1>0, <1>1
  <2>2. CASE j = Len(b) + 1
    BY <1>1, <1>2, <2>1, <2>2
  <2>3. CASE j # Len(b) + 1
    BY <1>0, <1>1, <2>1, <2>3 DEF Level, Ordered
  <2> QED BY <2>2, <2>3
<1>5. Covers(r, B, d)
  <2> SUFFICES ASSUME NEW s \in B, r[1].at <= s.at
               PROVE  \E i \in 1 .. Len(r) : r[i].at <= s.at /\ s.at - r[i].at < d
    BY DEF Covers
  <2>1. CASE s = p
    <3>1. Len(b) + 1 \in 1 .. Len(r)
      BY <1>0, <1>1
    <3> QED BY <1>1, <1>3, <2>1, <3>1
  <2>2. CASE s \in A
    <3>1. b # <<>>
      BY <1>0, <1>1, <1>3, <2>2 DEF Timed
    <3>2. 1 \in 1 .. Len(b)
      BY <1>0, <3>1
    <3>3. PICK i \in 1 .. Len(b) : b[i].at <= s.at /\ s.at - b[i].at < d
      BY <1>1, <2>2, <3>1, <3>2 DEF Level, Covers
    <3> QED BY <1>0, <1>1, <3>3
  <2> QED BY <2>1, <2>2
<1> QED BY <1>1, <1>4, <1>5 DEF Level, r

\* A snapshot that comes too soon for it.
LEMMA SkipLevel ==
    ASSUME NEW A, NEW p, Timed(A \cup {p}), NEW d \in Nat, NEW last, last <= p.at,
           p.at - last < d, NEW b, Level(b, A, d, last)
    PROVE  Level(b, A \cup {p}, d, last)
<1>0. b \in Seq(A) /\ b \in Seq(A \cup {p}) /\ Len(b) \in Nat
  BY DEF Level
<1>1. Covers(b, A \cup {p}, d)
  <2> SUFFICES ASSUME b # <<>>
               PROVE  \E i \in 1 .. Len(b) : b[i].at <= p.at /\ p.at - b[i].at < d
    BY DEF Level, Covers
  <2>1. Len(b) \in 1 .. Len(b)
    BY <1>0
  <2> QED BY <2>1 DEF Level
<1> QED BY <1>0, <1>1 DEF Level

-----------------------------------------------------------------------------
(* The intervals of the levels, and what is retained of one level.           *)

S == Met!SumOfIntervals

\* S exists, and adds the intervals one by one.
LEMMA SumsOfIntervals ==
    /\ Len(Intervals) \in Nat /\ \A l \in 1 .. Len(Intervals) : Intervals[l] \in Nat \ {0}
    /\ \A l \in 0 .. Len(Intervals) : S[l] \in Nat
    /\ \A l \in 1 .. Len(Intervals) : S[l] = S[l - 1] + Intervals[l]
<1> DEFINE N == Len(Intervals)
           Upto(n, g) ==
               g \in [0 .. n -> Nat]
               /\ \A l \in 0 .. n : g[l] = IF l = 0 THEN 0 ELSE g[l - 1] + Intervals[l]
           P == {n \in 0 .. N : \E g : Upto(n, g)}
<1>1. N \in Nat /\ \A l \in 1 .. N : Intervals[l] \in Nat \ {0}
  BY MetricsAssumption
<1>2. 0 \in P
  <2>1. Upto(0, [l \in 0 .. 0 |-> 0])
    OBVIOUS
  <2> HIDE DEF Upto
  <2> QED BY <1>1, <2>1
<1>3. ASSUME NEW n \in 1 .. N, n - 1 \in P PROVE n \in P
  <2>1. PICK g : Upto(n - 1, g)
    BY <1>3
  <2> DEFINE h == [l \in 0 .. n |-> IF l = n THEN g[n - 1] + Intervals[n] ELSE g[l]]
  <2>2. Upto(n, h)
    <3>1. \A l \in 0 .. n : h[l] \in Nat
      BY <1>1, <2>1
    <3>2. h \in [0 .. n -> Nat]
      BY <3>1
    <3>3. ASSUME NEW l \in 0 .. n PROVE h[l] = IF l = 0 THEN 0 ELSE h[l - 1] + Intervals[l]
      BY <2>1
    <3> QED BY <3>2, <3>3
  <2> HIDE DEF Upto
  <2> QED BY <2>2
<1> HIDE DEF P
<1>4. N \in P
  <2> HIDE DEF N
  <2>1. \A n \in 0 .. N : n \in P
    BY <1>1, <1>2, <1>3, Ascending
  <2> QED BY <1>1, <2>1
<1>5. PICK g : Upto(N, g)
  BY <1>4 DEF P
<1>6. g = [l \in 0 .. Len(Intervals) |-> IF l = 0 THEN 0 ELSE g[l - 1] + Intervals[l]]
  BY <1>5
<1>7. S = [l \in 0 .. Len(Intervals) |-> IF l = 0 THEN 0 ELSE S[l - 1] + Intervals[l]]
  BY <1>6 DEF S, Met!SumOfIntervals
<1> DEFINE Q == {n \in 0 .. N : S[n] \in Nat}
<1>8. N \in Nat /\ S[0] = 0 /\ \A l \in 1 .. N : S[l] = S[l - 1] + Intervals[l]
  <2>1. \A l \in 1 .. N : l # 0 /\ l \in 0 .. N
    BY <1>1
  <2>2. 0 \in 0 .. N
    BY <1>1
  <2> HIDE DEF S
  <2> QED BY <1>1, <1>7, <2>1, <2>2
<1>9. \A n \in 0 .. N : n \in Q
  <2>1. 0 \in Q /\ \A n \in 1 .. N : n - 1 \in Q => n \in Q
    BY <1>1, <1>8
  <2> HIDE DEF Q
  <2> QED BY <1>1, <2>1, Ascending
<1> QED BY <1>1, <1>8, <1>9

\* The sums ascend, and are positive from the first level on.
LEMMA SumsGrow ==
    ASSUME NEW k \in 0 .. Len(Intervals), NEW l \in 0 .. Len(Intervals), k <= l
    PROVE  S[k] <= S[l] /\ (l >= 1 => S[l] >= 1)
<1> DEFINE N == Len(Intervals)
           Q == {n \in 0 .. N : k <= n => S[k] <= S[n]}
<1>0. /\ N \in Nat /\ \A n \in 0 .. N : S[n] \in Nat
      /\ \A n \in 1 .. N : S[n - 1] <= S[n]
  <2>1. ASSUME NEW n \in 1 .. N PROVE S[n - 1] <= S[n]
    <3>1. n \in 0 .. N /\ n - 1 \in 0 .. N
      BY SumsOfIntervals
    <3>2. S[n - 1] \in Nat /\ Intervals[n] \in Nat /\ S[n] = S[n - 1] + Intervals[n]
      BY <3>1, SumsOfIntervals
    <3> QED BY <3>2
  <2> QED BY <2>1, SumsOfIntervals
<1>1. 0 \in Q /\ \A n \in 1 .. N : n - 1 \in Q => n \in Q
  <2>1. 0 \in Q
    BY <1>0
  <2>2. ASSUME NEW n \in 1 .. N, k <= n - 1 => S[k] <= S[n - 1], k <= n PROVE S[k] <= S[n]
    <3>1. CASE k = n
      BY <1>0, <3>1
    <3>2. CASE k <= n - 1
      <4>1. S[k] \in Nat /\ S[n - 1] \in Nat /\ S[n] \in Nat
        BY <1>0
      <4> QED BY <1>0, <2>2, <3>2, <4>1
    <3> QED BY <2>2, <3>1, <3>2
  <2> QED BY <1>0, <2>1, <2>2
<1>2. \A n \in 0 .. N : n \in Q
  <2> HIDE DEF Q, N
  <2> QED BY <1>0, <1>1, Ascending
<1>3. l >= 1 => S[l] >= 1
  BY SumsOfIntervals
<1> QED BY <1>2, <1>3

\* Expiry drops a prefix.
LEMMA PrefixIsOld ==
    ASSUME NEW s, Len(s) \in Nat, NEW now
    PROVE  Met!Max(Met!tooOld(s, now)) \in 0 .. Len(s)
<1> DEFINE old == Met!tooOld(s, now)
           T == {Len(s) - n : n \in old}
<1>1. old \in SUBSET (0 .. Len(s)) /\ 0 \in old
  BY DEF Met!tooOld
<1> HIDE DEF old
<1>2. PICK m \in T : \A k \in T : m <= k
  <2>1. \A n \in old : Len(s) - n \in Nat
    BY <1>1
  <2>2. T \in SUBSET Nat /\ T # {}
    BY <1>1, <2>1
  <2> HIDE DEF T
  <2> QED BY <2>2, Least
<1>3. PICK n \in old : m = Len(s) - n
  OBVIOUS
<1>4. \A k \in old : n >= k
  <2>1. ASSUME NEW k \in old PROVE n >= k
    <3>1. m <= Len(s) - k
      BY <1>2
    <3> QED BY <1>1, <1>3, <3>1
  <2> QED BY <2>1
<1>5. Met!Max(old) \in old
  BY <1>4 DEF Met!Max
<1> QED BY <1>1, <1>5 DEF old

\* What expire and trimmed leave is a level still.
LEMMA ExpireLevel ==
    ASSUME NEW A, Timed(A), NEW d \in Nat, NEW last, NEW now, NEW b, Level(b, A, d, last)
    PROVE  LET r == Met!expire(b, now) IN Level(r, A, d, last) /\ Len(r) <= Len(b)
<1>1. b \in Seq(A) /\ Len(b) \in Nat
  BY DEF Level
<1> DEFINE m == Met!Max(Met!tooOld(b, now))
<1>2. m + 1 \in 1 .. Len(b) + 1
  BY <1>1, PrefixIsOld
<1> HIDE DEF m
<1>3. Level(SubSeq(b, m + 1, Len(b)), A, d, last)
  BY <1>2, DropLevel
<1>4. Len(SubSeq(b, m + 1, Len(b))) <= Len(b)
  BY <1>1, <1>2
<1> DEFINE r == Met!expire(b, now)
<1>5. r = b \/ r = SubSeq(b, m + 1, Len(b))
  BY DEF Met!expire, m
<1> HIDE DEF r
<1>6. CASE r = b
  BY <1>1, <1>6 DEF r
<1>7. CASE r = SubSeq(b, m + 1, Len(b))
  BY <1>3, <1>4, <1>7 DEF r
<1> QED BY <1>5, <1>6, <1>7

LEMMA TrimLevel ==
    ASSUME NEW A, Timed(A), NEW d \in Nat, NEW last, NEW b, Level(b, A, d, last)
    PROVE  LET r == Met!trimmed(b) IN Level(r, A, d, last) /\ Len(r) <= PerLevel
<1>1. b \in Seq(A) /\ Len(b) \in Nat /\ PerLevel \in Nat \ {0}
  BY MetricsAssumption DEF Level
<1>2. CASE Len(b) > PerLevel
  <2>1. Len(b) - PerLevel + 1 \in 1 .. Len(b) + 1
    BY <1>1, <1>2
  <2>2. Level(SubSeq(b, Len(b) - PerLevel + 1, Len(b)), A, d, last)
    BY <2>1, DropLevel
  <2>3. Len(SubSeq(b, Len(b) - PerLevel + 1, Len(b))) <= PerLevel
    BY <1>1, <1>2
  <2> QED BY <1>2, <2>2, <2>3 DEF Met!trimmed
<1>3. CASE ~(Len(b) > PerLevel)
  BY <1>1, <1>3 DEF Met!trimmed
<1> QED BY <1>2, <1>3

-----------------------------------------------------------------------------
(* The inductive invariant of the counters.                                  *)

Reports == [Sources -> [execs : Nat, coverage : Nat]]

Execs(r) == [w \in Sources |-> r[w].execs]

\* What a worker's process has executed, or what its last report claims when that is more,
\* because the process was restarted since.
Most(d, r) ==
    [w \in Sources |-> IF d[w].execs > r[w].execs THEN d[w].execs ELSE r[w].execs]

\* The workers' claims, and what the next reports will make of them, stay within the truth.
Accounted ==
    /\ clock \in 1 .. MaxTime /\ truth \in 0 .. MaxExecs
    /\ did \in Reports /\ perWorker \in Reports
    /\ current.execs = Total(Sources, Execs(perWorker))
    /\ Total(Sources, Most(did, perWorker)) <= truth

\* The instants: a coarser level was reached no later than a finer one, and by less than the
\* intervals between them earlier.
Instants ==
    /\ current.at \in 0 .. clock
    /\ \A s \in added : s.at \in 1 .. current.at
    /\ lastAt \in [Met!Levels -> 0 .. current.at]
    /\ \/ added = {} /\ \A l \in Met!Levels : lastAt[l] = 0
       \/ \A l \in Met!Levels : lastAt[l] # 0
    /\ \A k, l \in Met!Levels :
         k <= l => lastAt[l] <= lastAt[k] /\ lastAt[k] + S[k] <= lastAt[l] + S[l]

Held ==
    \A l \in Met!Levels :
        Len(levels[l]) <= PerLevel /\ Level(levels[l], added, S[l], lastAt[l])

MetricsInv == part = "metrics" => Accounted /\ Instants /\ Held

\* The total of recompute.
LEMMA TotalOfReports ==
    ASSUME NEW r
    PROVE  Met!MapThenSumSet(LAMBDA w : r[w].execs, Sources) = Total(Sources, Execs(r))
<1>1. Met!MapThenSumSet(LAMBDA w : r[w].execs, Sources) =
      (CHOOSE it : it = [s \in SUBSET Sources |->
           IF s = {} THEN 0
           ELSE r[CHOOSE x \in s : TRUE].execs + it[s \ {CHOOSE x \in s : TRUE}]])[Sources]
  BY DEF Met!MapThenSumSet, Met!MapThenFoldSet
<1> QED BY <1>1 DEF Sums, Execs, Total

\* The initial state.
LEMMA MetricsStart == part = "metrics" /\ Met!Init => MetricsInv
<1> SUFFICES ASSUME Met!Init PROVE Accounted /\ Instants /\ Held
  BY DEF MetricsInv
<1> USE DEF Met!Init, Met!Zero
<1>1. Execs(perWorker) = [w \in Sources |-> 0] /\ Most(did, perWorker) = [w \in Sources |-> 0]
  BY DEF Execs, Most
<1>2. Accounted
  <2>1. did \in Reports /\ perWorker \in Reports
    BY DEF Reports
  <2> QED BY <1>1, <2>1, TotalOfNothing, MetricsAssumption DEF Accounted
<1>3. Instants
  <2>1. \A k, l \in Met!Levels : k <= l => S[k] <= S[l] /\ S[k] \in Nat /\ S[l] \in Nat
    BY SumsOfIntervals, SumsGrow DEF Met!Levels
  <2> HIDE DEF S
  <2> QED BY <2>1 DEF Instants
<1>4. Held
  <2>1. PerLevel \in Nat
    BY MetricsAssumption
  <2>2. \A d, last : Level(<<>>, {}, d, last)
    BY DEF Level, Ordered, Covers
  <2> QED BY <2>1, <2>2 DEF Held
<1> QED BY <1>2, <1>3, <1>4

\* The arithmetic of a level at b and a finer one at a that is not reached at t.
LEMMA Behind ==
    ASSUME NEW t \in Nat, NEW a \in Nat, NEW i \in Nat, NEW x \in Nat, NEW y \in Nat,
           NEW b \in Nat, NEW z \in Nat, NEW u \in Nat,
           t < a + i, y = x + i, a + y <= b + z, u <= x
    PROVE  t < b + z /\ t + u < b + z
OBVIOUS

\* A level that a snapshot at t does not reach is at most its intervals behind it.
LEMMA Unreached ==
    ASSUME Instants, NEW l \in Met!Levels, NEW t \in Nat, ~Met!reaches(l, t)
    PROVE  /\ t < lastAt[l] + S[l]
           /\ \A j \in Met!Levels : Met!reaches(j, t) => j < l /\ t + S[j] < lastAt[l] + S[l]
           /\ \A j \in Met!Levels : lastAt[j] # 0
<1>1. PICK k \in 1 .. l : lastAt[k] # 0 /\ ~(t - lastAt[k] >= Intervals[k])
  BY DEF Met!reaches
<1>2. /\ k \in Met!Levels /\ k <= l /\ k \in 1 .. Len(Intervals) /\ Len(Intervals) \in Nat
      /\ lastAt[k] \in Nat /\ lastAt[l] \in Nat
  <2>1. Len(Intervals) \in Nat /\ l \in 1 .. Len(Intervals)
    BY SumsOfIntervals DEF Met!Levels
  <2>2. k \in 1 .. Len(Intervals) /\ k <= l
    BY <2>1
  <2>3. current.at \in Nat /\ \A j \in Met!Levels : lastAt[j] \in 0 .. current.at
    BY DEF Instants
  <2>4. \A j \in Met!Levels : lastAt[j] \in Nat
    BY <2>3
  <2> QED BY <2>1, <2>2, <2>4 DEF Met!Levels
<1>3. /\ S[k] \in Nat /\ S[k - 1] \in Nat /\ S[l] \in Nat /\ S[k] = S[k - 1] + Intervals[k]
      /\ Intervals[k] \in Nat
  BY <1>2, SumsOfIntervals DEF Met!Levels
<1>4. lastAt[k] + S[k] <= lastAt[l] + S[l]
  BY <1>2 DEF Instants
<1> HIDE DEF S
<1>5. ASSUME NEW u \in Nat, u <= S[k - 1]
      PROVE  t < lastAt[l] + S[l] /\ t + u < lastAt[l] + S[l]
  <2> DEFINE a == lastAt[k]
             i == Intervals[k]
             x == S[k - 1]
             y == S[k]
             b == lastAt[l]
             z == S[l]
  <2>1. ~(t - a >= i) /\ y = x + i /\ a + y <= b + z /\ u <= x
    <3>1. ~(t - a >= i)
      BY <1>1
    <3>2. y = x + i
      BY <1>3
    <3>3. a + y <= b + z
      BY <1>4
    <3> QED BY <1>5, <3>1, <3>2, <3>3
  <2>2. a \in Nat /\ i \in Nat /\ x \in Nat /\ y \in Nat /\ b \in Nat /\ z \in Nat
    BY <1>2, <1>3
  <2> HIDE DEF a, i, x, y, b, z
  <2>3. t < b + z /\ t + u < b + z
    <3>1. t < a + i
      BY <2>1, <2>2
    <3> QED BY <2>1, <2>2, <3>1, Behind
  <2> QED BY <2>3 DEF b, z
<1>6. ASSUME NEW j \in Met!Levels, Met!reaches(j, t)
      PROVE  j < l /\ t + S[j] < lastAt[l] + S[l]
  <2>1. j < k
    BY <1>1, <1>2, <1>6 DEF Met!reaches, Met!Levels
  <2>2. S[j] \in Nat /\ S[j] <= S[k - 1]
    BY <1>2, <2>1, SumsOfIntervals, SumsGrow DEF Met!Levels
  <2>3. j < l
    BY <1>2, <2>1 DEF Met!Levels
  <2> QED BY <1>5, <2>2, <2>3
<1>8. t < lastAt[l] + S[l]
  <2>1. S[k - 1] <= S[k - 1]
    BY <1>3
  <2> QED BY <1>3, <1>5, <2>1
<1>7. \A j \in Met!Levels : lastAt[j] # 0
  BY <1>1, <1>2 DEF Instants
<1> QED BY <1>6, <1>7, <1>8

\* Add keeps the order of the levels, and what they hold.
LEMMA AddKeeps ==
    ASSUME Instants, Held, NEW p, p.at = clock, clock \in Nat, current.at < p.at,
           Met!Add(p), current' = p, clock' = clock
    PROVE  Instants' /\ Held'
<1>1. /\ p.at \in Nat /\ p.at >= 1 /\ current.at \in Nat
      /\ Timed(added \cup {p}) /\ Timed(added) /\ \A s \in added : s.at < p.at
      /\ added' = added \cup {p}
  BY DEF Instants, Timed, Met!Add
<1>2. /\ lastAt' = [l \in Met!Levels |-> IF Met!reaches(l, p.at) THEN p.at ELSE lastAt[l]]
      /\ \A l \in Met!Levels : lastAt[l] \in Nat /\ lastAt[l] <= current.at
      /\ \A l \in Met!Levels : l \in 1 .. Len(Intervals) /\ S[l] \in Nat \ {0}
  <2>1. \A l \in Met!Levels : l \in 1 .. Len(Intervals) /\ S[l] \in Nat \ {0}
    <3>1. ASSUME NEW l \in 1 .. Len(Intervals) PROVE S[l] \in Nat \ {0}
      <4>1. l \in 0 .. Len(Intervals) /\ l >= 1
        BY <3>1, SumsOfIntervals
      <4>2. S[l] \in Nat
        BY <4>1, SumsOfIntervals
      <4>3. S[l] >= 1
        BY <4>1, SumsGrow
      <4> QED BY <4>2, <4>3
    <3> QED BY <3>1 DEF Met!Levels
  <2> QED BY <2>1 DEF Met!Add, Met!lastAfter, Instants
<1> HIDE DEF S
<1>3. Instants'
  <2>1. current'.at \in 0 .. clock' /\ \A s \in added' : s.at \in 1 .. current'.at
    BY <1>1 DEF Instants
  <2>2. lastAt' \in [Met!Levels -> 0 .. current'.at]
    BY <1>1, <1>2
  <2>3. \A l \in Met!Levels : lastAt'[l] # 0
    <3>1. CASE \A l \in Met!Levels : lastAt[l] # 0
      BY <1>1, <1>2, <3>1
    <3>2. CASE \A l \in Met!Levels : lastAt[l] = 0
      <4>1. ASSUME NEW l \in Met!Levels PROVE Met!reaches(l, p.at)
        <5>1. \A k \in 1 .. l : k \in Met!Levels
          BY SumsOfIntervals DEF Met!Levels
        <5> QED BY <3>2, <5>1 DEF Met!reaches
      <4> QED BY <1>1, <1>2, <4>1
    <3> QED BY <3>1, <3>2 DEF Instants
  <2>4. ASSUME NEW k \in Met!Levels, NEW l \in Met!Levels, k <= l
        PROVE  lastAt'[l] <= lastAt'[k] /\ lastAt'[k] + S[k] <= lastAt'[l] + S[l]
    <3>1. S[k] <= S[l]
      BY <1>2, <2>4, SumsGrow, SumsOfIntervals
    <3>2. CASE Met!reaches(l, p.at)
      <4>1. Met!reaches(k, p.at)
        BY <1>2, <2>4, <3>2 DEF Met!reaches
      <4> QED BY <1>1, <1>2, <3>1, <3>2, <4>1
    <3>3. CASE ~Met!reaches(l, p.at) /\ Met!reaches(k, p.at)
      <4>1. p.at + S[k] < lastAt[l] + S[l]
        BY <1>1, <3>3, Unreached
      <4> QED BY <1>1, <1>2, <3>3, <4>1
    <3>4. CASE ~Met!reaches(l, p.at) /\ ~Met!reaches(k, p.at)
      BY <1>2, <2>4, <3>4 DEF Instants
    <3> QED BY <3>2, <3>3, <3>4
  <2> QED BY <2>1, <2>2, <2>3, <2>4 DEF Instants
<1>4. Held'
  <2> SUFFICES ASSUME NEW l \in Met!Levels
               PROVE  /\ Len(levels'[l]) <= PerLevel
                      /\ Level(levels'[l], added', S[l], lastAt'[l])
    BY DEF Held
  <2>1. /\ Len(levels[l]) <= PerLevel /\ Level(levels[l], added, S[l], lastAt[l])
        /\ S[l] \in Nat /\ S[l] \in Nat \ {0} /\ PerLevel \in Nat /\ Timed(added')
    BY <1>1, <1>2, MetricsAssumption DEF Held
  <2>2. CASE Met!reaches(l, p.at)
    <3> DEFINE b == Append(levels[l], p)
               c == Met!trimmed(b)
    <3>1. levels'[l] = Met!expire(c, p.at) /\ lastAt'[l] = p.at
      BY <1>2, <2>2 DEF Met!Add
    <3>2. Level(b, added', S[l], p.at)
      BY <1>1, <2>1, AppendLevel
    <3> HIDE DEF b
    <3>3. Level(c, added', S[l], p.at) /\ Len(c) <= PerLevel
      BY <2>1, <3>2, TrimLevel
    <3> HIDE DEF c
    <3>4. Level(Met!expire(c, p.at), added', S[l], p.at) /\ Len(Met!expire(c, p.at)) <= Len(c)
      BY <2>1, <3>3, ExpireLevel
    <3>5. Len(c) \in Nat /\ Len(Met!expire(c, p.at)) \in Nat
      BY <3>3, <3>4 DEF Level
    <3> QED BY <2>1, <3>1, <3>3, <3>4, <3>5
  <2>3. CASE ~Met!reaches(l, p.at)
    <3> DEFINE b == levels[l]
    <3>1. levels'[l] = Met!expire(b, p.at) /\ lastAt'[l] = lastAt[l]
      BY <1>2, <2>3 DEF Met!Add
    <3>2. lastAt[l] <= p.at /\ p.at - lastAt[l] < S[l]
      <4>1. p.at < lastAt[l] + S[l]
        BY <1>1, <2>3, Unreached
      <4> QED BY <1>1, <1>2, <4>1
    <3> HIDE DEF b
    <3>3. Level(b, added', S[l], lastAt[l])
      BY <1>1, <2>1, <3>2, SkipLevel DEF b
    <3>4. Level(Met!expire(b, p.at), added', S[l], lastAt[l]) /\ Len(Met!expire(b, p.at)) <= Len(b)
      BY <2>1, <3>3, ExpireLevel
    <3>5. Len(b) \in Nat /\ Len(Met!expire(b, p.at)) \in Nat
      BY <3>3, <3>4 DEF Level
    <3> QED BY <2>1, <3>1, <3>4, <3>5 DEF b
  <2> QED BY <2>2, <2>3
<1> QED BY <1>3, <1>4

\* Each action keeps the invariant.
LEMMA MetricsStep ==
    ASSUME part = "metrics", MetricsInv, Met!Next, part' = part
    PROVE  MetricsInv'
<1>0. Accounted /\ Instants /\ Held
  BY DEF MetricsInv
<1>t. /\ clock \in Nat /\ truth \in Nat /\ MaxTime \in Nat /\ MaxExecs \in Nat
      /\ \A w \in Sources : did[w].execs \in Nat /\ perWorker[w].execs \in Nat
      /\ Most(did, perWorker) \in [Sources -> Nat]
  <2>1. \A w \in Sources : did[w] \in [execs : Nat, coverage : Nat]
                        /\ perWorker[w] \in [execs : Nat, coverage : Nat]
    BY <1>0 DEF Accounted, Reports
  <2>2. \A w \in Sources : did[w].execs \in Nat /\ perWorker[w].execs \in Nat
    BY <2>1
  <2> QED BY <1>0, <2>2, MetricsAssumption DEF Accounted, Most
<1>1. ASSUME NEW w \in Sources, Met!execute(w) PROVE Accounted' /\ Instants' /\ Held'
  <2> USE <1>1 DEF Met!execute
  <2>1. did' \in Reports
    <3>1. did[w].execs \in Nat /\ did[w].coverage \in Nat
      BY <1>0 DEF Accounted, Reports
    <3>2. \A c \in {0, 1} : [execs |-> did[w].execs + 1, coverage |-> did[w].coverage + c]
                              \in [execs : Nat, coverage : Nat]
      BY <3>1
    <3> QED BY <1>0, <3>2 DEF Accounted, Reports
  <2>2. \A x \in Sources : did'[x].execs = did[x].execs + (IF x = w THEN 1 ELSE 0)
    <3>1. PICK c \in {0, 1} :
              did' = [did EXCEPT ![w] = [execs |-> @.execs + 1, coverage |-> @.coverage + c]]
      OBVIOUS
    <3> QED BY <1>0, <1>t, <3>1 DEF Accounted, Reports
  <2>3. /\ Most(did', perWorker) \in [Sources -> Nat]
        /\ \A x \in Sources :
             Most(did', perWorker)[x] <= Most(did, perWorker)[x] + (IF x = w THEN 1 ELSE 0)
    BY <1>t, <2>2 DEF Most
  <2>4. /\ Total(Sources, Most(did, perWorker)) \in Nat /\ Total(Sources, Most(did', perWorker)) \in Nat
        /\ Total(Sources, Most(did', perWorker)) <= Total(Sources, Most(did, perWorker)) + 1
    <3>1. IsFiniteSet(Sources)
      BY MetricsAssumption
    <3> DEFINE m == Most(did, perWorker)
               n == Most(did', perWorker)
    <3>2. m \in [Sources -> Nat] /\ n \in [Sources -> Nat]
          /\ \A x \in Sources : n[x] <= m[x] + (IF x = w THEN 1 ELSE 0)
      BY <1>t, <2>3
    <3> HIDE DEF m, n
    <3>3. /\ Total(Sources, m) \in Nat /\ Total(Sources, n) \in Nat
          /\ Total(Sources, n) <= Total(Sources, m) + (IF w \in Sources THEN 1 ELSE 0)
      BY <3>1, <3>2, TotalsCompare
    <3> QED BY <3>3 DEF m, n
  <2>5. Total(Sources, Most(did', perWorker)) <= truth + 1 /\ truth + 1 \in 0 .. MaxExecs
    BY <1>0, <1>t, <2>4 DEF Accounted
  <2>6. Accounted'
    BY <1>0, <2>1, <2>5 DEF Accounted
  <2> QED BY <1>0, <2>6 DEF Instants, Held, S
<1>2. ASSUME NEW w \in Sources, Met!restart(w) PROVE Accounted' /\ Instants' /\ Held'
  <2> USE <1>2 DEF Met!restart, Met!Zero
  <2>1. did' \in Reports
    BY <1>0 DEF Accounted, Reports
  <2>2. \A x \in Sources : did'[x].execs \in Nat /\ did'[x].execs <= did[x].execs
    BY <1>0, <1>t DEF Accounted, Reports
  <2>3. /\ Most(did', perWorker) \in [Sources -> Nat]
        /\ \A x \in Sources :
             Most(did', perWorker)[x] <= Most(did, perWorker)[x]
    BY <1>t, <2>2 DEF Most
  <2>4. /\ Total(Sources, Most(did, perWorker)) \in Nat /\ Total(Sources, Most(did', perWorker)) \in Nat
        /\ Total(Sources, Most(did', perWorker)) <= Total(Sources, Most(did, perWorker))
    BY <1>t, <2>3, TotalNoMore, MetricsAssumption
  <2>5. Total(Sources, Most(did', perWorker)) <= truth
    BY <1>0, <1>t, <2>4 DEF Accounted
  <2>6. Accounted'
    BY <1>0, <2>1, <2>5 DEF Accounted
  <2> QED BY <1>0, <2>6 DEF Instants, Held, S
<1>3. ASSUME Met!tick PROVE Accounted' /\ Instants' /\ Held'
  <2> USE <1>3 DEF Met!tick
  <2>1. Accounted'
    BY <1>0, <1>t DEF Accounted
  <2>2. Instants'
    BY <1>0, <1>t DEF Instants, S
  <2> QED BY <1>0, <2>1, <2>2 DEF Held, S
<1>4. ASSUME NEW w \in Sources, Met!Report(w) PROVE Accounted' /\ Instants' /\ Held'
  <2> DEFINE reports == [perWorker EXCEPT ![w] = did[w]]
             total == Met!recompute(reports, clock)
  <2>1. /\ current.at < clock /\ perWorker' = reports /\ current' = total /\ Met!Add(total)
        /\ UNCHANGED <<clock, did, truth, resets>>
    BY <1>4 DEF Met!Report
  <2>2. total.at = clock /\ total.execs = Total(Sources, Execs(reports))
    BY TotalOfReports DEF Met!recompute
  <2>3. reports \in Reports
    BY <1>0 DEF Accounted, Reports
  <2>4. \A x \in Sources : reports[x].execs = IF x = w THEN did[x].execs ELSE perWorker[x].execs
    BY <1>0 DEF Accounted, Reports
  <2> HIDE DEF reports, total
  <2>5. /\ Most(did, reports) \in [Sources -> Nat]
        /\ \A x \in Sources : Most(did, reports)[x] <= Most(did, perWorker)[x]
    BY <1>t, <2>4 DEF Most
  <2>6. /\ Total(Sources, Most(did, perWorker)) \in Nat /\ Total(Sources, Most(did, reports)) \in Nat
        /\ Total(Sources, Most(did, reports)) <= Total(Sources, Most(did, perWorker))
    BY <1>t, <2>5, TotalNoMore, MetricsAssumption
  <2>7. Total(Sources, Most(did, reports)) <= truth
    BY <1>0, <1>t, <2>6 DEF Accounted
  <2>8. Accounted'
    BY <1>0, <2>1, <2>2, <2>3, <2>7 DEF Accounted
  <2>9. Instants' /\ Held'
    BY <1>0, <1>t, <2>1, <2>2, AddKeeps
  <2> QED BY <2>8, <2>9
<1>5. Accounted' /\ Instants' /\ Held'
  BY <1>1, <1>2, <1>3, <1>4 DEF Met!Next
<1> QED BY <1>5 DEF MetricsInv

-----------------------------------------------------------------------------
(* The invariant implies the property.                                       *)

\* The curve consists of what the levels hold, and has every instant of it.
LEMMA CurveIsWhole ==
    ASSUME NEW all, all = UNION {Met!ToSet(levels[l]) : l \in Met!Levels},
           NEW c \in Nat, \A q \in all : q.at \in 1 .. c
    PROVE  /\ Met!ToSet(Met!Points) \subseteq all
           /\ \A q \in all : \E p \in Met!ToSet(Met!Points) : p.at = q.at
<1> DEFINE T == {q.at : q \in all}
           N == Cardinality(T)
           at(i) == CHOOSE p \in all : Cardinality({t \in T : t < p.at}) = i - 1
<1>1. Met!Points = [i \in 1 .. N |-> at(i)]
  BY DEF Met!Points, Met!Cardinality, Cardinality
<1>2. T \in SUBSET (1 .. c)
  OBVIOUS
<1>3. ASSUME NEW i \in 1 .. N PROVE at(i) \in all /\ Cardinality(Below(T, at(i).at)) = i - 1
  <2>1. PICK t \in T : Cardinality(Below(T, t)) = i - 1
    <3> HIDE DEF T
    <3> QED BY <1>2, Ranked
  <2>2. \E p \in all : Cardinality({u \in T : u < p.at}) = i - 1
    BY <2>1 DEF Below
  <2> HIDE DEF T
  <2> QED BY <2>2 DEF Below
<1>4. \A q \in all : q.at \in T
  OBVIOUS
<1>5. Met!ToSet(Met!Points) = {at(i) : i \in 1 .. N}
  <2> HIDE DEF at, N
  <2> QED BY <1>1 DEF Met!ToSet
<1> HIDE DEF T, at
<1>6. ASSUME NEW q \in all PROVE \E i \in 1 .. N : at(i).at = q.at
  <2> DEFINE r == Cardinality(Below(T, q.at))
  <2>1. N \in Nat /\ r \in 0 .. N - 1
    BY <1>2, <1>4, RanksDiffer
  <2>2. r + 1 \in 1 .. N /\ (r + 1) - 1 = r
    BY <2>1
  <2>3. at(r + 1) \in all /\ Cardinality(Below(T, at(r + 1).at)) = r
    <3> HIDE DEF r, N
    <3> QED BY <1>3, <2>2
  <2>4. at(r + 1).at \in T /\ q.at \in T /\ at(r + 1).at \in Nat /\ q.at \in Nat
    BY <1>2, <1>4, <2>3
  <2>5. ~(q.at < at(r + 1).at) /\ ~(at(r + 1).at < q.at)
    <3>1. \A t, v \in T : t < v => Cardinality(Below(T, t)) < Cardinality(Below(T, v))
      BY <1>2, RanksDiffer
    <3> QED BY <2>1, <2>3, <2>4, <3>1
  <2> QED BY <2>2, <2>4, <2>5
<1> QED BY <1>3, <1>5, <1>6

\* The parts of the property, each from its part of the invariant.
LEMMA MetricsImplied == MetricsInv => CountersAreTrue
<1> SUFFICES ASSUME Accounted, Instants, Held
             PROVE  Met!TypeOK /\ Met!BudgetIsSpent /\ Met!ShapeIsKept
  BY DEF MetricsInv, CountersAreTrue
<1>0. clock \in Nat /\ current.at \in Nat /\ current.at <= clock
  BY MetricsAssumption DEF Accounted, Instants
<1>1. Met!TypeOK
  <2>1. \A l \in Met!Levels : lastAt[l] \in 0 .. clock
    BY <1>0 DEF Instants
  <2> QED BY <2>1 DEF Met!TypeOK, Accounted, Held
<1>2. Met!BudgetIsSpent
  <2>1. \A w \in Sources : did[w].execs \in Nat /\ perWorker[w].execs \in Nat
    BY DEF Accounted, Reports
  <2>2. /\ Execs(perWorker) \in [Sources -> Nat] /\ Most(did, perWorker) \in [Sources -> Nat]
        /\ \A w \in Sources : Execs(perWorker)[w] <= Most(did, perWorker)[w]
    BY <2>1 DEF Execs, Most
  <2>3. /\ current.execs \in Nat /\ Total(Sources, Most(did, perWorker)) \in Nat
        /\ current.execs <= Total(Sources, Most(did, perWorker))
    BY <2>2, TotalNoMore, MetricsAssumption DEF Accounted
  <2>4. truth \in Nat /\ ExecBudget \in Nat
    BY MetricsAssumption DEF Accounted
  <2> QED BY <2>3, <2>4 DEF Accounted, Met!BudgetIsSpent, Met!BudgetReached
<1>3. Met!ShapeIsKept
  <2> DEFINE all == UNION {Met!ToSet(levels[l]) : l \in Met!Levels}
  <2>1. \A l \in Met!Levels : \A i \in 1 .. Len(levels[l]) :
           levels[l][i] \in added /\ levels[l][i] \in all
    <3> SUFFICES ASSUME NEW l \in Met!Levels, NEW i \in 1 .. Len(levels[l])
                 PROVE  levels[l][i] \in added /\ levels[l][i] \in all
      OBVIOUS
    <3>1. levels[l] \in Seq(added)
      BY DEF Held, Level
    <3>2. levels[l][i] \in Met!ToSet(levels[l])
      BY <3>1 DEF Met!ToSet
    <3> QED BY <3>1, <3>2
  <2>2. all \subseteq added
    <3>1. \A l \in Met!Levels : levels[l] \in Seq(added)
      BY DEF Held, Level
    <3>2. \A l \in Met!Levels : Met!ToSet(levels[l]) \subseteq added
      BY <3>1 DEF Met!ToSet
    <3> QED BY <3>2
  <2>3. \A q \in all : q.at \in 1 .. clock
    <3>1. \A s \in added : s.at \in 1 .. current.at
      BY DEF Instants
    <3>2. \A s \in added : s.at \in 1 .. clock
      BY <1>0, <3>1
    <3> HIDE DEF all
    <3> QED BY <2>2, <3>2
  <2>4. /\ Met!ToSet(Met!Points) \subseteq added
        /\ \A q \in all : \E p \in Met!ToSet(Met!Points) : p.at = q.at
    <3>1. /\ Met!ToSet(Met!Points) \subseteq all
          /\ \A q \in all : \E p \in Met!ToSet(Met!Points) : p.at = q.at
      BY <1>0, <2>3, CurveIsWhole
    <3> HIDE DEF all
    <3> QED BY <2>2, <3>1
  <2> HIDE DEF all
  <2>5. ASSUME NEW l \in Met!Levels, NEW s \in added,
               levels[l] # <<>>, s.at >= levels[l][1].at
        PROVE  \E p \in Met!ToSet(Met!Points) :
                   p.at <= s.at /\ s.at - p.at < Met!SumOfIntervals[l]
    <3>0. /\ levels[l] \in Seq(added) /\ s.at \in Nat
          /\ \A q \in added : q.at \in Nat
      BY <1>0 DEF Held, Level, Instants
    <3>1. levels[l][1].at \in Nat
      BY <2>5, <3>0
    <3>2. PICK i \in 1 .. Len(levels[l]) :
              levels[l][i].at <= s.at /\ s.at - levels[l][i].at < S[l]
      BY <2>5, <3>0, <3>1 DEF Held, Level, Covers
    <3>3. PICK p \in Met!ToSet(Met!Points) : p.at = levels[l][i].at
      BY <2>1, <2>4
    <3> QED BY <3>2, <3>3 DEF S
  <2> QED BY <2>4, <2>5 DEF Met!ShapeIsKept
<1> QED BY <1>1, <1>2, <1>3

\* Whatever restarts and reports come in which order, the counters of a campaign never claim
\* what did not happen, so that the execution budget never ends it early, and the history
\* keeps the shape of the run within the intervals of its levels (Metrics).
THEOREM CountersCorrect == Spec => []CountersAreTrue
<1>1. Init => MetricsInv
  BY MetricsStart DEF Init, MetricsInv
<1>2. MetricsInv /\ [Next]_vars => MetricsInv'
  <2> SUFFICES ASSUME MetricsInv, [Next]_vars PROVE MetricsInv'
    OBVIOUS
  <2>1. CASE part = "metrics" /\ Met!Next /\ part' = part
    BY <2>1, MetricsStep
  <2>2. CASE part' # "metrics"
    BY <2>2 DEF MetricsInv
  <2>3. CASE UNCHANGED <<part, metricVars>>
    BY <2>3 DEF MetricsInv, metricVars, Accounted, Instants, Held, S
  <2>4. \/ part = "metrics" /\ Met!Next /\ part' = part
        \/ UNCHANGED <<part, metricVars>>
    BY DEF Next, vars, metricVars
  <2> QED BY <2>1, <2>3, <2>4
<1> QED BY <1>1, <1>2, MetricsImplied, PTL DEF Spec

-----------------------------------------------------------------------------
(* State guidance (StateGuidance): sums over functions.                      *)

\* FoldFunction adds up what Total does.
LEMMA FoldIsTotal ==
    ASSUME NEW D, NEW f, DOMAIN f = D
    PROVE  Sg!FoldFunction(+, 0, f) = Total(D, f)
<1>1. Sg!FoldFunction(+, 0, f) =
      (CHOOSE it : it = [s \in SUBSET D |->
           IF s = {} THEN 0
           ELSE f[CHOOSE x \in s : TRUE] + it[s \ {CHOOSE x \in s : TRUE}]])[D]
  BY DEF Sg!FoldFunction, Sg!FoldFunctionOnSet, Sg!MapThenFoldSet
<1> QED BY <1>1 DEF Sums, Total

\* How often something of E is at a place of A.
Hits(A, e, E) == {i \in A : e[i] \in E}

\* The numbers of the hits of each member add up to the number of hits.
LEMMA HitsAddUp ==
    ASSUME NEW D, IsFiniteSet(D), NEW A, IsFiniteSet(A), NEW e
    PROVE  Total(D, [m \in D |-> Cardinality(Hits(A, e, {m}))]) = Cardinality(Hits(A, e, D))
<1> DEFINE f == [m \in D |-> Cardinality(Hits(A, e, {m}))]
           a == CHOOSE it : Sums(D, f, it)
<1>0. \A E : IsFiniteSet(Hits(A, e, E)) /\ Cardinality(Hits(A, e, E)) \in Nat
  <2>1. \A E : Hits(A, e, E) \in SUBSET A
    BY DEF Hits
  <2> QED BY <2>1, FS_Subset, FS_CardinalityType
<1>1. Sums(D, f, a)
  <2>1. f \in [D -> Nat]
    BY <1>0
  <2> HIDE DEF f
  <2> QED BY <2>1, SumsExist
<1>2. /\ \A s \in SUBSET D : s = {} => a[s] = 0
      /\ \A s \in SUBSET D : s # {} =>
            a[s] = f[CHOOSE x \in s : TRUE] + a[s \ {CHOOSE x \in s : TRUE}]
  <2> HIDE DEF a, f
  <2> QED BY <1>1 DEF Sums
<1> HIDE DEF a
<1> DEFINE N == Cardinality(D)
           P == {k \in 0 .. N : \A s \in SUBSET D :
                    Cardinality(s) = k => a[s] = Cardinality(Hits(A, e, s))}
<1>3. /\ N \in Nat
      /\ \A s \in SUBSET D : Cardinality(s) = 0 <=> s = {}
  BY FS_CardinalityType, FS_Subset, FS_EmptySet
<1>4. 0 \in P
  <2>1. Cardinality(Hits(A, e, {})) = 0
    BY FS_EmptySet DEF Hits
  <2> QED BY <1>2, <1>3, <2>1
<1>5. ASSUME NEW k \in 1 .. N, k - 1 \in P PROVE k \in P
  <2>1. ASSUME NEW s \in SUBSET D, Cardinality(s) = k
        PROVE  a[s] = Cardinality(Hits(A, e, s))
    <3> DEFINE c == CHOOSE x \in s : TRUE
    <3>1. s # {}
      BY <1>3, <2>1
    <3>2. c \in s /\ c \in D /\ s \ {c} \in SUBSET D /\ Cardinality(s \ {c}) = k - 1
      BY <2>1, <3>1, OneLess
    <3>3. a[s] = f[c] + a[s \ {c}]
      BY <1>2, <3>1
    <3> HIDE DEF c
    <3>4. a[s \ {c}] = Cardinality(Hits(A, e, s \ {c}))
      BY <1>5, <3>2
    <3>5. f[c] = Cardinality(Hits(A, e, {c}))
      BY <3>2
    <3>6. /\ Hits(A, e, s) = Hits(A, e, {c}) \cup Hits(A, e, s \ {c})
          /\ Hits(A, e, {c}) \cap Hits(A, e, s \ {c}) = {}
      BY <3>2 DEF Hits
    <3>7. Cardinality(Hits(A, e, s)) =
          Cardinality(Hits(A, e, {c})) + Cardinality(Hits(A, e, s \ {c})) - 0
      <4> DEFINE X == Hits(A, e, {c})
                 Y == Hits(A, e, s \ {c})
      <4>1. IsFiniteSet(X) /\ IsFiniteSet(Y)
        BY <1>0
      <4>2. Hits(A, e, s) = X \cup Y /\ X \cap Y = {} /\ Cardinality({}) = 0
        BY <3>6, FS_EmptySet
      <4> HIDE DEF X, Y
      <4>3. Cardinality(X \cup Y) = Cardinality(X) + Cardinality(Y) - Cardinality(X \cap Y)
        BY <4>1, FS_Union
      <4> QED BY <4>2, <4>3 DEF X, Y
    <3> QED BY <1>0, <3>3, <3>4, <3>5, <3>7
  <2> QED BY <2>1
<1> HIDE DEF P
<1>6. N \in P
  <2> HIDE DEF N
  <2>1. \A k \in 0 .. N : k \in P
    BY <1>3, <1>4, <1>5, Ascending
  <2> QED BY <1>3, <2>1
<1> QED BY <1>6 DEF Total, a, P

\* The total of a sum.
LEMMA TotalsAdd ==
    ASSUME NEW D, IsFiniteSet(D), NEW f \in [D -> Nat], NEW g \in [D -> Nat]
    PROVE  /\ Total(D, f) \in Nat /\ Total(D, g) \in Nat
           /\ Total(D, [x \in D |-> f[x] + g[x]]) = Total(D, f) + Total(D, g)
<1> DEFINE h == [x \in D |-> f[x] + g[x]]
           a == CHOOSE it : Sums(D, f, it)
           b == CHOOSE it : Sums(D, g, it)
           c == CHOOSE it : Sums(D, h, it)
<1>1. Sums(D, f, a) /\ Sums(D, g, b) /\ Sums(D, h, c)
  <2>1. h \in [D -> Nat]
    OBVIOUS
  <2> HIDE DEF h
  <2> QED BY <2>1, SumsExist
<1>2. /\ \A s \in SUBSET D : s = {} => a[s] = 0 /\ b[s] = 0 /\ c[s] = 0
      /\ \A s \in SUBSET D : s # {} =>
            /\ a[s] = f[CHOOSE x \in s : TRUE] + a[s \ {CHOOSE x \in s : TRUE}]
            /\ b[s] = g[CHOOSE x \in s : TRUE] + b[s \ {CHOOSE x \in s : TRUE}]
            /\ c[s] = h[CHOOSE x \in s : TRUE] + c[s \ {CHOOSE x \in s : TRUE}]
  <2> HIDE DEF a, b, c, h
  <2> QED BY <1>1 DEF Sums
<1> HIDE DEF a, b, c
<1> DEFINE N == Cardinality(D)
           Right(s) == a[s] \in Nat /\ b[s] \in Nat /\ c[s] = a[s] + b[s]
           P == {k \in 0 .. N : \A s \in SUBSET D : Cardinality(s) = k => Right(s)}
<1>3. /\ N \in Nat
      /\ \A s \in SUBSET D : Cardinality(s) = 0 <=> s = {}
  BY FS_CardinalityType, FS_Subset, FS_EmptySet
<1>4. 0 \in P
  BY <1>2, <1>3
<1>5. ASSUME NEW k \in 1 .. N, k - 1 \in P PROVE k \in P
  <2>1. ASSUME NEW s \in SUBSET D, Cardinality(s) = k PROVE Right(s)
    <3> DEFINE x == CHOOSE y \in s : TRUE
    <3>1. s # {}
      BY <1>3, <2>1
    <3>2. x \in s /\ x \in D /\ s \ {x} \in SUBSET D /\ Cardinality(s \ {x}) = k - 1
      BY <2>1, <3>1, OneLess
    <3>3. a[s] = f[x] + a[s \ {x}] /\ b[s] = g[x] + b[s \ {x}] /\ c[s] = h[x] + c[s \ {x}]
      BY <1>2, <3>1
    <3> HIDE DEF x
    <3>4. Right(s \ {x})
      BY <1>5, <3>2
    <3>5. f[x] \in Nat /\ g[x] \in Nat /\ h[x] = f[x] + g[x]
      BY <3>2
    <3> HIDE DEF h
    <3> QED BY <3>3, <3>4, <3>5
  <2> QED BY <2>1
<1> HIDE DEF P
<1>6. N \in P
  <2> HIDE DEF N
  <2>1. \A k \in 0 .. N : k \in P
    BY <1>3, <1>4, <1>5, Ascending
  <2> QED BY <1>3, <2>1
<1>7. Right(D)
  BY <1>6 DEF P
<1> QED BY <1>7 DEF Total, a, b, c

-----------------------------------------------------------------------------
(* The trace of a session.                                                   *)

LabelSet == Sg!LabelSet
Sessions == Sg!Sessions
States == DOMAIN SgTarget.trans

\* The states a session leads the target through, and the label each message produces.
At(w) ==
    CHOOSE at : at = [i \in 0 .. Len(w) |->
                        IF i = 0 THEN 1 ELSE SgTarget.trans[at[i - 1]][w[i]]]
Said(w, i) == SgTarget.out[At(w)[i - 1]][w[i]]

\* The labels of a trace before the first message.
Before == IF sgTier = "driver" THEN 2 ELSE 1

LEMMA Labels0 ==
    /\ SgLabels \in Seq(LabelSet) /\ Len(SgLabels) \in Nat \ {0}
    /\ LabelSet = Range(SgLabels) /\ "start" \notin LabelSet
    /\ Head(SgLabels) \in LabelSet /\ IsFiniteSet(LabelSet)
<1>1. LabelSet = Range(SgLabels)
  BY DEF LabelSet, Sg!LabelSet, Sg!ToSet, Range
<1>2. SgLabels \in Seq(LabelSet) /\ SgLabels # <<>> /\ "start" \notin LabelSet
  BY <1>1, GuidanceAssumption
<1>3. Len(SgLabels) \in Nat \ {0} /\ Head(SgLabels) \in LabelSet
  BY <1>2
<1>4. IsFiniteSet(LabelSet)
  <2>1. IsFiniteSet(1 .. Len(SgLabels))
    BY <1>3, FS_Interval
  <2>2. SgLabels \in Surjection(1 .. Len(SgLabels), LabelSet)
    BY <1>1, <1>2 DEF Surjection, Range
  <2> QED BY <2>1, <2>2, FS_Surjection
<1> QED BY <1>1, <1>2, <1>3, <1>4

LEMMA SessionShape ==
    ASSUME NEW w \in Sessions
    PROVE  /\ Len(w) \in 1 .. SgLength /\ Len(w) \in Nat \ {0} /\ w \in Seq(SgMessages)
           /\ w \in [1 .. Len(w) -> SgMessages]
<1>1. PICK n \in 1 .. SgLength : w \in [1 .. n -> SgMessages]
  BY DEF Sessions, Sg!Sessions
<1>2. n \in Nat \ {0}
  BY <1>1, GuidanceAssumption
<1>3. w \in Seq(SgMessages)
  BY <1>1, <1>2
<1>4. Len(w) = n
  BY <1>1, <1>2, <1>3
<1> QED BY <1>1, <1>2, <1>3, <1>4

\* At exists: a walk through the states of the target.
LEMMA Walk ==
    ASSUME NEW w \in Sessions
    PROVE  /\ \A i \in 0 .. Len(w) : At(w)[i] \in States
           /\ \A i \in 1 .. Len(w) : At(w)[i] = SgTarget.trans[At(w)[i - 1]][w[i]]
           /\ At(w)[0] = 1
           /\ \A i \in 1 .. Len(w) : Said(w, i) \in LabelSet
<1> DEFINE N == Len(w)
           Upto(n, g) ==
               g \in [0 .. n -> States]
               /\ \A l \in 0 .. n : g[l] = IF l = 0 THEN 1 ELSE SgTarget.trans[g[l - 1]][w[l]]
           P == {n \in 0 .. N : \E g : Upto(n, g)}
<1>1. /\ N \in Nat /\ \A l \in 1 .. N : w[l] \in SgMessages
      /\ 1 \in States
      /\ \A q \in States, m \in SgMessages :
            SgTarget.trans[q][m] \in States /\ SgTarget.out[q][m] \in LabelSet
  BY SessionShape, Labels0, GuidanceAssumption DEF States
<1>2. 0 \in P
  <2>1. Upto(0, [l \in 0 .. 0 |-> 1])
    BY <1>1
  <2> HIDE DEF Upto
  <2> QED BY <1>1, <2>1
<1>3. ASSUME NEW n \in 1 .. N, n - 1 \in P PROVE n \in P
  <2>1. PICK g : Upto(n - 1, g)
    BY <1>3
  <2> DEFINE h == [l \in 0 .. n |->
                     IF l = n THEN SgTarget.trans[g[n - 1]][w[n]] ELSE g[l]]
  <2>2. Upto(n, h)
    <3>1. \A l \in 0 .. n : h[l] \in States
      BY <1>1, <2>1
    <3>2. h \in [0 .. n -> States]
      BY <3>1
    <3>3. ASSUME NEW l \in 0 .. n
          PROVE  h[l] = IF l = 0 THEN 1 ELSE SgTarget.trans[h[l - 1]][w[l]]
      BY <2>1
    <3> QED BY <3>2, <3>3
  <2> HIDE DEF Upto
  <2> QED BY <2>2
<1> HIDE DEF P
<1>4. N \in P
  <2> HIDE DEF N
  <2>1. \A n \in 0 .. N : n \in P
    BY <1>1, <1>2, <1>3, Ascending
  <2> QED BY <1>1, <2>1
<1>5. PICK g : Upto(N, g)
  BY <1>4 DEF P
<1>6. g = [i \in 0 .. Len(w) |-> IF i = 0 THEN 1 ELSE SgTarget.trans[g[i - 1]][w[i]]]
  BY <1>5
<1>7. At(w) = [i \in 0 .. Len(w) |-> IF i = 0 THEN 1 ELSE SgTarget.trans[At(w)[i - 1]][w[i]]]
  BY <1>6 DEF At
<1> DEFINE T == {n \in 0 .. N : At(w)[n] \in States}
<1>8. At(w)[0] = 1 /\ \A i \in 1 .. N : At(w)[i] = SgTarget.trans[At(w)[i - 1]][w[i]]
  <2>1. 0 \in 0 .. N /\ \A i \in 1 .. N : i # 0 /\ i \in 0 .. N
    BY <1>1
  <2> QED BY <1>7, <2>1
<1>9. \A n \in 0 .. N : n \in T
  <2>1. 0 \in T /\ \A n \in 1 .. N : n - 1 \in T => n \in T
    BY <1>1, <1>8
  <2> HIDE DEF T, N
  <2> QED BY <1>1, <2>1, Ascending
<1>10. \A i \in 1 .. N : Said(w, i) \in LabelSet
  <2> SUFFICES ASSUME NEW i \in 1 .. N PROVE Said(w, i) \in LabelSet
    OBVIOUS
  <2>1. i - 1 \in 0 .. N
    BY <1>1
  <2>2. At(w)[i - 1] \in States
    BY <1>9, <2>1
  <2> QED BY <1>1, <2>2 DEF Said
<1> QED BY <1>8, <1>9, <1>10

\* The trace of a session begins with the label of the start, and has one label for each
\* message after what stands before the first.
LEMMA TraceShape ==
    ASSUME NEW w \in Sessions
    PROVE  LET t == Sg!traceOf(w)
           IN  /\ t \in Seq(LabelSet \cup {"start"}) /\ Len(t) = Before + Len(w)
               /\ Before \in {1, 2} /\ Len(t) \in Nat /\ Len(w) \in Nat
               /\ t[1] = "start" /\ \A i \in 2 .. Len(t) : t[i] \in LabelSet
               /\ Before = 2 => t[2] = Head(SgLabels)
               /\ \A i \in 1 .. Len(w) : t[Before + i] = Said(w, i)
<1> DEFINE All == LabelSet \cup {"start"}
           p == IF sgTier = "driver" THEN <<"start", Head(SgLabels)>> ELSE <<"start">>
           q == [i \in 1 .. Len(w) |-> Said(w, i)]
           t == Sg!traceOf(w)
<1>1. t = p \o q
  BY DEF Sg!traceOf, Sg!Start, At, Said
<1>2. Head(SgLabels) \in LabelSet
  BY Labels0
<1>3. p \in Seq(All) /\ Len(p) = Before /\ Before \in {1, 2} /\ p[1] = "start"
      /\ (Before = 2 => p[2] = Head(SgLabels))
  <2>1. CASE sgTier = "driver"
    <3>1. p = <<"start", Head(SgLabels)>> /\ Before = 2
      BY <2>1 DEF Before
    <3> HIDE DEF p
    <3> QED BY <1>2, <3>1
  <2>2. CASE sgTier # "driver"
    <3>1. p = <<"start">> /\ Before = 1
      BY <2>2 DEF Before
    <3> HIDE DEF p
    <3> QED BY <3>1
  <2> QED BY <2>1, <2>2
<1>4. Len(w) \in Nat /\ \A i \in 1 .. Len(w) : Said(w, i) \in LabelSet
  BY SessionShape, Walk
<1>5. q \in Seq(All) /\ Len(q) = Len(w) /\ \A i \in 1 .. Len(w) : q[i] = Said(w, i)
  <2>1. q \in [1 .. Len(w) -> All]
    BY <1>4
  <2> QED BY <1>4, <2>1
<1> HIDE DEF p, q, t, All
<1>6. /\ t \in Seq(All) /\ Len(t) = Before + Len(w)
      /\ \A i \in 1 .. Len(p) : t[i] = p[i]
      /\ \A i \in 1 .. Len(q) : t[Len(p) + i] = q[i]
  BY <1>1, <1>3, <1>5
<1>7. t[1] = "start" /\ (Before = 2 => t[2] = Head(SgLabels))
      /\ \A i \in 1 .. Len(w) : t[Before + i] = Said(w, i)
  BY <1>3, <1>5, <1>6
<1>8. ASSUME NEW i \in 2 .. Len(t) PROVE t[i] \in LabelSet
  <2>1. CASE i <= Before
    BY <1>2, <1>3, <1>7, <2>1
  <2>2. CASE i > Before
    <3>1. i - Before \in 1 .. Len(w) /\ Before + (i - Before) = i
      BY <1>3, <1>4, <1>6, <2>2
    <3>2. t[i] = Said(w, i - Before)
      BY <1>7, <3>1
    <3> QED BY <1>4, <3>1, <3>2
  <2> QED BY <1>3, <2>1, <2>2
<1> QED BY <1>3, <1>4, <1>6, <1>7, <1>8 DEF All, t

\* Sessions that agree on the first messages lead the target the same way.
LEMMA SamePath ==
    ASSUME NEW v \in Sessions, NEW w \in Sessions, NEW k \in Nat, k <= Len(v), k <= Len(w),
           \A i \in 1 .. k : v[i] = w[i]
    PROVE  \A i \in 1 .. Before + k : Sg!traceOf(v)[i] = Sg!traceOf(w)[i]
<1> DEFINE P == {n \in 0 .. k : At(v)[n] = At(w)[n]}
<1>1. Len(v) \in Nat /\ Len(w) \in Nat
  BY SessionShape
<1>2. 0 \in P
  BY Walk
<1>3. ASSUME NEW n \in 1 .. k, n - 1 \in P PROVE n \in P
  <2>1. n \in 1 .. Len(v) /\ n \in 1 .. Len(w) /\ v[n] = w[n]
    BY <1>1
  <2> QED BY <1>3, <2>1, Walk
<1>4. \A n \in 0 .. k : n \in P
  <2> HIDE DEF P
  <2> QED BY <1>2, <1>3, Ascending
<1>5. \A n \in 1 .. k : Said(v, n) = Said(w, n)
  <2> SUFFICES ASSUME NEW n \in 1 .. k PROVE Said(v, n) = Said(w, n)
    OBVIOUS
  <2>1. n - 1 \in 0 .. k /\ v[n] = w[n]
    OBVIOUS
  <2>2. At(v)[n - 1] = At(w)[n - 1]
    BY <1>4, <2>1
  <2> QED BY <2>1, <2>2 DEF Said
<1>6. ASSUME NEW i \in 1 .. Before + k PROVE Sg!traceOf(v)[i] = Sg!traceOf(w)[i]
  <2>1. Before \in {1, 2}
    BY TraceShape
  <2>2. CASE i <= Before
    BY <2>1, <2>2, TraceShape
  <2>3. CASE i > Before
    <3>1. i - Before \in 1 .. k /\ Before + (i - Before) = i
      BY <2>1, <2>3
    <3>2. i - Before \in 1 .. Len(v) /\ i - Before \in 1 .. Len(w)
      BY <1>1, <3>1
    <3>3. Sg!traceOf(v)[i] = Said(v, i - Before)
      BY <3>1, <3>2, TraceShape
    <3>4. Sg!traceOf(w)[i] = Said(w, i - Before)
      BY <3>1, <3>2, TraceShape
    <3> QED BY <1>5, <3>1, <3>3, <3>4
  <2> QED BY <2>1, <2>2, <2>3
<1> QED BY <1>6

\* What is counted in a trace.
LEMMA TimesCount ==
    ASSUME NEW w \in Sessions
    PROVE  LET t == Sg!traceOf(w)
           IN  /\ \A l : Sg!times(t, l) \in Nat
               /\ \A m : Sg!times(Sg!transitions(t), m) \in Nat
               /\ \A l : Sg!times(t, l) > 0 => Sg!Reached(t, l)
               /\ \A l \in LabelSet :
                    Sg!times(t, l) =
                    Total({n \in Sg!Moves : n[2] = l},
                          [m \in {n \in Sg!Moves : n[2] = l} |->
                              Sg!times(Sg!transitions(t), m)])
<1> DEFINE t == Sg!traceOf(w)
           e == Sg!transitions(t)
<1>1. /\ t \in Seq(LabelSet \cup {"start"}) /\ Len(t) \in Nat \ {0} /\ t[1] = "start"
      /\ \A i \in 2 .. Len(t) : t[i] \in LabelSet
      /\ DOMAIN t = 1 .. Len(t)
  BY TraceShape, SessionShape
<1>2. e = [i \in 1 .. Len(t) - 1 |-> <<t[i], t[i + 1]>>] /\ DOMAIN e = 1 .. Len(t) - 1
  BY DEF Sg!transitions
<1> HIDE DEF t, e
<1>3. /\ \A l : Sg!times(t, l) = Cardinality(Hits(1 .. Len(t), t, {l}))
      /\ \A m : Sg!times(e, m) = Cardinality(Hits(1 .. Len(t) - 1, e, {m}))
  <2>1. \A l : {i \in DOMAIN t : t[i] = l} = Hits(1 .. Len(t), t, {l})
    BY <1>1 DEF Hits
  <2>2. \A m : {i \in DOMAIN e : e[i] = m} = Hits(1 .. Len(t) - 1, e, {m})
    BY <1>2 DEF Hits
  <2> QED BY <2>1, <2>2 DEF Sg!times, Sg!Cardinality, Cardinality
<1>4. IsFiniteSet(1 .. Len(t)) /\ IsFiniteSet(1 .. Len(t) - 1)
  BY <1>1, FS_Interval
<1>5. /\ \A E : IsFiniteSet(Hits(1 .. Len(t), t, E))
      /\ \A E : IsFiniteSet(Hits(1 .. Len(t) - 1, e, E))
  <2>1. /\ \A E : Hits(1 .. Len(t), t, E) \in SUBSET (1 .. Len(t))
        /\ \A E : Hits(1 .. Len(t) - 1, e, E) \in SUBSET (1 .. Len(t) - 1)
    BY DEF Hits
  <2> QED BY <1>4, <2>1, FS_Subset
<1>6. /\ \A l : Sg!times(t, l) \in Nat
      /\ \A m : Sg!times(e, m) \in Nat
  BY <1>3, <1>5, FS_CardinalityType
<1>7. ASSUME NEW l, Sg!times(t, l) > 0 PROVE Sg!Reached(t, l)
  <2>1. Hits(1 .. Len(t), t, {l}) # {}
    <3>1. Cardinality(Hits(1 .. Len(t), t, {l})) > 0
      <4>1. Sg!times(t, l) = Cardinality(Hits(1 .. Len(t), t, {l}))
        BY <1>3
      <4> QED BY <1>7, <4>1
    <3>2. Cardinality({}) = 0
      BY FS_EmptySet
    <3>3. ASSUME Hits(1 .. Len(t), t, {l}) = {} PROVE FALSE
      <4>1. Cardinality(Hits(1 .. Len(t), t, {l})) = 0
        BY <3>2, <3>3, Zenon
      <4> QED BY <3>1, <4>1
    <3> QED BY <3>3
  <2> QED BY <1>1, <2>1 DEF Hits, Sg!Reached, Sg!ToSet
<1>8. ASSUME NEW l \in LabelSet
      PROVE  Sg!times(t, l) =
             Total({n \in Sg!Moves : n[2] = l},
                   [m \in {n \in Sg!Moves : n[2] = l} |-> Sg!times(e, m)])
  <2> DEFINE D == {n \in Sg!Moves : n[2] = l}
             A == Hits(1 .. Len(t) - 1, e, D)
             B == Hits(1 .. Len(t), t, {l})
  <2>1. IsFiniteSet(D)
    <3>1. IsFiniteSet(LabelSet) /\ IsFiniteSet(LabelSet \cup {"start"})
      BY Labels0, FS_AddElement
    <3>2. IsFiniteSet((LabelSet \cup {"start"}) \X LabelSet)
      BY <3>1, FS_Product
    <3>3. D \in SUBSET ((LabelSet \cup {"start"}) \X LabelSet)
      BY DEF Sg!Moves, Sg!Start, LabelSet
    <3> QED BY <3>2, <3>3, FS_Subset
  <2>2. Total(D, [m \in D |-> Cardinality(Hits(1 .. Len(t) - 1, e, {m}))]) = Cardinality(A)
    <3> HIDE DEF D
    <3> QED BY <1>4, <2>1, HitsAddUp
  <2>3. [m \in D |-> Sg!times(e, m)] =
        [m \in D |-> Cardinality(Hits(1 .. Len(t) - 1, e, {m}))]
    BY <1>3
  <2>4. \A i \in 1 .. Len(t) - 1 : e[i] \in D <=> t[i + 1] = l
    <3> SUFFICES ASSUME NEW i \in 1 .. Len(t) - 1 PROVE e[i] \in D <=> t[i + 1] = l
      OBVIOUS
    <3>1. i \in 1 .. Len(t) /\ i + 1 \in 2 .. Len(t)
      BY <1>1
    <3>2. t[i] \in LabelSet \cup {"start"} /\ t[i + 1] \in LabelSet
      BY <1>1, <3>1
    <3>3. e[i] = <<t[i], t[i + 1]>> /\ e[i][2] = t[i + 1]
      BY <1>2
    <3>4. e[i] \in Sg!Moves
      BY <3>2, <3>3 DEF Sg!Moves, Sg!Start, LabelSet
    <3> QED BY <3>3, <3>4
  <2>5. A = {i \in 1 .. Len(t) - 1 : t[i + 1] = l}
    <3> HIDE DEF D
    <3> QED BY <2>4 DEF Hits
  <2>6. B = {i \in 2 .. Len(t) : t[i] = l}
    <3>1. t[1] # l
      BY <1>1, Labels0
    <3> QED BY <1>1, <3>1 DEF Hits
  <2>7. Cardinality(B) = Cardinality(A)
    <3> DEFINE f == [i \in A |-> i + 1]
    <3> HIDE DEF A, B
    <3>1. f \in Bijection(A, B)
      <4>1. \A i \in A : i + 1 \in B
        BY <1>1, <2>5, <2>6
      <4>2. \A j \in B : j - 1 \in A /\ j = (j - 1) + 1
        BY <1>1, <2>5, <2>6
      <4>3. \A i, j \in A : i + 1 = j + 1 => i = j
        BY <2>5
      <4>4. f \in [A -> B] /\ \A i \in A : f[i] = i + 1
        BY <4>1
      <4> HIDE DEF f
      <4>5. \A j \in B : \E i \in A : f[i] = j
        BY <4>2, <4>4
      <4>6. \A i, j \in A : f[i] = f[j] => i = j
        BY <4>3, <4>4
      <4> QED BY <4>4, <4>5, <4>6 DEF Bijection, Injection, Surjection, IsInjective
    <3>2. IsFiniteSet(A)
      BY <1>5 DEF A
    <3> HIDE DEF f
    <3> QED BY <3>1, <3>2, FS_Bijection DEF ExistsBijection
  <2>8. Sg!times(t, l) = Cardinality(B)
    BY <1>3
  <2> HIDE DEF A, B
  <2> QED BY <2>2, <2>3, <2>7, <2>8
<1> QED BY <1>6, <1>7, <1>8 DEF t, e

-----------------------------------------------------------------------------
(* The counts of the model.                                                  *)

\* The moves into a state, and how often they were made.
Into(l) == {n \in Sg!Moves : n[2] = l}
Uses(l, m) == Total(Into(l), [n \in Into(l) |-> m[n]])

Counted ==
    /\ sgStates \in [LabelSet -> Nat] /\ sgMoves \in [Sg!Moves -> Nat]
    /\ \A l \in LabelSet : sgStates[l] = Uses(l, sgMoves)
    /\ sgIllegal \cap SgDeclared = {}

\* No session is counted in the model but those that entries, dropped or not, stand for.
Kept ==
    /\ sgCorpus \subseteq Sessions /\ sgDropped \subseteq Sessions
    /\ DOMAIN sgStore \subseteq sgCorpus \cup sgDropped
    /\ IsFiniteSet(DOMAIN sgStore) /\ Cardinality(DOMAIN sgStore) <= SgTraces
    /\ Sg!KnownStateIsKept

\* What is being fuzzed is a session, and what is pending is the trace of the last one.
Aimed ==
    /\ sgCount \in 0 .. SgAppends
    /\ \/ sgAim = Sg!NoAim
       \/ sgAim.seed \in Sessions /\ sgAim.state \in LabelSet \cup {""}
    /\ sgPending # <<>> => /\ sgLast.child \in Sessions
                           /\ sgPending = Sg!traceOf(sgLast.child)
    /\ Sg!AimIsPreserved

GuidanceInv == part = "guidance" => Counted /\ Kept /\ Aimed

LEMMA Moves0 ==
    /\ IsFiniteSet(Sg!Moves)
    /\ \A l : IsFiniteSet(Into(l)) /\ Into(l) \subseteq Sg!Moves
<1>1. IsFiniteSet(LabelSet) /\ IsFiniteSet(LabelSet \cup {"start"})
  BY Labels0, FS_AddElement
<1>2. Sg!Moves = (LabelSet \cup {"start"}) \X LabelSet
  BY DEF Sg!Moves, Sg!Start, LabelSet
<1>3. IsFiniteSet(Sg!Moves)
  BY <1>1, <1>2, FS_Product
<1>4. \A l : Into(l) \in SUBSET Sg!Moves
  BY DEF Into
<1> QED BY <1>3, <1>4, FS_Subset

LEMMA SameTraces ==
    ASSUME sgTier' = sgTier
    PROVE  \A w : Sg!traceOf(w)' = Sg!traceOf(w)
BY DEF Sg!traceOf

\* Record keeps the balance, and a state it counts for the first time is in the trace.
LEMMA RecordCounts ==
    ASSUME Counted, NEW w \in Sessions, Sg!Record(Sg!traceOf(w))
    PROVE  /\ Counted'
           /\ \A l \in LabelSet :
                sgStates'[l] > 0 => sgStates[l] > 0 \/ Sg!Reached(Sg!traceOf(w), l)
<1> DEFINE t == Sg!traceOf(w)
           e == Sg!transitions(t)
<1>1. /\ \A l : Sg!times(t, l) \in Nat
      /\ \A m : Sg!times(e, m) \in Nat
      /\ \A l : Sg!times(t, l) > 0 => Sg!Reached(t, l)
  BY TimesCount
<1>2. \A l \in LabelSet :
        Sg!times(t, l) = Total(Into(l), [m \in Into(l) |-> Sg!times(e, m)])
  BY TimesCount DEF Into
<1> HIDE DEF t, e
<1>3. /\ sgStates' = [l \in LabelSet |-> sgStates[l] + Sg!times(t, l)]
      /\ sgMoves' = [m \in Sg!Moves |-> sgMoves[m] + Sg!times(e, m)]
      /\ sgIllegal' = sgIllegal \cup Sg!illegalMoves(t)
  BY DEF Sg!Record, LabelSet, t, e
<1>4. sgStates' \in [LabelSet -> Nat] /\ sgMoves' \in [Sg!Moves -> Nat]
  BY <1>1, <1>3 DEF Counted
<1>5. sgIllegal' \cap SgDeclared = {}
  BY <1>3 DEF Counted, Sg!illegalMoves
<1>6. ASSUME NEW l \in LabelSet PROVE sgStates'[l] = Uses(l, sgMoves')
  <2> DEFINE D == Into(l)
             f == [n \in D |-> sgMoves[n]]
             g == [n \in D |-> Sg!times(e, n)]
             h == [n \in D |-> sgMoves'[n]]
  <2>1. IsFiniteSet(D) /\ D \subseteq Sg!Moves
    BY Moves0
  <2>2. f \in [D -> Nat] /\ g \in [D -> Nat] /\ h = [n \in D |-> f[n] + g[n]]
    <3> HIDE DEF D
    <3> QED BY <1>1, <1>3, <2>1 DEF Counted
  <2>3. sgStates[l] = Total(D, f) /\ Sg!times(t, l) = Total(D, g) /\ Uses(l, sgMoves') = Total(D, h)
    BY <1>2 DEF Counted, Uses
  <2>4. sgStates'[l] = sgStates[l] + Sg!times(t, l)
    BY <1>3
  <2> HIDE DEF D, f, g, h
  <2>5. Total(D, h) = Total(D, f) + Total(D, g)
    BY <2>1, <2>2, TotalsAdd
  <2> QED BY <2>3, <2>4, <2>5
<1>7. ASSUME NEW l \in LabelSet, sgStates'[l] > 0
      PROVE  sgStates[l] > 0 \/ Sg!Reached(t, l)
  <2>1. sgStates[l] \in Nat /\ sgStates'[l] = sgStates[l] + Sg!times(t, l)
    BY <1>3 DEF Counted
  <2> QED BY <1>1, <1>7, <2>1
<1>8. Counted'
  BY <1>4, <1>5, <1>6 DEF Counted, Uses, Into
<1> QED BY <1>7, <1>8 DEF t

\* A trace is stored for an entry, in the room there is.
LEMMA PutIsBounded ==
    ASSUME NEW store, IsFiniteSet(DOMAIN store), Cardinality(DOMAIN store) <= SgTraces,
           NEW w, NEW t
    PROVE  LET n == Sg!Put(store, w, t)
           IN  /\ DOMAIN n \subseteq DOMAIN store \cup {w}
               /\ IsFiniteSet(DOMAIN n) /\ Cardinality(DOMAIN n) <= SgTraces
<1> DEFINE K == IF Cardinality(DOMAIN store) >= SgTraces THEN {} ELSE DOMAIN store
<1>1. DOMAIN Sg!Put(store, w, t) = K \cup {w}
  BY DEF Sg!Put, Sg!Cardinality, Cardinality
<1>2. SgTraces \in Nat \ {0} /\ Cardinality(DOMAIN store) \in Nat
  BY GuidanceAssumption, FS_CardinalityType
<1>3. IsFiniteSet(K) /\ Cardinality(K) \in Nat /\ Cardinality(K) + 1 <= SgTraces
      /\ K \subseteq DOMAIN store
  BY <1>2, FS_EmptySet
<1> HIDE DEF K
<1>4. IsFiniteSet(K \cup {w}) /\ Cardinality(K \cup {w}) <= Cardinality(K) + 1
  BY <1>3, FS_AddElement
<1>5. Cardinality(K \cup {w}) \in Nat
  BY <1>4, FS_CardinalityType
<1> QED BY <1>1, <1>2, <1>3, <1>4, <1>5

\* The same of a composition that may tell the feedback to discard.
LEMMA AppendCounts ==
    ASSUME Counted, NEW w \in Sessions, Sg!AppendFeedback(Sg!traceOf(w))
    PROVE  /\ Counted'
           /\ \A l \in LabelSet :
                sgStates'[l] > 0 => sgStates[l] > 0 \/ Sg!Reached(Sg!traceOf(w), l)
<1>1. CASE Sg!Record(Sg!traceOf(w))
  BY <1>1, RecordCounts
<1>2. CASE UNCHANGED <<sgStates, sgMoves, sgIllegal>>
  BY <1>2 DEF Counted, Uses, Into
<1> QED BY <1>1, <1>2 DEF Sg!AppendFeedback, Sg!modelVars

\* Trimming leaves a session, of the same states.
LEMMA TrimKeepsStates ==
    ASSUME NEW w \in Sessions, NEW t \in Sg!trim(w)
    PROVE  /\ t.kept \in Sessions
           /\ \A l : Sg!Reached(Sg!traceOf(w), l) => Sg!Reached(Sg!traceOf(t.kept), l)
<1>1. ASSUME NEW v \in Sg!without(w) PROVE v \in Sessions
  <2>1. PICK i \in 1 .. Len(w) : v = SubSeq(w, 1, i - 1) \o SubSeq(w, i + 1, Len(w))
    BY DEF Sg!without
  <2>2. v # <<>>
    BY DEF Sg!without
  <2>3. w \in Seq(SgMessages) /\ Len(w) \in Nat \ {0} /\ Len(w) <= SgLength /\ SgLength \in Nat
    BY SessionShape, GuidanceAssumption
  <2> DEFINE a == SubSeq(w, 1, i - 1)
             b == SubSeq(w, i + 1, Len(w))
  <2>4. a \in Seq(SgMessages) /\ Len(a) = i - 1
    BY <2>3
  <2>5. b \in Seq(SgMessages) /\ Len(b) = Len(w) - i
    BY <2>3
  <2> HIDE DEF a, b
  <2>6. v \in Seq(SgMessages) /\ Len(v) = Len(w) - 1
    <3>1. v = a \o b
      BY <2>1 DEF a, b
    <3> QED BY <2>3, <2>4, <2>5, <3>1
  <2>7. Len(v) \in 1 .. SgLength /\ v \in [1 .. Len(v) -> SgMessages]
    BY <2>2, <2>3, <2>6
  <2> QED BY <2>7 DEF Sessions, Sg!Sessions
<1>2. t.kept = w \/ (t.kept \in Sg!without(w) /\ Sg!stateSignature(t.kept) = Sg!stateSignature(w))
  BY DEF Sg!trim
<1> QED BY <1>1, <1>2 DEF Sg!stateSignature, Sg!Reached

-----------------------------------------------------------------------------
(* The steps.                                                                *)

LEMMA Bounds0 == SgLength \in Nat /\ SgAppends \in Nat /\ SgTraces \in Nat \ {0}
BY GuidanceAssumption

\* Before a choice is made there is nothing to preserve.
LEMMA NoChoiceTarget == Sg!NoChoice.target = ""
BY DEF Sg!NoChoice

LEMMA GuidanceStart == ASSUME Sg!Init PROVE Counted /\ Kept /\ Aimed
<1> USE DEF Sg!Init
<1>1. sgStates \in [LabelSet -> Nat] /\ sgMoves \in [Sg!Moves -> Nat]
  BY DEF LabelSet
<1>2. ASSUME NEW l \in LabelSet PROVE sgStates[l] = Uses(l, sgMoves)
  <2>1. [n \in Into(l) |-> sgMoves[n]] = [n \in Into(l) |-> 0]
    BY Moves0
  <2>2. IsFiniteSet(Into(l))
    BY Moves0
  <2> DEFINE D == Into(l)
  <2> HIDE DEF D
  <2>3. IsFiniteSet(D) => Total(D, [n \in D |-> 0]) = 0
    BY TotalOfNothing
  <2>4. Uses(l, sgMoves) = 0
    BY <2>1, <2>2, <2>3 DEF Uses, D
  <2> QED BY <2>4 DEF LabelSet
<1>3. Counted
  BY <1>1, <1>2 DEF Counted
<1>4. sgCorpus = {} /\ sgDropped = {} /\ DOMAIN sgStore = {}
  OBVIOUS
<1>6. Cardinality(DOMAIN sgStore) <= SgTraces /\ IsFiniteSet(DOMAIN sgStore)
  BY <1>4, FS_EmptySet, GuidanceAssumption
<1>7. Sg!KnownStateIsKept
  BY DEF Sg!KnownStateIsKept, LabelSet
<1>8. Aimed
  <2>1. Sg!AimIsPreserved
    BY NoChoiceTarget DEF Sg!AimIsPreserved
  <2>2. sgCount \in 0 .. SgAppends
    BY Bounds0
  <2> QED BY <2>1, <2>2 DEF Aimed
<1> QED BY <1>3, <1>4, <1>6, <1>7, <1>8 DEF Kept

\* A session was appended to the model, and what stands for it is in the corpus.
LEMMA KnownAfter ==
    ASSUME Kept, sgTier' = sgTier, NEW w \in Sessions, NEW k \in sgCorpus',
           sgCorpus \subseteq sgCorpus', sgDropped' = sgDropped,
           \A l \in LabelSet :
               sgStates'[l] > 0 => sgStates[l] > 0 \/ Sg!Reached(Sg!traceOf(w), l),
           \A l : Sg!Reached(Sg!traceOf(w), l) => Sg!Reached(Sg!traceOf(k), l)
    PROVE  Sg!KnownStateIsKept'
<1>1. \A x : Sg!traceOf(x)' = Sg!traceOf(x)
  BY SameTraces
<1>2. ASSUME NEW l \in LabelSet, sgStates'[l] > 0
      PROVE  \E x \in sgCorpus' \cup sgDropped' : Sg!Reached(Sg!traceOf(x), l)
  <2>1. CASE sgStates[l] > 0
    BY <2>1 DEF Kept, Sg!KnownStateIsKept, LabelSet
  <2>2. CASE Sg!Reached(Sg!traceOf(w), l)
    BY <2>2
  <2> QED BY <1>2, <2>1, <2>2
<1> QED BY <1>1, <1>2 DEF Sg!KnownStateIsKept, LabelSet, Sg!Reached

LEMMA AddSeedStep ==
    ASSUME Counted, Kept, Aimed, NEW w \in Sessions, Sg!AddSeed(w)
    PROVE  Counted' /\ Kept' /\ Aimed'
<1>0. /\ sgCount < SgAppends /\ sgCount' = sgCount + 1
      /\ sgPending' = <<>> /\ sgAim' = sgAim /\ sgLast' = sgLast /\ sgTier' = sgTier
      /\ sgCorpus' = sgCorpus \cup {w} /\ sgDropped' = sgDropped
      /\ sgStore' = Sg!Put(sgStore, w, Sg!traceOf(w))
  BY DEF Sg!AddSeed, Sg!AppendFeedback, Sg!Enter
<1>1. /\ Counted'
      /\ \A l \in LabelSet :
           sgStates'[l] > 0 => sgStates[l] > 0 \/ Sg!Reached(Sg!traceOf(w), l)
  BY AppendCounts DEF Sg!AddSeed
<1>3. /\ DOMAIN sgStore' \subseteq DOMAIN sgStore \cup {w}
      /\ IsFiniteSet(DOMAIN sgStore') /\ Cardinality(DOMAIN sgStore') <= SgTraces
  BY <1>0, PutIsBounded DEF Kept
<1>4. Sg!KnownStateIsKept'
  BY <1>0, <1>1, KnownAfter
<1>5. Kept'
  BY <1>0, <1>3, <1>4 DEF Kept
<1>6. \A x : Sg!traceOf(x)' = Sg!traceOf(x)
  BY <1>0, SameTraces
<1>7. sgCount + 1 \in 0 .. SgAppends
  <2>1. sgCount \in 0 .. SgAppends
    BY DEF Aimed
  <2> QED BY <1>0, <2>1, Bounds0
<1>8. Sg!AimIsPreserved'
  BY <1>0, <1>6 DEF Aimed, Sg!AimIsPreserved, Sg!Reached
<1>9. Aimed'
  BY <1>0, <1>7, <1>8 DEF Aimed
<1> QED BY <1>1, <1>5, <1>9

LEMMA AdmitStep ==
    ASSUME Counted, Kept, Aimed, Sg!admit
    PROVE  Counted' /\ Kept' /\ Aimed'
<1> DEFINE w == sgLast.child
<1>a. /\ sgPending # <<>> /\ sgCount < SgAppends /\ Sg!AppendFeedback(sgPending)
      /\ sgPending' = <<>> /\ sgCount' = sgCount + 1 /\ sgLast' = Sg!NoChoice
      /\ sgTier' = sgTier /\ sgAim' = sgAim
  BY DEF Sg!admit, Sg!AppendFeedback
<1>0. w \in Sessions /\ sgPending = Sg!traceOf(w)
  BY <1>a DEF Aimed
<1> HIDE DEF w
<1>1. /\ Counted'
      /\ \A l \in LabelSet :
           sgStates'[l] > 0 => sgStates[l] > 0 \/ Sg!Reached(Sg!traceOf(w), l)
  BY <1>a, <1>0, AppendCounts
<1>2. PICK t \in Sg!trim(w) :
        IF t.kept \in sgCorpus
        THEN UNCHANGED <<sgCorpus, sgDropped, sgStore>>
        ELSE Sg!Enter(t.kept, Sg!traceOf(t.last))
  BY DEF w, Sg!admit
<1>3. /\ t.kept \in Sessions
      /\ \A l : Sg!Reached(Sg!traceOf(w), l) => Sg!Reached(Sg!traceOf(t.kept), l)
  BY <1>0, TrimKeepsStates
<1>4. /\ sgCorpus' = sgCorpus \cup {t.kept} /\ sgDropped' = sgDropped
      /\ DOMAIN sgStore' \subseteq sgCorpus' \cup sgDropped'
      /\ IsFiniteSet(DOMAIN sgStore') /\ Cardinality(DOMAIN sgStore') <= SgTraces
  <2>1. CASE t.kept \in sgCorpus
    BY <1>2, <2>1 DEF Kept
  <2>2. CASE t.kept \notin sgCorpus
    <3>1. /\ sgCorpus' = sgCorpus \cup {t.kept} /\ sgDropped' = sgDropped
          /\ sgStore' = Sg!Put(sgStore, t.kept, Sg!traceOf(t.last))
      BY <1>2, <2>2 DEF Sg!Enter
    <3>2. /\ DOMAIN sgStore' \subseteq DOMAIN sgStore \cup {t.kept}
          /\ IsFiniteSet(DOMAIN sgStore') /\ Cardinality(DOMAIN sgStore') <= SgTraces
      BY <3>1, PutIsBounded DEF Kept
    <3> QED BY <3>1, <3>2 DEF Kept
  <2> QED BY <2>1, <2>2
<1>5. Sg!KnownStateIsKept'
  BY <1>a, <1>0, <1>1, <1>3, <1>4, KnownAfter
<1>6. Kept'
  BY <1>3, <1>4, <1>5 DEF Kept
<1>7. sgCount + 1 \in 0 .. SgAppends
  <2>1. sgCount \in 0 .. SgAppends
    BY DEF Aimed
  <2> QED BY <1>a, <2>1, Bounds0
<1>8. Aimed'
  <2>1. Sg!AimIsPreserved'
    BY <1>a, NoChoiceTarget DEF Sg!AimIsPreserved
  <2> QED BY <1>a, <1>7, <2>1 DEF Aimed, Sg!NoAim
<1> QED BY <1>1, <1>6, <1>8

\* A choice that aims past a state knows the message that first reached it.
LEMMA PickAims ==
    ASSUME NEW t, NEW n \in Nat, NEW aim, NEW c \in Sg!Pick(t, n, aim)
    PROVE  c.target # "" =>
               /\ c.message \in 1 .. n /\ c.message # 0
               /\ c.at = Sg!Smaller(Sg!IndexOf(t, c.target), n) /\ c.at # 0
<1> DEFINE anywhere == {[message |-> k, target |-> "", at |-> 0] : k \in 1 .. n}
           wanted == IF aim = "" THEN Sg!pickState ELSE {aim}
           at(q) == Sg!Smaller(Sg!IndexOf(t, q), n)
           beyond(q) == {[message |-> k, target |-> q, at |-> at(q)] : k \in 1 .. n}
           past(q) == LET x == Sg!Smaller(Sg!IndexOf(t, q), n)
                      IN  IF x = 0 THEN anywhere
                          ELSE {[message |-> k, target |-> q, at |-> x] : k \in 1 .. n}
<1>1. c \in anywhere \/ \E q \in wanted : c \in past(q)
  BY DEF Sg!Pick
<1>2. \A q : past(q) = IF at(q) = 0 THEN anywhere ELSE beyond(q)
  OBVIOUS
<1> HIDE DEF past, wanted
<1>3. c \in anywhere \/ \E q : at(q) # 0 /\ c \in beyond(q)
  BY <1>1, <1>2
<1>4. CASE c \in anywhere
  <2>1. PICK k \in 1 .. n : c = [message |-> k, target |-> "", at |-> 0]
    BY <1>4
  <2>2. c.target = ""
    BY <2>1
  <2> QED BY <2>2
<1>5. CASE \E q : at(q) # 0 /\ c \in beyond(q)
  <2>1. PICK q : at(q) # 0 /\ c \in beyond(q)
    BY <1>5
  <2>2. PICK k \in 1 .. n : c = [message |-> k, target |-> q, at |-> at(q)]
    BY <2>1
  <2> HIDE DEF at
  <2>3. c.message = k /\ c.target = q /\ c.at = at(q)
    BY <2>2
  <2>4. k # 0
    OBVIOUS
  <2> QED BY <2>1, <2>3, <2>4 DEF at
<1> QED BY <1>3, <1>4, <1>5

\* A message past the one that reached the state aimed at leaves the path to it alone.
LEMMA PastTheAim ==
    ASSUME NEW parent \in Sessions, NEW l, NEW m \in 1 .. Len(parent),
           NEW at, at = Sg!Smaller(Sg!IndexOf(Sg!traceOf(parent), l), Len(parent)),
           at # 0, m > at,
           NEW w \in Sessions, Len(w) = Len(parent),
           \A i \in 1 .. Len(parent) : i = m \/ w[i] = parent[i]
    PROVE  Sg!Reached(Sg!traceOf(w), l)
<1> DEFINE t == Sg!traceOf(parent)
           n == Len(parent)
           hits == {i \in 2 .. Len(t) : t[i] = l}
<1>1. n \in Nat \ {0}
  BY SessionShape
<1>2. m \in 1 .. n /\ at = Sg!Smaller(Sg!IndexOf(t, l), n) /\ at # 0
  OBVIOUS
<1>3. /\ Len(t) \in Nat /\ Before \in {1, 2} /\ Len(t) = Before + n
  BY TraceShape
<1>4. hits # {} => \E i \in hits : \A j \in hits : i <= j
  <2>1. hits \subseteq Nat
    BY <1>3
  <2> HIDE DEF hits
  <2> QED BY <2>1, Least
<1>5. PICK i \in hits : Sg!IndexOf(t, l) = i - 1
  <2>1. hits # {}
    <3> SUFFICES ASSUME hits = {} PROVE FALSE
      OBVIOUS
    <3>1. Sg!IndexOf(t, l) = 0
      BY DEF Sg!IndexOf
    <3>2. Sg!Smaller(0, n) = 0
      BY <1>1 DEF Sg!Smaller
    <3> QED BY <1>2, <3>1, <3>2
  <2>2. Sg!IndexOf(t, l) = (CHOOSE i \in hits : \A j \in hits : i <= j) - 1
    BY <2>1 DEF Sg!IndexOf
  <2> HIDE DEF hits
  <2> QED BY <1>4, <2>1, <2>2
<1> HIDE DEF t
<1>6. i \in Nat /\ 2 <= i /\ t[i] = l /\ i <= Len(t)
  BY <1>3, <1>5
<1>7. at = i - 1 /\ i - 1 < m
  BY <1>1, <1>2, <1>5, <1>6 DEF Sg!Smaller
<1>8. \A j \in 1 .. Before + (i - 1) : Sg!traceOf(parent)[j] = Sg!traceOf(w)[j]
  <2>1. i - 1 \in Nat /\ i - 1 <= Len(parent) /\ i - 1 <= Len(w)
        /\ \A j \in 1 .. i - 1 : parent[j] = w[j]
    BY <1>1, <1>2, <1>6, <1>7
  <2> DEFINE k == i - 1
  <2> HIDE DEF k
  <2>2. k \in Nat /\ k <= Len(parent) /\ k <= Len(w) /\ \A j \in 1 .. k : parent[j] = w[j]
    BY <2>1 DEF k
  <2>3. \A j \in 1 .. Before + k : Sg!traceOf(parent)[j] = Sg!traceOf(w)[j]
    BY <2>2, SamePath
  <2> QED BY <2>3 DEF k
<1>9. i \in 1 .. Before + (i - 1)
  BY <1>3, <1>6
<1>10. Sg!traceOf(w)[i] = l /\ i \in 1 .. Len(Sg!traceOf(w))
  <2>1. Len(Sg!traceOf(w)) = Len(t)
    BY <1>3, TraceShape DEF t
  <2> QED BY <1>6, <1>8, <1>9, <2>1 DEF t
<1>11. Sg!traceOf(w) \in Seq(LabelSet \cup {"start"})
  BY TraceShape
<1> QED BY <1>10, <1>11 DEF Sg!Reached, Sg!ToSet

LEMMA ExecuteStep ==
    ASSUME Counted, Kept, Aimed, Sg!execute
    PROVE  Counted' /\ Kept' /\ Aimed'
<1> DEFINE parent == sgAim.seed
<1>0. PICK c \in Sg!Target(sgAim.seed, sgAim.state) :
        \E w \in Sg!mutated(sgAim.seed, c.message) :
           /\ sgLast' = [parent |-> sgAim.seed, message |-> c.message, target |-> c.target,
                         at |-> c.at, own |-> Sg!Get(sgAim.seed) = Sg!traceOf(sgAim.seed),
                         child |-> w]
           /\ sgPending' = Sg!traceOf(w)
  BY DEF Sg!execute
<1>1. PICK w \in Sg!mutated(sgAim.seed, c.message) :
        /\ sgLast' = [parent |-> sgAim.seed, message |-> c.message, target |-> c.target,
                      at |-> c.at, own |-> Sg!Get(sgAim.seed) = Sg!traceOf(sgAim.seed),
                      child |-> w]
        /\ sgPending' = Sg!traceOf(w)
  BY <1>0
<1>2. /\ sgAim # Sg!NoAim
      /\ UNCHANGED <<sgTier, sgCorpus, sgDropped, sgStates, sgMoves, sgIllegal, sgStore, sgAim,
                     sgCount>>
  BY DEF Sg!execute, Sg!modelVars, Sg!corpusVars
<1>3. parent \in Sessions
  BY <1>2 DEF Aimed
<1>4. \A x : Sg!traceOf(x)' = Sg!traceOf(x)
  BY <1>2, SameTraces
<1>5. /\ Len(parent) \in 1 .. SgLength
      /\ c.message = 0 \/ (/\ w \in [1 .. Len(parent) -> SgMessages]
                           /\ \A i \in 1 .. Len(parent) : i = c.message \/ w[i] = parent[i])
      /\ c.message = 0 => w \in Sessions
  BY <1>1, <1>3, SessionShape DEF Sg!mutated, Sessions
<1>6. w \in Sessions
  BY <1>5 DEF Sessions, Sg!Sessions
<1>7. Counted'
  BY <1>2 DEF Counted, Uses, Into
<1>8. Kept'
  BY <1>2, <1>4 DEF Kept, Sg!KnownStateIsKept, Sg!Reached
<1>9. Sg!Get(parent) = Sg!traceOf(parent) /\ c.target # "" /\ c.message > c.at =>
          Sg!Reached(Sg!traceOf(w), c.target)
  <2> DEFINE l == c.target
             m == c.message
             at == c.at
             n == Len(parent)
             t == Sg!traceOf(parent)
  <2>1. Sg!Get(parent) = t /\ l # "" => c \in Sg!Pick(t, n, sgAim.state)
    <3>1. c = [message |-> 0, target |-> "", at |-> 0]
          \/ c \in Sg!Pick(Sg!Get(parent), n, sgAim.state)
      BY DEF Sg!Target
    <3>2. [message |-> 0, target |-> "", at |-> 0].target = ""
      OBVIOUS
    <3> HIDE DEF t, n
    <3> QED BY <3>1, <3>2, Zenon
  <2>3. n \in Nat /\ Sg!Get(parent) = t /\ l # "" =>
            m \in 1 .. n /\ m # 0 /\ at = Sg!Smaller(Sg!IndexOf(t, l), n) /\ at # 0
    <3>1. n \in Nat /\ c \in Sg!Pick(t, n, sgAim.state) /\ c.target # "" =>
              /\ c.message \in 1 .. n /\ c.message # 0
              /\ c.at = Sg!Smaller(Sg!IndexOf(t, c.target), n) /\ c.at # 0
      <4> HIDE DEF t, n
      <4> QED BY PickAims
    <3> QED BY <2>1, <3>1
  <2>4. m = 0 \/ \A i \in 1 .. n : i = m \/ w[i] = parent[i]
    BY <1>5
  <2>5. n \in Nat \ {0} /\ (m # 0 => Len(w) = n)
    BY <1>3, <1>5, SessionShape
  <2> HIDE DEF l, m, at
  <2> SUFFICES ASSUME Sg!Get(parent) = t, l # "", m > at PROVE Sg!Reached(Sg!traceOf(w), l)
    BY DEF l, m, at
  <2>6. m \in 1 .. n /\ m # 0 /\ at = Sg!Smaller(Sg!IndexOf(t, l), n) /\ at # 0
    BY <2>3, <2>5
  <2>7. Len(w) = n /\ \A i \in 1 .. n : i = m \/ w[i] = parent[i]
    BY <2>4, <2>5, <2>6
  <2> HIDE DEF parent
  <2> QED BY <1>3, <1>6, <2>6, <2>7, PastTheAim
<1>10. Sg!AimIsPreserved'
  BY <1>1, <1>4, <1>9 DEF Sg!AimIsPreserved, Sg!Reached
<1>11. Aimed'
  BY <1>1, <1>2, <1>4, <1>6, <1>10 DEF Aimed, Sg!NoAim
<1> QED BY <1>7, <1>8, <1>11

\* The states picked are labels of the target.
LEMMA RareLabels == \A n : Sg!Rarest(n) \subseteq LabelSet
<1> SUFFICES ASSUME NEW n, NEW l \in Sg!Rarest(n) PROVE l \in LabelSet
  OBVIOUS
<1>1. PICK i \in 1 .. Len(SgLabels) : l = SgLabels[i]
  BY DEF Sg!Rarest
<1>2. SgLabels \in Seq(LabelSet)
  BY Labels0
<1> QED BY <1>1, <1>2

\* The choices of the coverage scheduler: an entry, and no state to aim for.
Anywhere == {[seed |-> w, state |-> ""] : w \in sgCorpus}

LEMMA SeedStep ==
    ASSUME Counted, Kept, Aimed, Sg!Seed
    PROVE  Counted' /\ Kept' /\ Aimed'
<1>0. /\ UNCHANGED <<sgTier, sgCorpus, sgDropped, sgStates, sgMoves, sgIllegal, sgStore,
                     sgPending, sgLast, sgCount>>
      /\ sgAim' \in Sg!PickSeed \/ sgAim' \in Anywhere
  BY DEF Sg!Seed, Anywhere, Sg!modelVars, Sg!corpusVars
<1>1. \A x : Sg!traceOf(x)' = Sg!traceOf(x)
  BY <1>0, SameTraces
<1>2. sgCorpus \subseteq Sessions
  BY DEF Kept
<1>3. sgAim'.seed \in Sessions /\ sgAim'.state \in LabelSet \cup {""}
  <2>1. CASE sgAim' \in Sg!PickSeed
    <3>1. PICK l \in Sg!pickState :
            \E e \in sgCorpus : sgAim' = [seed |-> e, state |-> l]
      BY <2>1 DEF Sg!PickSeed
    <3>2. l \in LabelSet
      BY <3>1, RareLabels DEF Sg!pickState
    <3>3. PICK e \in sgCorpus : sgAim' = [seed |-> e, state |-> l]
      BY <3>1
    <3>4. sgAim'.seed = e /\ sgAim'.state = l
      BY <3>3
    <3> QED BY <1>2, <3>2, <3>3, <3>4
  <2>2. CASE sgAim' \in Anywhere
    <3>1. PICK w \in sgCorpus : sgAim' = [seed |-> w, state |-> ""]
      BY <2>2 DEF Anywhere
    <3>2. sgAim'.seed = w /\ sgAim'.state = ""
      BY <3>1
    <3> QED BY <1>2, <3>2
  <2> QED BY <1>0, <2>1, <2>2
<1>4. Counted'
  BY <1>0 DEF Counted, Uses, Into
<1>5. Kept'
  BY <1>0, <1>1 DEF Kept, Sg!KnownStateIsKept, Sg!Reached
<1>6. Aimed'
  BY <1>0, <1>1, <1>3 DEF Aimed, Sg!AimIsPreserved, Sg!Reached
<1> QED BY <1>4, <1>5, <1>6

\* A session that is not committed, and an entry that is left, change no count.
LEMMA LeaveStep ==
    ASSUME Counted, Kept, Aimed, Sg!reject \/ Sg!energySpent
    PROVE  Counted' /\ Kept' /\ Aimed'
<1>1. /\ UNCHANGED <<sgTier, sgCorpus, sgDropped, sgStates, sgMoves, sgIllegal, sgStore,
                     sgCount>>
      /\ sgPending' = <<>>
      /\ sgLast' = Sg!NoChoice \/ sgLast' = sgLast
      /\ sgAim' = Sg!NoAim \/ sgAim' = sgAim
  BY DEF Sg!reject, Sg!energySpent, Sg!Discard, Sg!modelVars, Sg!corpusVars
<1>2. \A x : Sg!traceOf(x)' = Sg!traceOf(x)
  BY <1>1, SameTraces
<1>3. Counted'
  BY <1>1 DEF Counted, Uses, Into
<1>4. Kept'
  BY <1>1, <1>2 DEF Kept, Sg!KnownStateIsKept, Sg!Reached
<1>5. Sg!AimIsPreserved'
  <2>1. CASE sgLast' = sgLast
    BY <1>2, <2>1 DEF Aimed, Sg!AimIsPreserved, Sg!Reached
  <2>2. CASE sgLast' = Sg!NoChoice
    BY <2>2, NoChoiceTarget DEF Sg!AimIsPreserved
  <2> QED BY <1>1, <2>1, <2>2
<1>6. Aimed'
  BY <1>1, <1>5 DEF Aimed, Sg!NoAim
<1> QED BY <1>3, <1>4, <1>6

\* What a distillation takes away is still among the dropped.
LEMMA DistillStep ==
    ASSUME Counted, Kept, Aimed, Sg!Distill
    PROVE  Counted' /\ Kept' /\ Aimed'
<1>1. /\ UNCHANGED <<sgTier, sgStates, sgMoves, sgIllegal, sgStore, sgCount, sgPending, sgAim,
                     sgLast>>
      /\ sgCorpus' \subseteq sgCorpus
      /\ sgDropped' = sgDropped \cup (sgCorpus \ sgCorpus')
  BY DEF Sg!Distill, Sg!modelVars
<1>2. \A x : Sg!traceOf(x)' = Sg!traceOf(x)
  BY <1>1, SameTraces
<1>3. Counted'
  BY <1>1 DEF Counted, Uses, Into
<1>4. sgCorpus' \cup sgDropped' = sgCorpus \cup sgDropped
  BY <1>1
<1>5. Kept'
  BY <1>1, <1>2, <1>4 DEF Kept, Sg!KnownStateIsKept, Sg!Reached
<1>6. Aimed'
  BY <1>1, <1>2 DEF Aimed, Sg!AimIsPreserved, Sg!Reached
<1> QED BY <1>3, <1>5, <1>6

LEMMA GuidanceStep ==
    ASSUME Counted, Kept, Aimed, Sg!Next
    PROVE  Counted' /\ Kept' /\ Aimed'
<1>1. ASSUME NEW w \in Sessions, Sg!AddSeed(w) PROVE Counted' /\ Kept' /\ Aimed'
  BY <1>1, AddSeedStep
<1>2. CASE Sg!Seed
  BY <1>2, SeedStep
<1>3. CASE Sg!execute
  BY <1>3, ExecuteStep
<1>4. CASE Sg!admit
  BY <1>4, AdmitStep
<1>5. CASE Sg!reject \/ Sg!energySpent
  BY <1>5, LeaveStep
<1>6. CASE Sg!Distill
  BY <1>6, DistillStep
<1> QED BY <1>1, <1>2, <1>3, <1>4, <1>5, <1>6 DEF Sg!Next, Sessions

LEMMA GuidanceImplied == GuidanceInv => GuidanceIsSound
<1> SUFFICES ASSUME Counted, Kept, Aimed PROVE Sg!TypeOK /\ Sg!GuidanceIsSound
  BY DEF GuidanceInv, GuidanceIsSound
<1>1. sgCorpus \cup sgDropped \subseteq Sg!Sessions
  BY DEF Kept, Sessions
<1>2. sgAim.state \in Sg!LabelSet \cup {""}
  <2>1. CASE sgAim = Sg!NoAim
    BY <2>1 DEF Sg!NoAim
  <2>2. CASE sgAim.state \in LabelSet \cup {""}
    BY <2>2 DEF LabelSet
  <2> QED BY <2>1, <2>2 DEF Aimed
<1>3. Sg!TypeOK
  BY <1>1, <1>2 DEF Kept, Aimed, Sg!TypeOK, Sg!Cardinality, Cardinality
<1>4. ASSUME NEW l \in LabelSet
      PROVE  sgStates[l] = Sg!FoldFunction(+, 0, [m \in {n \in Sg!Moves : n[2] = l} |-> sgMoves[m]])
  <2> DEFINE D == Into(l)
             f == [n \in D |-> sgMoves[n]]
  <2>1. DOMAIN f = D /\ sgStates[l] = Total(D, f)
    BY DEF Counted, Uses
  <2>2. f = [m \in {n \in Sg!Moves : n[2] = l} |-> sgMoves[m]]
    BY DEF Into
  <2> HIDE DEF D, f
  <2>3. Sg!FoldFunction(+, 0, f) = Total(D, f)
    BY <2>1, FoldIsTotal
  <2> QED BY <2>1, <2>2, <2>3
<1>5. Sg!CountsBalance
  BY <1>4 DEF Counted, Sg!CountsBalance, LabelSet
<1> QED BY <1>3, <1>5 DEF Kept, Aimed, Sg!GuidanceIsSound

\* Whatever sessions come in which order, whatever is admitted or turned down and whenever the
\* corpus is distilled, a state the model counts is reached by an entry, or by one that a
\* distillation dropped, changing a message past the aim keeps the way to it,
\* and the visits of a state are the moves into it (StateGuidance).
THEOREM GuidanceCorrect == Spec => []GuidanceIsSound
<1>1. Init => GuidanceInv
  BY GuidanceStart DEF Init, GuidanceInv
<1>2. GuidanceInv /\ [Next]_vars => GuidanceInv'
  <2> SUFFICES ASSUME GuidanceInv, [Next]_vars PROVE GuidanceInv'
    OBVIOUS
  <2>1. CASE part = "guidance" /\ Sg!Next /\ part' = part
    BY <2>1, GuidanceStep DEF GuidanceInv
  <2>2. CASE UNCHANGED <<part, sgVars>>
    <3>1. /\ part' = part
          /\ UNCHANGED <<sgTier, sgCorpus, sgDropped, sgStates, sgMoves, sgIllegal, sgStore,
                         sgPending, sgAim, sgLast, sgCount>>
      BY <2>2 DEF sgVars
    <3>2. \A x : Sg!traceOf(x)' = Sg!traceOf(x)
      BY <3>1, SameTraces
    <3>3. Counted => Counted'
      BY <3>1 DEF Counted, Uses, Into
    <3>4. Kept => Kept'
      BY <3>1, <3>2 DEF Kept, Sg!KnownStateIsKept, Sg!Reached
    <3>5. Aimed => Aimed'
      BY <3>1, <3>2 DEF Aimed, Sg!AimIsPreserved, Sg!Reached
    <3> QED BY <3>1, <3>3, <3>4, <3>5 DEF GuidanceInv
  <2>3. \/ part = "guidance" /\ Sg!Next /\ part' = part
        \/ UNCHANGED <<part, sgVars>>
    BY DEF Next, vars, sgVars
  <2> QED BY <2>1, <2>2, <2>3
<1> QED BY <1>1, <1>2, GuidanceImplied, PTL DEF Spec
=============================================================================
