------------------------------- MODULE Registry -----------------------------
(***************************************************************************)
(* The daemon's registry of campaigns and stores (internal/daemon/         *)
(* daemon.go) under concurrent API requests (internal/api/routes.go).      *)
(*                                                                         *)
(* Each request runs on a goroutine of its own and takes the daemon's lock *)
(* only for its look-ups and for its last step: Create and Load open the   *)
(* store, build the campaign and register it in three critical sections,   *)
(* and a request that acts on a campaign acts on the object it looked up.  *)
(*                                                                         *)
(* A request builds at most one campaign object, so the object is named by *)
(* the request.  A campaign's row in a store is named by the request that  *)
(* inserted it, which stands for its id and its seed.                      *)
(***************************************************************************)
EXTENDS Naturals, FiniteSets

CONSTANTS
    Requests,      \* API requests, each of which makes one call
    Names, Dirs,   \* campaign names and store directories
    Nobody,        \* no object, no row
    MaxCampaigns   \* Options.MaxCampaigns

VARIABLES
    campaigns,  \* Daemon.campaigns: the object registered under each name
    stores,     \* Daemon.stores: "none", "open" or "closed" for each directory
    opened,     \* history: how often each directory has been opened
    rows,       \* the campaign table of each store
    object,     \* the campaign objects: [state, name, dir, seed]
    request,    \* where each request is: [op, name, dir, on]
    daemon,     \* "up", then Close is at "campaigns", and has returned: "closed"
    closing     \* Close's copies: [cs |-> objects, stores |-> directories]

regVars == <<campaigns, stores, opened, rows, object, request, daemon, closing>>

NoObject == [state |-> "none", name |-> Nobody, dir |-> Nobody, seed |-> Nobody]
Idle == [op |-> "idle", name |-> Nobody, dir |-> Nobody, on |-> Nobody]

\* New: nothing is loaded and no store is open.
Init ==
    /\ campaigns = [n \in Names |-> Nobody]
    /\ stores = [d \in Dirs |-> "none"] /\ opened = [d \in Dirs |-> 0]
    /\ rows = [d \in Dirs |-> [n \in Names |-> Nobody]]
    /\ object = [r \in Requests |-> NoObject]
    /\ request = [r \in Requests |-> Idle]
    /\ daemon = "up" /\ closing = [cs |-> {}, stores |-> {}]

Loaded == {n \in Names : campaigns[n] # Nobody}
At(r, op) == request[r].op = op
Goto(r, op) == request' = [request EXCEPT ![r].op = op]

\* Any step of a request that ends in an error, or has nothing more to do.
Fails(r) ==
    /\ Goto(r, "done")
    /\ UNCHANGED <<campaigns, stores, opened, rows, object, daemon, closing>>

-----------------------------------------------------------------------------
(* Create and Load. *)

\* The checks of Create, in one critical section that ends with them.
Create(r, n, d) ==
    /\ At(r, "idle")
    /\ request' = [request EXCEPT ![r] =
         [op |-> IF \/ daemon # "up" \/ campaigns[n] # Nobody
                    \/ Cardinality(Loaded) >= MaxCampaigns
                 THEN "done" ELSE "createStore",
          name |-> n, dir |-> d, on |-> Nobody]]
    /\ UNCHANGED <<campaigns, stores, opened, rows, object, daemon, closing>>

\* Load answers with the campaign that is loaded; it asks neither whether the
\* daemon is shutting down nor whether the limit is reached.
Load(r, n, d) ==
    /\ At(r, "idle")
    /\ request' = [request EXCEPT ![r] =
         [op |-> IF campaigns[n] # Nobody THEN "done" ELSE "loadStore",
          name |-> n, dir |-> d, on |-> Nobody]]
    /\ UNCHANGED <<campaigns, stores, opened, rows, object, daemon, closing>>

\* Mistake in storeAt: the look-up and the insertion are two critical sections.
storeAtUnlocked(r) ==
    /\ At(r, "createStore") \/ At(r, "loadStore")
    /\ LET d == request[r].dir IN
       \E fresh \in BOOLEAN :
        /\ fresh \/ stores[d] # "none"
        /\ stores' = [stores EXCEPT ![d] = IF fresh THEN "open" ELSE @]
        /\ opened' = [opened EXCEPT ![d] = IF fresh THEN @ + 1 ELSE @]
    /\ Goto(r, IF At(r, "loadStore") THEN "loadRow" ELSE "build")
    /\ UNCHANGED <<campaigns, rows, object, daemon, closing>>

\* storeAt, under the lock throughout. A store Close has closed is still listed.
storeAt(r) ==
    /\ At(r, "createStore") \/ At(r, "loadStore")
    /\ LET d == request[r].dir IN
        /\ stores' = [stores EXCEPT ![d] = IF @ = "none" THEN "open" ELSE @]
        /\ opened' = [opened EXCEPT ![d] = IF stores[d] = "none" THEN @ + 1 ELSE @]
    /\ Goto(r, IF At(r, "loadStore") THEN "loadRow" ELSE "build")
    /\ UNCHANGED <<campaigns, rows, object, daemon, closing>>

\* The directory cannot be opened.
storeAtFails(r) ==
    /\ At(r, "createStore") \/ At(r, "loadStore")
    /\ stores[request[r].dir] = "none"
    /\ Fails(r)

Row(r) == rows[request[r].dir][request[r].name]
Readable(r) == stores[request[r].dir] = "open"

\* Load reads the stored configuration of the campaign.
loadRow(r) ==
    /\ At(r, "loadRow")
    /\ IF Readable(r) /\ Row(r) # Nobody
       THEN /\ Goto(r, "build")
            /\ UNCHANGED <<campaigns, stores, opened, rows, object, daemon, closing>>
       ELSE Fails(r)

Built(r, seed) ==
    object' = [object EXCEPT ![r] = [state |-> "created", name |-> request[r].name,
                                     dir |-> request[r].dir, seed |-> seed]]

\* NewCampaign looks its row up: a campaign the store knows resumes under the id
\* and the seed recorded there.
NewCampaign(r) ==
    /\ At(r, "build")
    /\ \/ /\ Readable(r) /\ Row(r) # Nobody
          /\ Built(r, Row(r))
          /\ Goto(r, "register")
          /\ UNCHANGED <<campaigns, stores, opened, rows, daemon, closing>>
       \/ /\ Readable(r) /\ Row(r) = Nobody
          /\ Goto(r, "insert")
          /\ UNCHANGED <<campaigns, stores, opened, rows, object, daemon, closing>>

\* The sandbox check, the scope or the store refuses it.
newCampaignFails(r) == At(r, "build") /\ Fails(r)

\* Mistake in CreateCampaign: an insertion that replaces the row.
CreateCampaignReplaces(r) ==
    /\ At(r, "insert") /\ Readable(r)
    /\ rows' = [rows EXCEPT ![request[r].dir][request[r].name] = r]
    /\ Built(r, r)
    /\ Goto(r, "register")
    /\ UNCHANGED <<campaigns, stores, opened, daemon, closing>>

\* The insertion: a campaign's name is unique in its store.
CreateCampaign(r) ==
    /\ At(r, "insert") /\ Readable(r) /\ Row(r) = Nobody
    /\ rows' = [rows EXCEPT ![request[r].dir][request[r].name] = r]
    /\ Built(r, r)
    /\ Goto(r, "register")
    /\ UNCHANGED <<campaigns, stores, opened, daemon, closing>>

createCampaignFails(r) ==
    /\ At(r, "insert")
    /\ ~Readable(r) \/ Row(r) # Nobody
    /\ Fails(r)

\* register's last step, whatever the registry holds by now.
register(r) ==
    /\ At(r, "register")
    /\ campaigns' = [campaigns EXCEPT ![request[r].name] = r]
    /\ Goto(r, "done")
    /\ UNCHANGED <<stores, opened, rows, object, daemon, closing>>

-----------------------------------------------------------------------------
(* Requests that act on a campaign. *)

\* Server.act: the campaign is looked up under the lock and acted on after it.
act(r, op, n) ==
    /\ At(r, "idle")
    /\ request' = [request EXCEPT ![r] =
         [op |-> IF campaigns[n] = Nobody THEN "done" ELSE op,
          name |-> n, dir |-> Nobody, on |-> campaigns[n]]]
    /\ UNCHANGED <<campaigns, stores, opened, rows, object, daemon, closing>>

\* Campaign.Start and Campaign.Stop as far as the registry can tell (module
\* Campaign has their steps).  Workers run only if the store still takes the
\* status; a start that fails there leaves the state at running without them.
start(r) ==
    /\ At(r, "start")
    /\ LET o == request[r].on IN
       object' = [object EXCEPT ![o].state =
           IF @ \in {"running", "startFailed"} THEN @
           ELSE IF stores[object[o].dir] = "open" THEN "running" ELSE "startFailed"]
    /\ Goto(r, "done")
    /\ UNCHANGED <<campaigns, stores, opened, rows, daemon, closing>>

stop(r) ==
    /\ At(r, "stop")
    /\ LET o == request[r].on IN
       object' = [object EXCEPT ![o].state =
           IF @ \in {"running", "startFailed"} THEN "finished" ELSE @]
    /\ Goto(r, "done")
    /\ UNCHANGED <<campaigns, stores, opened, rows, daemon, closing>>

\* Forget, under the lock throughout: refused while the campaign runs.
Forget(r, n) ==
    /\ At(r, "idle")
    /\ Goto(r, "done")
    /\ campaigns' = [campaigns EXCEPT ![n] =
           IF @ # Nobody /\ object[@].state \in {"running", "startFailed"} THEN @ ELSE Nobody]
    /\ UNCHANGED <<stores, opened, rows, object, daemon, closing>>

-----------------------------------------------------------------------------
(* Daemon.Close. *)

Close ==
    /\ daemon = "up"
    /\ daemon' = "campaigns"
    /\ closing' = [cs |-> {campaigns[n] : n \in Loaded},
                   stores |-> {d \in Dirs : stores[d] # "none"}]
    /\ UNCHANGED <<campaigns, stores, opened, rows, object, request>>

\* The campaigns of the copy are stopped, one after another.
closeCampaign(o) ==
    /\ daemon = "campaigns" /\ o \in closing.cs
    /\ object' = [object EXCEPT ![o].state =
           IF @ \in {"running", "startFailed"} THEN "finished" ELSE @]
    /\ closing' = [closing EXCEPT !.cs = @ \ {o}]
    /\ UNCHANGED <<campaigns, stores, opened, rows, request, daemon>>

closeStores ==
    /\ daemon = "campaigns" /\ closing.cs = {}
    /\ stores' = [d \in Dirs |-> IF d \in closing.stores THEN "closed" ELSE stores[d]]
    /\ daemon' = "closed"
    /\ UNCHANGED <<campaigns, opened, rows, object, request, closing>>

Next ==
    \/ \E r \in Requests :
        \/ \E n \in Names, d \in Dirs : Create(r, n, d) \/ Load(r, n, d)
        \/ storeAt(r) \/ storeAtFails(r) \/ loadRow(r)
        \/ NewCampaign(r) \/ newCampaignFails(r)
        \/ CreateCampaign(r) \/ createCampaignFails(r) \/ register(r)
        \/ \E n \in Names : act(r, "start", n) \/ act(r, "stop", n) \/ Forget(r, n)
        \/ start(r) \/ stop(r)
    \/ Close \/ closeStores
    \/ \E o \in Requests : closeCampaign(o)

Spec == Init /\ [][Next]_regVars

-----------------------------------------------------------------------------
(* Properties. *)

TypeOK ==
    /\ campaigns \in [Names -> Requests \cup {Nobody}]
    /\ stores \in [Dirs -> {"none", "open", "closed"}]
    /\ opened \in [Dirs -> Nat]
    /\ rows \in [Dirs -> [Names -> Requests \cup {Nobody}]]
    /\ \A r \in Requests : object[r].state \in
           {"none", "created", "running", "startFailed", "finished"}
    /\ daemon \in {"up", "campaigns", "closed"}

\* storeAt: a directory is opened at most once in the life of the daemon, however
\* many requests ask for it at once; "opening it twice in one process is how a
\* daemon deadlocks against itself".
OneHandlePerStore == \A d \in Dirs : opened[d] <= 1

\* NewCampaign: every object ever built for a campaign of a store, by rival
\* requests too, runs under the id and the seed its row records.
OneSeedPerCampaign ==
    \A r \in Requests : object[r].state # "none" =>
        object[r].seed = rows[object[r].dir][object[r].name]

\* daemon.go, Close: "Close stops every campaign and releases the stores."
CloseStopsEveryCampaign ==
    daemon = "closed" => \A r \in Requests : object[r].state # "running"
=============================================================================
