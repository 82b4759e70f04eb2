---------------------------- MODULE CampaignFile ----------------------------
(***************************************************************************)
(* pkg/campaign: a campaign file, its includes and profiles are merged,    *)
(* defaults fill what nobody wrote, the result is validated, and it is     *)
(* rendered again for the workers and the store.  A document is a function *)
(* from the keys it contains to values; a value says what the code tells   *)
(* apart ("bad" stands for anything outside a list).  "zero" is the zero   *)
(* value of Go: an empty string, 0, false, nil or an empty list, which a   *)
(* document may also write down.                                           *)
(***************************************************************************)
EXTENDS Naturals, Sequences, FiniteSets, FiniteSetsExt, Functions

CONSTANTS
    CfPairKeys,   \* a document differs from the plain one of its kind in any key and one of these
    CfKinds,      \* the kinds of campaign whose documents are enumerated
    CfLayerKeys   \* the keys that are written in several layers

VARIABLES
    cfLayers,     \* the documents: included file, main file, and the profile as each defines it
    cfProfile,    \* the profile was selected
    cfResolved    \* what Load returned, or Unread

cfVars == <<cfLayers, cfProfile, cfResolved>>

-----------------------------------------------------------------------------
(* The keys, by block, with the values a document may give them.           *)

TargetKeys ==
    [name |-> {"ok", "bad"}, path |-> {"ok", "missing", "noexec"},
     executor |-> {"auto", "forkserver", "pool", "subprocess", "inproc", "emulated", "bad"},
     input |-> {"stdin", "file", "bad"}, args |-> {"placeholder"}, timeout |-> {"pos", "neg"}]

SeedKeys == [seeds |-> {"inline", "missing", "generate"}, seedFormat |-> {"raw", "bad"}]

FormatKeys ==
    [codec |-> {"raw", "png", "http", "bad"}, grammar |-> {"ok", "missing", "broken"},
     dictionary |-> {"ok", "missing"}, maxInput |-> {"pos"}, operators |-> {"known", "unknown"}]

FeedbackKeys ==
    [coverage |-> {"sancov", "gocov", "ptrace-bb", "blackbox", "none", "bad"},
     mapSize |-> {"pow2", "odd"}, cmplog |-> {"true"}, valueProfile |-> {"true"},
     novelty |-> {"true"}, directed |-> {"ok", "empty"}, objectives |-> {"crash", "bad"}]

SessionKeys ==
    [session |-> {"block"}, address |-> {"shared", "perWorker", "bad"},
     managed |-> {"true", "false"}, framing |-> {"idle", "none", "bad"},
     reset |-> {"none", "reconnect", "restart", "snapshot", "bad"},
     readTimeout |-> {"short", "long"}, sessionTimeout |-> {"short", "long"},
     readLimit |-> {"pos"}, maxMessages |-> {"pos", "neg"}]

StateKeys ==
    [state |-> {"block"}, stateFn |-> {"fingerprint", "status", "script", "bad"},
     script |-> {"ok", "bad"}, normalise |-> {"digits", "bad"}, guide |-> {"true", "false"},
     explore |-> {"share", "bad"}, declare |-> {"ok", "bad"}, learn |-> {"block"},
     alphabet |-> {"many", "one"}]

ApiKeys ==
    [api |-> {"block"}, apiAddress |-> {"shared", "perWorker", "unix", "bad"},
     links |-> {"none", "bad"}, expect |-> {"denied", "bad"},
     apiOracles |-> {"latency", "authorization", "bad"}, identity |-> {"ok"},
     capture |-> {"ok", "missing"}, secrets |-> {"ok", "missing"}]

DriverKeys ==
    [driver |-> {"block"}, driverKind |-> {"tui", "web", "gui", "bad"}, url |-> {"ok", "bad"},
     driverSize |-> {"ok", "small"}, maxEvents |-> {"pos", "neg"}, driverReset |-> {"none", "bad"},
     driverGuide |-> {"true", "false"}, driverNormalise |-> {"digits", "bad"},
     driverOracles |-> {"trap", "exception", "bad"}]

WorkerKeys ==
    [count |-> {"one", "many", "toomany"}, strategies |-> {"ok", "twice"}, sync |-> {"pos", "neg"}]

SafetyKeys ==
    [isolation |-> {"minimal", "bad"}, memory |-> {"pos", "neg"}, network |-> {"true"},
     allow |-> {"ok", "bad"}, loopback |-> {"true", "false"}, authorization |-> {"ok", "partial"}]

OutcomeKeys ==
    [distill |-> {"hour", "second"}, checkpoint |-> {"pos"}, triageEnabled |-> {"true", "false"},
     trials |-> {"pos", "many"}, budget |-> {"pos", "neg"}, bucketing |-> {"coverage", "bad"},
     markers |-> {"ok", "empty"}, health |-> {"share", "bad"}, stop |-> {"pos", "neg"}]

ExtensionKeys == [extensions |-> {"ok", "bad"}, scripts |-> {"ok", "bad"}]

Blocks ==
    {TargetKeys, SeedKeys, FormatKeys, FeedbackKeys, SessionKeys, StateKeys, ApiKeys, DriverKeys,
     WorkerKeys, SafetyKeys, OutcomeKeys, ExtensionKeys}

Keys == UNION {DOMAIN block : block \in Blocks}

\* No key is in two blocks.
Values == [k \in Keys |-> (CHOOSE block \in Blocks : k \in DOMAIN block)[k]]

\* A document that says nothing, and the file it decodes to.
Empty == [k \in {} |-> "zero"]
Blank == [k \in Keys |-> "zero"]

\* A document with the keys of e on top of those of d.
With(d, e) == [k \in DOMAIN d \cup DOMAIN e |-> IF k \in DOMAIN e THEN e[k] ELSE d[k]]

\* The plain campaign of each kind: what every one of them has to say.
Plain ==
    [process |-> [name |-> "ok", path |-> "ok", seeds |-> "inline"],
     session |-> [name |-> "ok", path |-> "ok", seeds |-> "inline", session |-> "block",
                  address |-> "shared"],
     api     |-> [name |-> "ok", api |-> "block", apiAddress |-> "shared", capture |-> "ok"],
     driver  |-> [name |-> "ok", path |-> "ok", seeds |-> "inline", driver |-> "block"],
     web     |-> [name |-> "ok", seeds |-> "inline", driver |-> "block", driverKind |-> "web",
                  url |-> "ok", network |-> "true", allow |-> "ok", authorization |-> "ok"]]

Unread == [state |-> "unread"]
NoProfile == [absent |-> "zero"]

-----------------------------------------------------------------------------
(* Reading and merging.                                                    *)

\* decode: the typed file, with zeros where the document is silent, and the keys it contains.
decode(d) == [v |-> With(Blank, d), set |-> DOMAIN d]

\* Mistake: an overlay counts only where the base is silent.
mergeUnder(dst, src) == [k \in Keys |-> IF dst[k] = "zero" THEN src[k] ELSE dst[k]]

\* mergeValue: what the overlay holds replaces what the base holds, except a zero, which is
\* taken for silence, written or not.
merge(dst, src) == [k \in Keys |-> IF src[k] = "zero" THEN dst[k] ELSE src[k]]

\* loadFile: the included file first, then the file itself.  Both may define the profile: the map
\* of profiles is merged per name, so the profile of the file replaces the other one, while the
\* keys of both are remembered.
loadFile ==
    LET inc  == decode(cfLayers.include)
        main == decode(cfLayers.main)
        own  == cfLayers.profile # NoProfile
    IN  [v       |-> merge(inc.v, main.v),
         set     |-> inc.set \cup main.set,
         profile |-> IF own THEN cfLayers.profile ELSE cfLayers.included,
         keys    |-> (DOMAIN cfLayers.profile \cup DOMAIN cfLayers.included)
                         \ DOMAIN NoProfile]

\* fill: a default goes where the value is zero and, when the table is of those where zero means
\* something, the key was not written.
fill(f, table, written) ==
    [k \in Keys |-> IF f[k] = "zero" /\ k \in DOMAIN table /\ k \notin written
                    THEN table[k] ELSE f[k]]

Placeholder(f, k) == f[k] = "perWorker"

\* The defaults of each block that is there.
sessionDefaults(f, set) ==
    IF f.session = "zero" THEN f
    ELSE LET g == fill(f, [framing |-> "idle", reset |-> "reconnect", state |-> "block",
                           managed |-> IF f.path = "zero" THEN "false" ELSE "true",
                           stateFn |-> "fingerprint", guide |-> "true"], {})
             h == fill(g, [readTimeout |-> "short", sessionTimeout |-> "long",
                           readLimit |-> "pos", maxMessages |-> "pos", explore |-> "share"], set)
         IN  IF h.stateFn = "fingerprint" THEN fill(h, [normalise |-> "all"], set) ELSE h

apiDefaults(f, set) ==
    IF f.api = "zero" THEN f
    ELSE fill(fill(f, [links |-> "infer", expect |-> "unknown"], {}),
              [apiOracles |-> "status+schema"], set)

driverDefaults(f, set) ==
    IF f.driver = "zero" THEN f
    ELSE fill(fill(f, [driverKind |-> "tui", driverReset |-> "restart", driverGuide |-> "true"],
                   {}),
              [driverSize |-> "ok", maxEvents |-> "pos", driverNormalise |-> "all",
               driverOracles |-> "diagnostic+unresponsive"], set)

workerDefaults(f, set) ==
    LET one == \/ f.session # "zero" /\ ~Placeholder(f, "address")
               \/ f.api # "zero" /\ ~Placeholder(f, "apiAddress")
               \/ f.driver # "zero"
    IN  fill(f, [count |-> IF one THEN "one" ELSE "many", sync |-> "pos"], set)

\* defaults, in the order of the code; the campaigns that are slow get fewer trials.
defaults(f, set) ==
    LET base == fill(f, [executor |-> "auto", input |-> "stdin", seedFormat |-> "auto",
                         codec |-> IF f.session = "zero" THEN "raw" ELSE "session",
                         coverage |-> "sancov", objectives |-> "all"], {})
        nums == fill(base, [timeout |-> "pos", maxInput |-> "pos", mapSize |-> "pow2"], set)
        slow == nums.api # "zero" \/ nums.driver # "zero"
        blks == driverDefaults(apiDefaults(sessionDefaults(nums, set), set), set)
        wrk  == workerDefaults(blks, set)
        last == fill(wrk, [isolation |-> "minimal", loopback |-> "true", bucketing |-> "chain",
                           triageEnabled |-> "true"], {})
        lrn  == IF last.state # "zero" /\ last.learn # "zero"
                THEN fill(last, [alphabet |-> "many"], {}) ELSE last
    IN  fill(lrn, [memory |-> "pos", checkpoint |-> "default",
                   trials |-> IF slow THEN "three" ELSE "five",
                   budget |-> IF slow THEN "slow" ELSE "default"], set)

-----------------------------------------------------------------------------
(* Validation.  Each operator is the set of fields it complains about.     *)

Problem(cond, field) == IF cond THEN {field} ELSE {}

validateTarget(f, set) ==
    IF f.path = "zero"
    THEN Problem(f.api = "zero" /\ ~(f.driver # "zero" /\ f.driverKind = "web"), "target.path")
    ELSE Problem(f.path # "ok", "target.path")
         \cup Problem(f.executor = "bad", "target.executor")
         \cup Problem(f.input = "bad" \/ (f.input # "file" /\ f.args = "placeholder"),
                      "target.input")
         \cup Problem(f.input = "file" /\ f.args # "placeholder", "target.args")
         \cup Problem("timeout" \in set /\ f.timeout # "pos", "target.timeout")

validateFormat(f, set) ==
    Problem(f.codec = "bad", "format.codec")
    \cup Problem(f.grammar = "missing", "format.grammar")
    \cup Problem(f.dictionary = "missing", "format.dictionary")
    \cup Problem("maxInput" \in set /\ f.maxInput # "pos", "format.max_input_bytes")

IsBinaryOnlyCoverage(c) == c \in {"ptrace-bb", "qemu", "frida"}

\* Mistake: a campaign that keeps nothing is let through.
validateFeedbackLoose(f, set) == Problem(f.objectives = "bad", "feedback.objectives")

validateFeedback(f, set) ==
    Problem(f.coverage = "bad", "feedback.coverage")
    \cup Problem(IsBinaryOnlyCoverage(f.coverage) /\ f.executor \notin {"auto", "emulated"},
                 "target.executor")
    \cup Problem("mapSize" \in set /\ f.mapSize # "pow2", "feedback.map_size")
    \cup Problem("true" \in {f.cmplog, f.valueProfile} /\ f.coverage \notin {"sancov", "gocov"},
                 "feedback.cmplog")
    \cup Problem(f.valueProfile = "true" /\ f.cmplog # "true", "feedback.value_profile")
    \cup Problem(f.directed = "empty", "feedback.directed.targets")
    \cup Problem(f.directed # "zero" /\ ~IsBinaryOnlyCoverage(f.coverage)
                 /\ f.coverage # "sancov", "feedback.directed")
    \cup Problem(f.objectives = "bad", "feedback.objectives")
    \cup Problem(f.coverage = "none" /\ f.novelty # "true", "feedback.coverage")

validateWorkers(f, set) ==
    Problem(("count" \in set /\ f.count = "zero") \/ f.count = "toomany", "workers.count")
    \cup Problem(f.strategies = "twice", "workers.strategies")
    \cup Problem(f.sync = "neg", "workers.sync_interval")

validateSafety(f) ==
    Problem(f.isolation = "bad", "safety.isolation")
    \cup Problem(f.memory = "neg", "safety.memory_limit")
    \cup Problem(f.allow = "bad" \/ (f.network = "true" /\ f.allow = "zero"), "safety.scope.allow")
    \cup Problem((f.network = "true" /\ f.authorization = "zero")
                 \/ f.authorization = "partial", "safety.authorization")

validateTriage(f, set) ==
    Problem("trials" \in set /\ f.trials = "zero", "triage.trials")
    \cup Problem(f.budget = "neg", "triage.minimize_budget")
    \cup Problem(f.bucketing = "bad" \/ (f.bucketing = "coverage" /\ f.coverage = "none"),
                 "triage.strategy")
    \cup Problem(f.markers = "empty", "triage.markers")

validateHealth(f) == Problem(f.health = "bad", "health")
validateStop(f) == Problem(f.stop = "neg", "stop")

validateStorage(f) ==
    Problem(f.distill = "second" \/ (f.distill # "zero" /\ f.coverage = "none"),
            "storage.distill_interval")

validateSeeds(f) ==
    Problem(f.seedFormat = "bad", "seeds.format")
    \cup Problem(f.seeds = "missing", "seeds.dirs")
    \cup Problem(f.seeds = "zero" /\ (f.api = "zero" \/ f.capture = "zero"), "seeds")
    \cup Problem(f.seeds = "generate" /\ f.grammar = "zero", "seeds.generate")

validateState(f, set) ==
    IF f.state = "zero" THEN {}
    ELSE Problem(f.stateFn = "bad", "state.fn")
         \cup Problem(f.stateFn = "script" /\ (f.script # "ok" \/ f.scripts = "zero"),
                      "state.script")
         \cup Problem(f.script # "zero" /\ f.stateFn # "script", "state.script")
         \cup Problem(f.normalise = "bad"
                      \/ (f.normalise # "zero" /\ f.stateFn # "fingerprint"
                          /\ "normalise" \in set), "state.normalise")
         \cup Problem(f.framing = "none" /\ f.guide = "true", "state.guide")
         \cup Problem(f.explore = "bad", "state.explore")
         \cup Problem(f.declare = "bad", "state.declare")

validateSession(f, set) ==
    IF f.session = "zero" THEN Problem(f.state # "zero", "state")
    ELSE Problem(f.address \in {"zero", "bad"}
                 \/ (f.count \in {"many", "toomany"} /\ f.managed = "true"
                     /\ ~Placeholder(f, "address")), "session.address")
         \cup Problem(f.framing = "bad", "session.framing")
         \cup Problem(f.reset \in {"snapshot", "bad"}
                      \/ (f.reset = "restart" /\ f.managed # "true"), "session.reset")
         \cup Problem(f.managed = "true" /\ f.path = "zero", "session.managed")
         \cup Problem(f.maxMessages = "neg", "session.max_messages")
         \cup Problem("readLimit" \in set /\ f.readLimit # "pos", "session.read_limit")
         \cup Problem(f.sessionTimeout = "short" /\ f.readTimeout = "long",
                      "session.session_timeout")
         \cup validateState(f, set)

validateLearn(f) ==
    IF f.state = "zero" \/ f.learn = "zero" THEN {}
    ELSE Problem(f.session = "zero" /\ f.api = "zero", "state.learn")
         \cup Problem(f.alphabet = "one", "state.learn.alphabet")
         \cup Problem(f.seeds = "zero", "state.learn")

validateAPI(f) ==
    IF f.api = "zero" THEN {}
    ELSE Problem(f.session # "zero" \/ f.driver # "zero", "api")
         \cup Problem(f.apiAddress \in {"zero", "bad"}, "api.address")
         \cup Problem(f.links = "bad", "api.links")
         \cup Problem(f.expect = "bad" \/ (f.apiOracles = "authorization" /\ f.expect = "unknown"),
                      "api.expect")
         \cup Problem(f.apiOracles = "bad", "api.oracles")
         \cup Problem(f.apiOracles = "authorization" /\ f.identity = "zero", "api.identity")
         \cup Problem(f.capture = "missing"
                      \/ (f.capture = "zero" /\ f.seeds \in {"zero", "generate"}
                          /\ f.grammar = "zero"), "api.capture")
         \cup Problem(f.secrets = "missing", "api.secrets")

validateWebDriver(f) ==
    Problem(f.url # "ok" \/ f.network # "true", "driver.url")
    \cup Problem(f.driverSize # "ok", "driver.width")

validateDriver(f) ==
    IF f.driver = "zero" THEN {}
    ELSE Problem(f.session # "zero", "driver")
         \cup Problem(f.driverKind = "bad", "driver.kind")
         \cup (CASE f.driverKind = "web" -> validateWebDriver(f)
                 [] f.driverKind = "gui" -> {}
                 [] OTHER -> Problem(f.driverSize # "ok", "driver.cols"))
         \cup Problem(f.maxEvents # "pos", "driver.max_events")
         \cup Problem(f.driverReset = "bad", "driver.reset")
         \cup Problem(f.driverNormalise = "bad", "driver.normalise")
         \cup Problem(f.driverOracles = "bad"
                      \/ (f.driverOracles = "exception" /\ f.driverKind # "web"),
                      "driver.oracles")
         \cup Problem(f.driverGuide = "false" /\ f.driverOracles = "zero", "driver.guide")

validateExtensions(f) == Problem(f.extensions = "bad", "extensions")

\* A script that provides nothing but a state function is used by the state block.
validateScripts(f) == Problem(f.scripts = "bad", "scripts")

\* Validate: everything that is wrong, at once.
Validate(f, set) ==
    Problem(f.name # "ok", "name")
    \cup validateTarget(f, set) \cup validateFormat(f, set) \cup validateFeedback(f, set)
    \cup validateWorkers(f, set) \cup validateSafety(f) \cup validateTriage(f, set)
    \cup validateHealth(f) \cup validateStop(f) \cup validateStorage(f) \cup validateSeeds(f)
    \cup validateSession(f, set) \cup validateLearn(f) \cup validateAPI(f)
    \cup validateDriver(f) \cup validateExtensions(f) \cup validateScripts(f)

\* resolve: the profile on top, defaults, and the verdict of Validate.
resolve(f, set, profile, keys, selected) ==
    LET g == IF selected THEN merge(f, With(Blank, profile)) ELSE f
        s == IF selected THEN set \cup keys ELSE set
        v == defaults(g, s)
        p == Validate(v, s)
    IN  [state |-> IF p = {} THEN "accepted" ELSE "refused", v |-> v, set |-> s, problems |-> p]

\* Load, once; a profile that nobody defines is an error.
Load ==
    /\ cfResolved = Unread
    /\ LET f == loadFile
       IN  cfResolved' = IF cfProfile /\ f.profile = NoProfile
                         THEN [state |-> "error"]
                         ELSE resolve(f.v, f.set,
                                      IF f.profile = NoProfile THEN Empty ELSE f.profile,
                                      f.keys, cfProfile)
    /\ UNCHANGED <<cfLayers, cfProfile>>

\* YAML: every field that is not zero, defaults included.
render(r) == [k \in {k \in Keys : r.v[k] # "zero"} |-> r.v[k]]

\* Parse of a rendered campaign: what a worker is started with.
pinned(r) == LET d == decode(render(r)) IN resolve(d.v, d.set, Empty, {}, FALSE)

-----------------------------------------------------------------------------
(* The documents that are enumerated.                                      *)

Written(k) == Values[k] \cup {"zero"}

\* What the defaults fill in.
Filled ==
    {"idle", "reconnect", "block", "true", "false", "fingerprint", "short", "long", "pos", "share",
     "all", "infer", "unknown", "status+schema", "tui", "restart", "ok",
     "diagnostic+unresponsive", "one", "many", "auto", "stdin", "raw", "session", "sancov", "pow2",
     "minimal", "chain", "default", "three", "five", "slow"}

\* The documents of ds with key k written in any way.
Rewritten(ds, k) == {With(d, [j \in {k} |-> x]) : d \in ds, x \in Written(k)}

\* The documents of ds with one of the keys of ks written otherwise, or left as they are.
Edit(ds, ks) == ds \cup UNION {Rewritten(ds, k) : k \in ks}

OneFile ==
    {[include |-> Empty, main |-> d, included |-> NoProfile, profile |-> NoProfile] :
        d \in Edit(Edit({Plain[kind] : kind \in CfKinds}, Keys), CfPairKeys)}

Says(k) == {Empty} \cup {[j \in {k} |-> x] : x \in Written(k)}

LayersOn(k) ==
    {[include |-> inc, main |-> With(Plain.process, main), included |-> p, profile |-> q] :
        inc \in Says(k), main \in Says(k), p \in Says(k) \cup {NoProfile},
        q \in Says(k) \cup {NoProfile}}

Layered == UNION {LayersOn(k) : k \in CfLayerKeys}

Init ==
    /\ \/ cfLayers \in OneFile /\ cfProfile = FALSE
       \/ cfLayers \in Layered /\ cfProfile \in BOOLEAN
    /\ cfResolved = Unread

Next == Load

Read == cfResolved.state \in {"accepted", "refused"}

TypeOK ==
    /\ cfProfile \in BOOLEAN
    /\ Read => /\ DOMAIN cfResolved.v = Keys /\ cfResolved.set \subseteq Keys
               /\ \A k \in Keys : \/ cfResolved.v[k] \in Filled \cup {"zero"}
                                 \/ cfResolved.v[k] \in Values[k]

-----------------------------------------------------------------------------
(* Properties.                                                             *)

\* The layers that are in force, weakest first.
InForce ==
    <<cfLayers.include, cfLayers.main>>
        \o (IF ~cfProfile THEN <<>>
            ELSE IF cfLayers.profile # NoProfile THEN <<cfLayers.profile>>
                 ELSE <<cfLayers.included>>)

Writers(k) == {i \in DOMAIN InForce : k \in DOMAIN InForce[i]}
Meaning(k) == {i \in Writers(k) : InForce[i][k] # "zero"}

\* Merging and defaulting: the last layer in force that writes a key with a value that is not
\* zero decides it, whatever the other layers and the defaults say; and a zero that every layer
\* in force agrees on is not replaced by a default where zero means something.
WrittenIsKept ==
    Read => \A k \in CfLayerKeys :
        IF Meaning(k) # {} THEN cfResolved.v[k] = InForce[Max(Meaning(k))][k]
        ELSE Writers(k) # {} /\ k \in {"trials", "checkpoint"} => cfResolved.v[k] = "zero"

-----------------------------------------------------------------------------
(***************************************************************************)
(* internal/worker build.go, session.go, api.go, driver.go and             *)
(* internal/extension: a worker turns an accepted campaign into an engine. *)
(* Every step acquires something, may fail, and leaves a closer behind; a  *)
(* failure anywhere must release what was acquired before it.              *)
(***************************************************************************)
VARIABLES
    asStep,      \* the next step of build, or how it ended
    asHeld,      \* what has been acquired and not released
    asClosers,   \* built.closers, in the order of acquisition
    asTier,      \* built.tier
    asNote,      \* built.fallbackReason is set
    asStack      \* the feedbacks the engine is given

asVars == <<asStep, asHeld, asClosers, asTier, asNote, asStack>>
allVars == <<cfVars, asVars>>

cfg == cfResolved.v
WasSet(k) == k \in cfResolved.set
Is(block) == cfg[block] # "zero"

Steps == {"idle", "safety", "extensions", "feedback", "executor", "engine", "unwind", "built",
          "failed", "closed"}

\* What a worker holds.
Resources ==
    {"sandbox", "plugins", "coverage region", "counter region", "block-trace region",
     "comparison region", "browser sandbox", "executor", "engine"}

InitBuild ==
    /\ asStep = "idle"
    /\ asHeld = {}
    /\ asClosers = <<>>
    /\ asTier = "none"
    /\ asNote = FALSE
    /\ asStack = {}

-----------------------------------------------------------------------------
(* What is built, as a function of the campaign.                           *)

\* codecFor: a grammar chooses the codec unless the file named one.
codecFor(r) ==
    IF r.v.grammar # "zero" /\ r.v.session = "zero" /\ "codec" \notin r.set THEN "schema"
    ELSE IF r.v.codec # "raw" THEN r.v.codec
         ELSE IF r.v.api # "zero" THEN "http"
              ELSE IF r.v.driver # "zero" THEN "events" ELSE "raw"

\* buildFeedback: the shared regions a campaign needs, in the order they are created.  A backend
\* that watches the process needs none, and returns before direction is prepared.
regions(v) ==
    IF v.coverage = "none" \/ IsBinaryOnlyCoverage(v.coverage) THEN <<>>
    ELSE <<"coverage region">>
         \o (IF v.coverage = "gocov" THEN <<"counter region">> ELSE <<>>)
         \o (IF v.directed # "zero" THEN <<"block-trace region">> ELSE <<>>)
         \o (IF v.cmplog = "true" THEN <<"comparison region">> ELSE <<>>)

\* buildDirection: prepared only for an instrumented build.
directs(v) == v.directed # "zero" /\ "block-trace region" \in Range(regions(v))

guides(v) ==
    \/ v.session # "zero" /\ v.guide = "true"
    \/ v.session = "zero" /\ v.api = "zero" /\ v.driver # "zero" /\ v.driverGuide = "true"

\* feedbackStack.
feedbackStack(v) ==
    (IF v.coverage # "none" THEN {"map"} ELSE {})
    \cup (IF v.novelty = "true" THEN {"novelty"} ELSE {})
    \cup (IF directs(v) THEN {"distance"} ELSE {})
    \cup (IF v.valueProfile = "true" /\ v.cmplog = "true" /\ regions(v) # <<>>
          THEN {"value-profile"} ELSE {})
    \cup (IF guides(v) THEN {"state"} ELSE {})
    \cup (IF v.extensions # "zero" THEN {"plugin"} ELSE {})

\* buildExecutor: the tier a campaign without a block of its own is delivered by.
tierFor(v) ==
    IF v.executor # "auto" THEN v.executor
    ELSE IF v.coverage = "gocov" THEN "subprocess"
         ELSE IF IsBinaryOnlyCoverage(v.coverage) THEN "emulated"
              ELSE IF v.coverage = "none" THEN "pool" ELSE "forkserver"

\* What a campaign comes to, as far as the pieces it is made of go.
Plan(r) ==
    [codec |-> codecFor(r), stack |-> feedbackStack(r.v), tier |-> tierFor(r.v),
     regions |-> regions(r.v), guides |-> guides(r.v)]

-----------------------------------------------------------------------------
(* The steps of build.                                                     *)

\* close, from the last acquired to the first; the second call does nothing.
closeAll == asHeld' = asHeld \ Range(asClosers)

\* What a step acquires goes to the closers at once.
acquire(what) == asHeld' = asHeld \cup Range(what) /\ asClosers' = asClosers \o what

\* A step that fails after it acquired some of what it needs.
fails(what) == asStep' = "unwind" /\ acquire(what) /\ UNCHANGED <<asTier, asNote, asStack>>

\* build: the address of a session or an API is resolved before anything is acquired.
Start ==
    /\ asStep = "idle" /\ cfResolved.state = "accepted"
    /\ asStep' = "safety"
    /\ UNCHANGED <<asHeld, asClosers, asTier, asNote, asStack>>

\* buildSafety: the sandbox, then the scope and the check, either of which may refuse.
buildSafety ==
    /\ asStep = "safety"
    /\ \/ asStep' = "extensions" /\ acquire(<<"sandbox">>) /\ UNCHANGED <<asTier, asNote, asStack>>
       \/ fails(<<"sandbox">>)

\* buildExtensions: Load starts the plugins one by one and closes them itself when one fails.
buildExtensions ==
    /\ asStep = "extensions"
    /\ \/ /\ asStep' = "feedback"
          /\ IF Is("extensions") \/ Is("scripts") THEN acquire(<<"plugins">>)
             ELSE UNCHANGED <<asHeld, asClosers>>
          /\ UNCHANGED <<asTier, asNote, asStack>>
       \/ (Is("extensions") \/ Is("scripts")) /\ fails(<<>>)

\* Mistake: the closers of the regions are added once all of them are there.
createRegionsLate(n) ==
    IF n = Len(regions(cfg)) THEN acquire(regions(cfg))
    ELSE /\ asHeld' = asHeld \cup Range(SubSeq(regions(cfg), 1, n))
         /\ UNCHANGED asClosers

\* Each region gets its closer before the next one is created.
createRegions(n) == acquire(SubSeq(regions(cfg), 1, n))

\* buildFeedback: the creation of any region may fail, and so may the analysis of the target.
buildFeedback ==
    /\ asStep = "feedback"
    /\ \E n \in 0 .. Len(regions(cfg)) :
          /\ createRegions(n)
          /\ asStep' = IF n = Len(regions(cfg)) THEN "executor" ELSE "unwind"
    /\ UNCHANGED <<asTier, asNote, asStack>>

\* The deferred close of a build that did not get to its end.
unwind ==
    /\ asStep = "unwind"
    /\ asStep' = "failed" /\ closeAll
    /\ UNCHANGED <<asClosers, asTier, asNote, asStack>>

\* The executor of a tier is there, with its closer.
delivers(tier, note) ==
    /\ asStep' = "engine" /\ acquire(<<"executor">>)
    /\ asTier' = tier /\ asNote' = note /\ UNCHANGED asStack

\* buildSession: an address that does not split, a target that does not start; then guidance,
\* whose failure comes after the session has its closer.
buildSession ==
    /\ asStep = "executor" /\ Is("session")
    /\ \/ delivers("session", FALSE)
       \/ fails(<<>>)
       \/ cfg.guide = "true" /\ fails(<<"executor">>)

\* buildAPI: HTTP replay needs TCP, and the capture and the secrets are read.
buildAPI ==
    /\ asStep = "executor" /\ ~Is("session") /\ Is("api")
    /\ \/ cfg.apiAddress # "unix" /\ delivers("api", FALSE)
       \/ (cfg.apiAddress = "unix" \/ Is("capture") \/ Is("secrets")) /\ fails(<<>>)

\* buildDriver: a web campaign clones the sandbox for the browser first.
buildDriver ==
    /\ asStep = "executor" /\ ~Is("session") /\ ~Is("api") /\ Is("driver")
    /\ LET browser == IF cfg.driverKind = "web" THEN <<"browser sandbox">> ELSE <<>>
       IN  \/ /\ asStep' = "engine" /\ acquire(browser \o <<"executor">>)
              /\ asTier' = cfg.driverKind /\ UNCHANGED <<asNote, asStack>>
           \/ fails(browser)

Plainly == asStep = "executor" /\ ~Is("session") /\ ~Is("api") /\ ~Is("driver")

\* Only a tier that "auto" chose may be replaced.
mayFallBack == cfg.executor = "auto"

\* buildExecutor and buildSubprocess: the tier refuses what it cannot carry, or fails to start.
buildExecutor ==
    /\ Plainly
    /\ LET t == tierFor(cfg)
           refused == \/ t = "inproc"
                      \/ t = "pool" /\ cfg.coverage # "none"
                      \/ t = "forkserver" /\ cfg.coverage = "gocov"
       IN  /\ t # "emulated"
           /\ \/ ~refused /\ delivers(t, FALSE)
              \/ ~refused /\ t \in {"forkserver", "pool"} /\ mayFallBack
                 /\ delivers("subprocess", TRUE)
              \/ (refused \/ t \in {"forkserver", "pool"}) /\ ~mayFallBack /\ fails(<<>>)

\* buildEmulated: needs a backend that watches the process, and starts it.
buildEmulated ==
    /\ Plainly /\ tierFor(cfg) = "emulated"
    /\ \/ IsBinaryOnlyCoverage(cfg.coverage) /\ delivers("emulated", FALSE)
       \/ fails(<<>>)

\* The rest of build: codec, mutators and dictionary, and the engine over all of it.
finishBuild ==
    /\ asStep = "engine"
    /\ \/ /\ asStep' = "built" /\ acquire(<<"engine">>)
          /\ asStack' = feedbackStack(cfg) /\ UNCHANGED <<asTier, asNote>>
       \/ (cfg.grammar = "broken" \/ cfg.operators = "unknown" \/ cfg.dictionary # "zero")
          /\ fails(<<>>)

\* Run releases what it built when it returns, and the owner calls Close once more.
Close ==
    /\ asStep \in {"built", "closed"}
    /\ asStep' = "closed"
    /\ IF asStep = "built" THEN closeAll ELSE UNCHANGED asHeld
    /\ UNCHANGED <<asClosers, asTier, asNote, asStack>>

BuildStep ==
    \/ Start \/ buildSafety \/ buildExtensions \/ buildFeedback \/ unwind
    \/ buildSession \/ buildAPI \/ buildDriver \/ buildExecutor \/ buildEmulated
    \/ finishBuild \/ Close

BuildInit == Init /\ InitBuild
BuildNext == (Next /\ UNCHANGED asVars) \/ (BuildStep /\ UNCHANGED cfVars)

BuildTypeOK ==
    /\ TypeOK
    /\ asStep \in Steps
    /\ asHeld \subseteq Resources
    /\ asNote \in BOOLEAN

-----------------------------------------------------------------------------
(* Properties.                                                             *)

\* Whatever step of build fails, and whenever a worker closes, nothing that was acquired on the
\* way stays behind: no sandbox, plugin process, shared region or target.
NothingIsLeaked == asStep \in {"failed", "closed"} => asHeld = {}

\* What validation accepted is what is built: there is always a feedback that can admit an input
\* (feedbackStack: "Validation refuses this combination"), and every feedback the file asks for
\* is among them, with the table it reads, except direction under a backend that watches the
\* process; a tier that was asked for by name is the one that runs, and a fall back is noted.
BuiltAsAccepted ==
    asStep = "built" =>
        /\ asStack # {}
        /\ cfg.novelty = "true" => "novelty" \in asStack
        /\ cfg.valueProfile = "true" => {"value-profile", "map"} \subseteq asStack
        /\ cfg.cmplog = "true" => "comparison region" \in asHeld
        /\ cfg.directed # "zero" => "distance" \in asStack \/ IsBinaryOnlyCoverage(cfg.coverage)
        /\ asTier \in {"forkserver", "pool", "subprocess", "emulated"} =>
               /\ cfg.executor # "auto" => asTier = cfg.executor /\ ~asNote
               /\ asTier # tierFor(cfg) => asNote

\* build.go, buildDirection: a campaign "that runs perfectly and steers nowhere" is the outcome
\* to prevent.  The code does not keep it: validation accepts direction under a backend that
\* watches the process, and buildFeedback returns before it is prepared.
DirectionIsBuilt == asStep = "built" /\ cfg.directed # "zero" => "distance" \in asStack

\* explain.go, YAML: "must produce a file that runs the same campaign".  The daemon gives its
\* workers this rendering.
PinnedRunsTheSame ==
    cfResolved.state = "accepted" =>
        pinned(cfResolved).state = "accepted" /\ Plan(pinned(cfResolved)) = Plan(cfResolved)
=============================================================================
