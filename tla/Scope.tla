------------------------------- MODULE Scope --------------------------------
(***************************************************************************)
(* internal/safety/scope.go and authz.go: the allowlist a campaign's       *)
(* traffic is held against, its validation and authorization by the        *)
(* daemon, the scope a worker builds from the same campaign file, and the  *)
(* check and the connection for every destination.  Addresses are the      *)
(* numbers 0 .. 2^ScBits - 1, a prefix is an aligned block of them.        *)
(*                                                                         *)
(* A name is resolved by whoever needs its addresses: once for a rule,     *)
(* once when a destination is checked, and once more when it is dialled.   *)
(* Between any two of these its records may change.                        *)
(***************************************************************************)
EXTENDS Naturals, FiniteSets

CONSTANTS
    ScBits,      \* width of an address
    ScPublic,    \* the addresses isPublic says yes to
    ScLoopback,  \* the addresses of the loopback network
    ScPorts,     \* ports
    ScNames,     \* what a name may resolve to, sets of addresses
    ScRules      \* bound on the entries of an allowlist

VARIABLES
    scName,      \* the addresses the name resolves to now
    scRules,     \* the daemon's rules: prefix, ports (none for all) and whether a name was pinned
    scWorker,    \* the worker's rules
    scAck,       \* s.AcknowledgePublic
    scLoop,      \* s.AllowLoopback
    scRemote,    \* the campaign leaves the host
    scAuth,      \* the authorization record: absent, incomplete or complete
    scState,     \* building, authorized, running or refused
    scAudit,     \* actions written to the audit log
    scChecked,   \* a destination that was let through and is not connected yet, or was refused
    scReached    \* destinations that were connected to

buildVars == <<scRules, scWorker, scAck, scLoop, scRemote, scAuth, scState>>
scVars == <<scName, buildVars, scAudit, scChecked, scReached>>

Addresses == 0 .. 2 ^ ScBits - 1

size(bits) == 2 ^ (ScBits - bits)

\* Masked: the base of a prefix has no bit set past its length.
Prefixes == {p \in [base : Addresses, bits : 0 .. ScBits] : p.base % size(p.bits) = 0}

contains(p, a) == a \in p.base .. p.base + size(p.bits) - 1

\* lastAddr: the address with every host bit set.
lastAddr(p) == p.base + size(p.bits) - 1

isPublic(a) == a \in ScPublic

Unchecked == [how |-> "none", addrs |-> {}, port |-> 0]

Init ==
    /\ scName \in ScNames
    /\ scRules = {} /\ scWorker = {}
    /\ scAck \in BOOLEAN
    /\ scLoop \in BOOLEAN
    /\ scRemote \in BOOLEAN
    /\ scAuth \in {"absent", "incomplete", "complete"}
    /\ scState = "building"
    /\ scAudit = {}
    /\ scChecked = Unchecked
    /\ scReached = {}

\* The records of the name change; after the last look at them it makes no difference.
Rebind ==
    /\ scState # "refused" /\ scReached = {} /\ scChecked.how # "refused"
    /\ scName' \in ScNames
    /\ UNCHANGED <<buildVars, scAudit, scChecked, scReached>>

-----------------------------------------------------------------------------
(* Building and validating. *)

\* The rules a name stands for: one for every address it resolves to now.
pinned(ports) ==
    {[prefix |-> [base |-> a, bits |-> ScBits], ports |-> ports, named |-> TRUE] : a \in scName}

\* Allow: a prefix or an address, or a name.
Allow ==
    /\ scState = "building"
    /\ Cardinality(scRules) < ScRules
    /\ \E ports \in SUBSET ScPorts :
          \/ \E p \in Prefixes :
                scRules' = scRules \cup {[prefix |-> p, ports |-> ports, named |-> FALSE]}
          \/ scRules' = scRules \cup pinned(ports)
    /\ UNCHANGED <<scName, scWorker, scAck, scLoop, scRemote, scAuth, scState, scAudit, scChecked,
                   scReached>>

\* Validate: a campaign that leaves the host needs rules, and a rule whose first or last
\* address is public needs the acknowledgement.
Validate(rules) ==
    /\ scRemote => rules # {}
    /\ \/ scAck
       \/ \A r \in rules : ~isPublic(r.prefix.base) /\ ~isPublic(lastAddr(r.prefix))

\* Authorize: the scope is valid and a remote campaign has a complete record, which is
\* written to the audit log; when that fails, so does the campaign.
Authorize ==
    /\ scState = "building"
    /\ \/ /\ Validate(scRules) /\ (scRemote => scAuth = "complete")
          /\ scState' = "authorized"
          /\ scAudit' = IF scRemote THEN scAudit \cup {"authz.record"} ELSE scAudit
       \/ /\ scRemote \/ ~Validate(scRules)
          /\ scState' = "refused"
          /\ UNCHANGED scAudit
    /\ UNCHANGED <<scName, scRules, scWorker, scAck, scLoop, scRemote, scAuth, scChecked, scReached>>

\* NewScopeFrom, in the worker: the names of the allowlist are resolved anew.
NewScopeFrom ==
    /\ scState = "authorized"
    /\ scWorker' = {r \in scRules : ~r.named} \cup
                       UNION {pinned(n.ports) : n \in {r \in scRules : r.named}}
    /\ scState' = IF Validate(scWorker') THEN "running" ELSE "refused"
    /\ UNCHANGED <<scName, scRules, scAck, scLoop, scRemote, scAuth, scAudit, scChecked, scReached>>

-----------------------------------------------------------------------------
(* Destinations. *)

\* Mistake: a rule that names ports lets every port through.
portIgnored(r, port) == TRUE

\* portAllowed: a rule without ports is for all of them.
portAllowed(r, port) == r.ports = {} \/ port \in r.ports

\* Check: loopback where it is allowed, then the first rule that fits.
Check(a, port) ==
    \/ scLoop /\ a \in ScLoopback
    \/ \E r \in scWorker : contains(r.prefix, a) /\ portAllowed(r, port)

\* CheckAddr: an address, or every address that a name resolves to.  The decision is offered
\* to the auditor, and a worker's scope has none.
CheckAddr ==
    /\ scState = "running" /\ scChecked = Unchecked /\ scReached = {}
    /\ \E how \in {"address", "name"}, a \in Addresses, port \in ScPorts :
          LET as == IF how = "name" THEN scName ELSE {a}
          IN  scChecked' = IF \A x \in as : Check(x, port)
                           THEN [how |-> how, addrs |-> as, port |-> port]
                           ELSE [Unchecked EXCEPT !.how = "refused"]
    /\ UNCHANGED <<scName, buildVars, scAudit, scReached>>

\* DialContext, the rest of Dial: a name is resolved again, and its addresses are tried
\* until one answers.
DialContext ==
    /\ scChecked.how \in {"address", "name"}
    /\ \E tried \in SUBSET (IF scChecked.how = "name" THEN scName ELSE scChecked.addrs) :
          scReached' = {[how |-> scChecked.how, addr |-> a, port |-> scChecked.port,
                         moved |-> a \notin scChecked.addrs] : a \in tried}
    /\ scChecked' = Unchecked
    /\ UNCHANGED <<scName, buildVars, scAudit>>

\* DialControl: the port of a browser the worker started, an address of the loopback
\* network whether or not the allowlist has it.
DialControl ==
    /\ scState = "running" /\ scChecked = Unchecked /\ scReached = {}
    /\ \E a \in Addresses \cap ScLoopback, port \in ScPorts :
          scReached' = {[how |-> "control", addr |-> a, port |-> port, moved |-> FALSE]}
    /\ UNCHANGED <<scName, buildVars, scAudit, scChecked>>

Next == Rebind \/ Allow \/ Authorize \/ NewScopeFrom \/ CheckAddr \/ DialContext \/ DialControl

-----------------------------------------------------------------------------
TypeOK ==
    /\ scState \in {"building", "refused", "authorized", "running"}
    /\ scAudit \subseteq {"authz.record"}
    /\ scChecked.how \in {"none", "address", "name", "refused"}

\* What the worker's rules, with their ports, and the loopback allowance cover.
Covered(a, port) ==
    \/ a \in ScLoopback /\ scLoop
    \/ \E r \in scWorker : /\ a \in r.prefix.base .. lastAddr(r.prefix)
                           /\ r.ports # {} => port \in r.ports

(***************************************************************************)
(* The scope: a control channel is on this host; any other destination is  *)
(* covered by the worker's rules, unless it is an address that the name    *)
(* got between its check and its connection; and whoever left the host did *)
(* so under an authorization that is in the audit log.                     *)
(***************************************************************************)
ScopeIsEnforced ==
    \A d \in scReached :
        /\ d.how = "control" => d.addr \in ScLoopback
        /\ d.how # "control" => Covered(d.addr, d.port) \/ (d.how = "name" /\ d.moved)
        /\ d.addr \in ScLoopback \/ ~scRemote \/ "authz.record" \in scAudit

-----------------------------------------------------------------------------
(* Statements of the comments that the code does not keep. *)

\* scope.go, AcknowledgePublic: "Without it, a rule covering a public address is refused at
\* validation, not at the first packet."
PublicIsAcknowledged ==
    scState = "running" /\ ~scAck =>
        \A r \in scWorker, a \in Addresses : contains(r.prefix, a) => ~isPublic(a)

\* scope.go, Check: "a name checked here and resolved later is a check on something other
\* than what will be connected to", and CheckAddr refuses a name "that can reach" an
\* address out of scope.
CheckedIsDialled ==
    \A d \in scReached : d.how # "control" => Covered(d.addr, d.port)

\* scope.go, Allow: "A name is resolved once, here, and the addresses are pinned", since
\* otherwise "the allowlist a connection was checked against is not the one the operator
\* attested to" (Scope).
AttestedIsChecked == scState = "running" => scWorker = scRules

\* scope.go, Auditor: nil "is permitted for a local campaign and is itself audited by the
\* daemon when it is not", and DialControl: a control channel "is still audited".
DecisionsAreAudited ==
    /\ scRemote /\ scChecked.how = "refused" => "scope.deny" \in scAudit
    /\ \A d \in scReached : d.how = "control" => "scope.allow" \in scAudit
=============================================================================
