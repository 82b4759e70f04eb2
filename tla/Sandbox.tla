------------------------------ MODULE Sandbox -------------------------------
(***************************************************************************)
(* internal/safety/sandbox.go and the command builder of spawn.go: what    *)
(* the host offers and what the campaign asks for decide the isolation     *)
(* level that is reported, and the command line and namespaces a target is *)
(* started with.  A step checks a sandbox and builds one command.          *)
(***************************************************************************)
EXTENDS Naturals, FiniteSets

VARIABLES
    sbHost,     \* what the platform layer and the search for the helper found
    sbPolicy,   \* the campaign's escape hatches and its required level
    sbReach,    \* what the target's identity is permitted on its paths
    sbProbed,   \* probeOnce: the read-only root, once it was tried
    sbChecked,  \* the outcome of Check
    sbCommand   \* the command built, or NoCommand

sbVars == <<sbHost, sbPolicy, sbReach, sbProbed, sbChecked, sbCommand>>

Mechanisms == {"userNS", "mountNS", "pidNS", "netNS", "seccomp", "cgroupV2", "confined",
               "helper", "root", "roRootWorks"}
Hatches == {"unconfined", "network", "hostPIDs", "noSeccomp", "writableRoot"}
Levels == 0 .. 3   \* none, minimal, moderate, strong
Paths == {"workdir", "target"}

NoCommand == [forks |-> FALSE, helper |-> FALSE, args |-> {}, namespaces |-> {}, cgroup |-> "no"]

\* DetectSandbox: a Linux host has some of the kernel's mechanisms and perhaps the helper, a
\* macOS host its sandbox profile and no helper.
DetectSandbox ==
    {h \in SUBSET (Mechanisms \ {"confined"}) : "roRootWorks" \in h => {"mountNS", "helper"} \subseteq h}
    \cup {{"confined"}, {"confined", "root"}}

Init ==
    /\ sbHost \in DetectSandbox
    /\ sbPolicy \in [hatches : SUBSET Hatches, require : Levels]
    /\ sbReach \in {Paths, Paths \ {"workdir"}}
    /\ sbProbed = "unknown"
    /\ sbChecked = "no"
    /\ sbCommand = NoCommand

-----------------------------------------------------------------------------
Has(m) == m \in sbHost
Asked(h) == h \in sbPolicy.hatches

\* dropTo: the target gets an identity of its own when the fuzzer is root.
dropTo == Has("root") /\ ~Asked("unconfined")

\* probeReadOnlyRoot: tried once, with the helper, in the namespaces a target would get.
probeReadOnlyRoot ==
    /\ ~Asked("unconfined") /\ Has("helper") /\ Has("mountNS") /\ ~Asked("writableRoot")
    /\ Has("roRootWorks")

\* Probe: once per sandbox, whoever comes first.
roRoot == IF sbProbed = "unknown" THEN probeReadOnlyRoot ELSE sbProbed = "yes"

Probed == sbProbed' = IF roRoot THEN "yes" ELSE "no"

\* Mistake: the syscall filter counts although the campaign switched it off.
seccompCounted == Has("seccomp") /\ Has("helper")

\* The syscall filter is installed by the helper, unless the campaign switched it off.
seccompApplies == Has("seccomp") /\ Has("helper") /\ ~Asked("noSeccomp")

\* level: from what the host provides, not from what was asked for.
level ==
    LET deprivileged == Has("helper") /\ Has("root")
    IN IF Asked("unconfined") THEN 0
       ELSE IF /\ deprivileged /\ Has("mountNS") /\ Has("pidNS")
               /\ seccompApplies /\ roRoot /\ Has("cgroupV2")
            THEN 3
       ELSE IF \/ deprivileged /\ Has("mountNS") /\ Has("pidNS")
               \/ Has("userNS") /\ Has("mountNS")
               \/ seccompApplies
               \/ Has("confined")
            THEN 2
       ELSE 1

\* namespaces: a PID namespace only for a process that forks its own executions.
namespaces(forks) ==
    IF Asked("unconfined") THEN {}
    ELSE (IF Has("userNS") /\ ~Has("root") THEN {"user"} ELSE {})
         \cup (IF Has("mountNS") THEN {"mount", "ipc", "uts"} ELSE {})
         \cup (IF Has("pidNS") /\ ~Asked("hostPIDs") /\ forks THEN {"pid"} ELSE {})
         \cup (IF Has("netNS") /\ ~Asked("network") THEN {"net"} ELSE {})

\* wrap: the helper and its flags, else the platform's own wrapper, else the bare program.
wrap ==
    IF Asked("unconfined") THEN [helper |-> FALSE, args |-> {}]
    ELSE IF ~Has("helper")
    THEN [helper |-> FALSE, args |-> IF Has("confined") THEN {"confine"} ELSE {}]
    ELSE [helper |-> TRUE,
          args |-> (IF roRoot /\ ~Asked("writableRoot") THEN {"ro-root"} ELSE {})
                   \cup (IF dropTo THEN {"uid"} ELSE {})
                   \cup (IF Asked("noSeccomp") \/ ~Has("seccomp") THEN {} ELSE {"seccomp"})]

\* checkWorkdir, checkTarget and checkCreates: only a target with another identity can be
\* shut out of its own paths.
pathsReachable == dropTo => sbReach = Paths

\* Check: before a campaign starts.
Check ==
    /\ sbChecked = "no"
    /\ Probed
    /\ sbChecked' = IF \/ Asked("unconfined") /\ sbPolicy.require # 0
                       \/ level < sbPolicy.require
                       \/ ~pathsReachable
                    THEN "refused" ELSE "accepted"
    /\ UNCHANGED <<sbHost, sbPolicy, sbReach, sbCommand>>

\* ensureCgroup: one that cannot be created is done without.
ensureCgroup == IF Asked("unconfined") \/ ~Has("cgroupV2") THEN {"no"} ELSE {"attached", "failed"}

\* command: every process passes through here.
command(forks) ==
    /\ sbChecked = "accepted"
    /\ sbCommand = NoCommand
    /\ Probed
    /\ \E cgroup \in ensureCgroup :
          sbCommand' = [forks |-> forks, helper |-> wrap.helper, args |-> wrap.args,
                        namespaces |-> IF sbPolicy.require # 0 \/ level > 1
                                       THEN namespaces(forks) ELSE {},
                        cgroup |-> cgroup]
    /\ UNCHANGED <<sbHost, sbPolicy, sbReach, sbChecked>>

Next == Check \/ \E forks \in BOOLEAN : command(forks)

-----------------------------------------------------------------------------
TypeOK ==
    /\ sbProbed \in {"unknown", "yes", "no"}
    /\ sbChecked \in {"no", "refused", "accepted"}

\* The level that is reported (level) and the command that is built (command) agree.  A target
\* started in a sandbox that reports the strong level runs under its own identity, on a
\* read-only root, behind the syscall filter and in a mount namespace; in a PID namespace if it
\* forks its own executions and the campaign did not ask for the host's; and in a cgroup unless
\* that could not be made.  One that reports moderate has one of the mechanisms that make it
\* so; and no accepted sandbox is below the level the campaign requires.
LevelIsHonest ==
    sbCommand # NoCommand =>
        /\ level >= sbPolicy.require
        /\ level = 3 => /\ {"ro-root", "uid", "seccomp"} \subseteq sbCommand.args
                        /\ "mount" \in sbCommand.namespaces
                        /\ sbCommand.forks /\ ~Asked("hostPIDs") => "pid" \in sbCommand.namespaces
                        /\ sbCommand.cgroup # "no"
        /\ level = 2 => \/ "seccomp" \in sbCommand.args
                        \/ "mount" \in sbCommand.namespaces
                        \/ "confine" \in sbCommand.args

\* sandbox.go, Level: "nothing here reports a mechanism that was requested rather than applied".
\* The code does not keep it: the strong level counts PID namespaces and the cgroup, which a
\* target that does not fork, or whose campaign asked for the host's PIDs, and one whose cgroup
\* could not be made, run without.
CountedIsApplied ==
    sbCommand # NoCommand /\ level = 3 =>
        "pid" \in sbCommand.namespaces /\ sbCommand.cgroup = "attached"

\* sandbox.go, LevelStrong: it "is user, mount, and PID namespaces".  The code does not keep it:
\* it takes a privileged fuzzer to reach the level, and that one makes no user namespace.
StrongHasUserNamespace ==
    sbCommand # NoCommand /\ level = 3 => "user" \in sbCommand.namespaces
=============================================================================
