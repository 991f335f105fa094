------------------------------ MODULE Startup ------------------------------
(***************************************************************************)
(* The way of the process from its flags to a running plugin: the feature  *)
(* gates (internal/features), the flag checks of main, the preflight phase *)
(* (internal/preflight) and the exit code that tells the operator which of *)
(* them failed.                                                            *)
(***************************************************************************)
EXTENDS Integers

CONSTANTS
    OtherGates, \* specs of gates this release does not declare
    MaxPairs    \* bound: the pairs of one --feature-gates value

defaultFeatureGates ==
    [ContainerWorkload |-> [default |-> FALSE, stage |-> "Alpha", locked |-> FALSE],
     VirtualMachineWorkload |-> [default |-> TRUE, stage |-> "Beta", locked |-> FALSE]]

Gates == DOMAIN defaultFeatureGates \cup DOMAIN OtherGates

SpecOf(g) == IF g \in DOMAIN defaultFeatureGates THEN defaultFeatureGates[g]
             ELSE OtherGates[g]

WorkloadGates == DOMAIN defaultFeatureGates
GroupGates == {"AllAlpha", "AllBeta"}
Names == Gates \cup GroupGates \cup {"Unknown"}

\* One name=value pair; "other" is a missing or a non-bool value.
Pairs == [name : Names, value : {"true", "false", "other"}]

\* What the checks of the preflight find on a node.  maskAllOnes accepts one
\* reading of a mask; "other" is a clear bit, an unexpected format, a failed read.
Masks == {"ones", "other"}
Nodes == [bus : BOOLEAN, matrix : BOOLEAN, mdevBus : BOOLEAN,
          override : {"present", "absent", "no queues"}, apmask : Masks, aqmask : Masks]

\* CEX_DRA_SKIP_PREFLIGHT.
SkipValues == {"unset", "recognized", "unrecognized"}

\* The stages of the declaration convention: only graduation locks a gate.
ASSUME StartupAssumption ==
    /\ MaxPairs \in Nat
    /\ \A g \in DOMAIN OtherGates :
          /\ g \notin WorkloadGates \cup GroupGates \cup {"Unknown"}
          /\ OtherGates[g] \in [default : BOOLEAN, locked : BOOLEAN,
                               stage : {"Alpha", "Beta", "GA", "Deprecated"}]
          /\ OtherGates[g].locked => OtherGates[g].stage = "GA"

VARIABLES
    pc,         \* the next step of main's Action
    pairs,      \* --feature-gates, forgotten once resolved
    parsed,     \* how many of them registry.set and the library have parsed
    settings,   \* and the map of name to value they make
    machineID,  \* --machine-id: empty for auto-detection, or what is wrong with it
    positive,   \* --scan-interval is positive
    skipEnv,    \* the environment variable
    node,       \* the node under the preflight
    gates,      \* the enabled gates
    checks,     \* the active checks the preflight has left, as indices of registry
    nErr,       \* and the errors it has counted
    panicked,   \* history: the body of a check panicked
    code        \* the exit code

gateVars == <<pairs, parsed, settings, gates>>
nodeVars == <<skipEnv, node, checks, nErr, panicked>>
vars == <<pc, gateVars, machineID, positive, nodeVars, code>>

AutoDetect == ""
MachineIDs == {AutoDetect, "label", "too long", "not a label"}
Fresh == [bus |-> TRUE, matrix |-> TRUE, mdevBus |-> TRUE, override |-> "present",
          apmask |-> "ones", aqmask |-> "ones"]
Defaults == {g \in Gates : SpecOf(g).default}
NoSettings == [n \in Names |-> "unset"]

-----------------------------------------------------------------------------
(* internal/features *)

\* Mutant: the GA stage, not the lock, decides.
graduatedGatesByStage == {g \in Gates : SpecOf(g).stage = "GA"}

graduatedGates == {g \in Gates : SpecOf(g).locked}

\* The library refuses a name it does not know and a write against a lock.
SetFails(m) ==
    \/ m["Unknown"] # "unset"
    \/ \E g \in Gates :
          SpecOf(g).locked /\ m[g] \notin {"unset", IF SpecOf(g).default THEN "true" ELSE "false"}

\* A group gate sets the gates of its stage that have no setting of their own.
Enabled(m, g) ==
    LET spec == SpecOf(g)
        group == CASE spec.stage = "Alpha" -> m["AllAlpha"]
                   [] spec.stage = "Beta" -> m["AllBeta"]
                   [] OTHER -> "unset"
    IN  IF m[g] # "unset" THEN m[g] = "true"
        ELSE IF group # "unset" THEN group = "true"
        ELSE spec.default

-----------------------------------------------------------------------------
(* internal/preflight *)

NoGate == ""

registry == <<
    [name |-> "bus", severity |-> "error", gate |-> NoGate],
    [name |-> "vfio_ap", severity |-> "error", gate |-> "VirtualMachineWorkload"],
    [name |-> "mdev", severity |-> "error", gate |-> "VirtualMachineWorkload"],
    [name |-> "driver_override", severity |-> "error", gate |-> NoGate],
    [name |-> "masks", severity |-> "error", gate |-> NoGate] >>

\* Mutant: one of the masks is enough.
checkZcryptMasksEither(n) == IF n.apmask = "ones" \/ n.aqmask = "ones" THEN "ok" ELSE "error"

checkZcryptMasks(n) == IF n.apmask = "ones" /\ n.aqmask = "ones" THEN "ok" ELSE "error"

checkDriverOverride(n) ==
    CASE n.override = "present" -> "ok"
      [] n.override = "absent" -> "error"
      [] n.override = "no queues" -> "warn"

checkPathPresent(present) == IF present THEN "ok" ELSE "error"

body(name, n) ==
    CASE name = "bus" -> checkPathPresent(n.bus)
      [] name = "vfio_ap" -> checkPathPresent(n.matrix)
      [] name = "mdev" -> checkPathPresent(n.mdevBus)
      [] name = "driver_override" -> checkDriverOverride(n)
      [] name = "masks" -> checkZcryptMasks(n)

mapSeverity(reported, severity) ==
    IF reported = "error" /\ severity = "warn" THEN "warn" ELSE reported

\* runOne: a panic is an error whatever the severity.
runOne(c, panics) ==
    IF panics THEN "error" ELSE mapSeverity(body(c.name, node), c.severity)

partitionByGate(enabled) ==
    {i \in DOMAIN registry : registry[i].gate \in enabled \cup {NoGate}}

skipModeFromEnv == skipEnv = "recognized"

-----------------------------------------------------------------------------
(* main *)

\* The process before it has looked at anything.
Init ==
    /\ pc = "start"
    /\ pairs = <<>>
    /\ parsed = 0
    /\ settings = NoSettings
    /\ machineID = AutoDetect
    /\ positive = TRUE
    /\ skipEnv = "unset"
    /\ node = Fresh
    /\ gates = {}
    /\ checks = {}
    /\ nErr = 0
    /\ panicked = FALSE
    /\ code = 0

Exit(c) ==
    /\ pc' = "exit"
    /\ code' = c
    /\ UNCHANGED <<gateVars, machineID, positive, nodeVars>>

Proceed(to) ==
    /\ pc' = to
    /\ UNCHANGED <<gateVars, machineID, positive, nodeVars, code>>

ParseFlags ==
    /\ pc = "start"
    /\ pc' = "set"
    /\ \E k \in 0 .. MaxPairs : pairs' \in [1 .. k -> Pairs]
    /\ machineID' \in MachineIDs
    /\ positive' \in BOOLEAN
    /\ gates' = Defaults
    /\ UNCHANGED <<parsed, settings, nodeVars, code>>

\* registry.set drops the pair of a graduated gate; the library parses the others
\* into a map, the later pair over the earlier, and refuses a value that is no bool.
SetPair ==
    /\ pc = "set"
    /\ parsed + 1 \in DOMAIN pairs
    /\ LET pair == pairs[parsed + 1] IN
          IF pair.name \notin graduatedGates /\ pair.value = "other" THEN Exit(1)
          ELSE /\ settings' = IF pair.name \in graduatedGates THEN settings
                              ELSE [settings EXCEPT ![pair.name] = pair.value]
               /\ parsed' = parsed + 1
               /\ UNCHANGED <<pc, pairs, gates, machineID, positive, nodeVars, code>>

\* The library applies the map.
Set ==
    /\ pc = "set"
    /\ parsed + 1 \notin DOMAIN pairs
    /\ IF SetFails(settings) THEN Exit(1)
       ELSE /\ gates' = {g \in Gates : Enabled(settings, g)}
            /\ pc' = "workloads"
            /\ parsed' = 0
            /\ settings' = NoSettings
            /\ UNCHANGED <<pairs, machineID, positive, nodeVars, code>>

validateWorkloadGates ==
    /\ pc = "workloads"
    /\ IF gates \cap WorkloadGates = {} THEN Exit(1)
       ELSE /\ pc' = "machine"
            /\ pairs' = <<>>
            /\ UNCHANGED <<parsed, settings, gates, machineID, positive, nodeVars, code>>

\* Mutant: the bound on the length is left to the API server.
validateMachineIDLabelOnly ==
    /\ pc = "machine"
    /\ IF machineID = "not a label" THEN Exit(1) ELSE Proceed("preflight")

validateMachineID ==
    /\ pc = "machine"
    /\ IF machineID \in {"too long", "not a label"} THEN Exit(1) ELSE Proceed("preflight")

\* preflight.Run reads its environment and picks the active checks.
Run ==
    /\ pc = "preflight"
    /\ pc' = "check"
    /\ node' \in Nodes
    /\ skipEnv' \in SkipValues
    /\ checks' = partitionByGate(gates)
    /\ UNCHANGED <<gateVars, machineID, positive, nErr, panicked, code>>

\* One check, in the order of the registry.  In skip mode an error counts as a
\* warning.
RunCheck(i, panics) ==
    /\ pc = "check"
    /\ i \in checks
    /\ \A j \in checks : i <= j
    /\ nErr' = IF runOne(registry[i], panics) = "error" /\ ~skipModeFromEnv
               THEN nErr + 1 ELSE nErr
    /\ checks' = checks \ {i}
    /\ panicked' = (panicked \/ panics)
    /\ UNCHANGED <<pc, gateVars, machineID, positive, skipEnv, node, code>>

RunEnds ==
    /\ pc = "check"
    /\ checks = {}
    /\ IF ~skipModeFromEnv /\ nErr > 0 THEN Exit(2) ELSE Proceed("plugin")

\* The host name, the client, the plugin directory, the health listener and New:
\* an error of any of them is an ordinary one.
PluginFails ==
    /\ pc = "plugin"
    /\ Exit(1)

\* The tickers of the watchdog and of the scan loop panic, with the exit code of
\* the Go runtime, on an interval that is not positive: no flag check refuses it.
runPlugin ==
    /\ pc = "plugin"
    /\ IF positive THEN Proceed("running") ELSE Exit(2)

\* The kubelet starts the container again, over a node and a manifest that the
\* operator may have changed.
Restart ==
    /\ pc = "exit"
    /\ pc' = "start"
    /\ pairs' = <<>>
    /\ parsed' = 0
    /\ settings' = NoSettings
    /\ machineID' = AutoDetect
    /\ positive' = TRUE
    /\ skipEnv' = "unset"
    /\ node' = Fresh
    /\ gates' = {}
    /\ checks' = {}
    /\ nErr' = 0
    /\ panicked' = FALSE
    /\ code' = 0

Next ==
    \/ ParseFlags
    \/ SetPair
    \/ Set
    \/ validateWorkloadGates
    \/ validateMachineID
    \/ Run
    \/ \E i \in DOMAIN registry, panics \in BOOLEAN : RunCheck(i, panics)
    \/ RunEnds
    \/ PluginFails
    \/ runPlugin
    \/ Restart

Spec == Init /\ [][Next]_vars

-----------------------------------------------------------------------------
(* Properties *)

\* The pairs that name n, and the last of them.
Naming(n) == {i \in DOMAIN pairs : pairs[i].name = n}
LastNaming(n) == {i \in Naming(n) : \A j \in Naming(n) : j <= i}

Locked(n) == n \in Gates /\ SpecOf(n).locked

\* An operator's opt-out is honoured and an obsolete one does no harm (Set).  The
\* last pair naming a gate that is not locked decides it, at the GA stage too and
\* whatever the group gates say.  A locked gate keeps its default, and a flag
\* that names only locked gates, with any value, never ends the process.
OptOutsHonoured ==
    /\ pc = "workloads" =>
          \A g \in Gates :
              IF Locked(g) THEN g \in gates <=> g \in Defaults
              ELSE \A i \in LastNaming(g) : g \in gates <=> pairs[i].value = "true"
    /\ (pc = "exit" /\ DOMAIN pairs # {}) => \E i \in DOMAIN pairs : ~Locked(pairs[i].name)

\* The node can serve every workload the gates admit.
Serves(n, enabled) ==
    /\ n.bus
    /\ n.override # "absent"
    /\ n.apmask = "ones" /\ n.aqmask = "ones"
    /\ "VirtualMachineWorkload" \in enabled => n.matrix /\ n.mdevBus

\* The driver does not run on a node that would accept claims and fail every one
\* of them (checkZcryptMasks), nor with flags that leave it nothing to serve
\* (validateWorkloadGates) or that the API server refuses later
\* (validateMachineID); only a recognized CEX_DRA_SKIP_PREFLIGHT overrides the
\* verdict on the node, and it never overrides the one on the flags.
RunsWhereItServes ==
    pc = "running" =>
        /\ gates \cap WorkloadGates # {}
        /\ machineID \in {AutoDetect, "label"}
        /\ skipEnv # "recognized" => Serves(node, gates)

\* The exit code tells the node from the flags (main): 2 only when the flags are
\* valid and a check failed or panicked, so a node that serves is never reported
\* as unfit, nor one the operator overrode.  The exception is a scan interval that
\* is not positive, which no flag check refuses: its panic has exit code 2 as well.
ExitTwoBlamesTheNode ==
    code = 2 =>
        /\ gates \cap WorkloadGates # {}
        /\ machineID \in {AutoDetect, "label"}
        /\ ~positive \/ (skipEnv # "recognized" /\ (panicked \/ ~Serves(node, gates)))
=============================================================================
