---------------------------- MODULE InputsProofs ----------------------------
(***************************************************************************)
(* What is fed to the driver, for every value of it.                       *)
(* The start of the process, for any release's gates, any --feature-gates  *)
(* value and any node: one inductive invariant follows the flag through    *)
(* registry.set, pair by pair; the other follows the preflight, check by   *)
(* check, and counts no error without a cause on the node.                 *)
(* The layering of device configurations, for arrays of any length: the    *)
(* layers of Resolve are a recursive function, and what it computes is     *)
(* proved by taking the least layer at which the claim would fail.         *)
(***************************************************************************)
EXTENDS MCInputs, WellFoundedInduction, TLAPS

FlagsOK ==
    /\ pc \in {"start", "set", "workloads", "machine", "preflight", "check", "plugin",
               "running", "exit"}
    /\ \E k \in Nat : pairs \in [1 .. k -> Pairs]
    /\ parsed \in {0} \cup DOMAIN pairs
    /\ settings \in [Names -> {"unset", "true", "false"}]
    /\ pc \notin {"set", "exit"} => parsed = 0 /\ settings = NoSettings
    /\ pc \notin {"set", "workloads", "exit"} => pairs = <<>>

\* The pairs of n that are parsed, and the last of them.
ParsedNaming(n) == {i \in Naming(n) : i <= parsed}

\* What the map holds of n: the value of the last pair parsed, if n is not locked.
SettingOK(n) ==
    \/ settings[n] = "unset" /\ (n \in graduatedGates \/ ParsedNaming(n) = {})
    \/ /\ n \notin graduatedGates
       /\ \E i \in ParsedNaming(n) :
             settings[n] = pairs[i].value /\ \A j \in ParsedNaming(n) : j <= i

AllLocked == \A i \in DOMAIN pairs : Locked(pairs[i].name)

GatesInv ==
    /\ FlagsOK
    /\ pc = "set" => \A n \in Names : SettingOK(n)
    /\ pc = "workloads" /\ AllLocked => gates = Defaults
    /\ OptOutsHonoured

\* The final status of check i on this node, when its body does not panic.
Verdict(i) == runOne(registry[i], FALSE)

Preflighted == {"plugin", "running"}
Validated == {"preflight", "check"} \cup Preflighted

PreflightInv ==
    /\ pc # "exit" => code = 0
    /\ pc \in Validated \cup {"machine"} \/ code = 2 => gates \cap WorkloadGates # {}
    /\ pc \in Validated \/ code = 2 => machineID \in {AutoDetect, "label"}
    /\ machineID \in MachineIDs
    /\ node \in Nodes
    /\ nErr \in Nat
    /\ pc \notin {"check", "exit"} \cup Preflighted => nErr = 0
    /\ checks \subseteq partitionByGate(gates) \/ pc # "check"
    /\ nErr > 0 => skipEnv # "recognized" /\ (panicked \/ ~Serves(node, gates))
    /\ pc = "check" /\ nErr = 0 /\ skipEnv # "recognized" =>
          \A i \in partitionByGate(gates) \ checks : Verdict(i) # "error"
    /\ RunsWhereItServes
    /\ pc = "plugin" /\ skipEnv # "recognized" => Serves(node, gates)
    /\ ExitTwoBlamesTheNode

-----------------------------------------------------------------------------
(* The gates *)

\* What is known of every gate's spec: its types, and the stage of a lock.
LEMMA Specs ==
    ASSUME NEW g \in Gates
    PROVE  /\ SpecOf(g).default \in BOOLEAN
           /\ SpecOf(g).locked \in BOOLEAN
           /\ SpecOf(g).locked => SpecOf(g).stage = "GA" /\ g \notin WorkloadGates
<1>1. CASE g \in DOMAIN defaultFeatureGates
  <2>1. SpecOf(g) = defaultFeatureGates[g]
    BY Zenon, <1>1 DEF SpecOf
  <2>2. CASE g = "ContainerWorkload"
    <3>1. SpecOf(g) = [default |-> FALSE, stage |-> "Alpha", locked |-> FALSE]
      BY Zenon, <2>1, <2>2 DEF defaultFeatureGates
    <3> QED
      BY <3>1
  <2>3. CASE g = "VirtualMachineWorkload"
    <3>1. SpecOf(g) = [default |-> TRUE, stage |-> "Beta", locked |-> FALSE]
      BY Zenon, <2>1, <2>3 DEF defaultFeatureGates
    <3> QED
      BY <3>1
  <2>4. g = "ContainerWorkload" \/ g = "VirtualMachineWorkload"
    BY Zenon, <1>1 DEF defaultFeatureGates
  <2> QED
    BY Zenon, <2>2, <2>3, <2>4
<1>2. CASE g \notin DOMAIN defaultFeatureGates
  <2>1. g \in DOMAIN OtherGates /\ SpecOf(g) = OtherGates[g]
    BY Zenon, <1>2 DEF Gates, SpecOf
  <2> QED
    BY Zenon, <1>2, <2>1, StartupAssumption DEF WorkloadGates
<1> QED
  BY Zenon, <1>1, <1>2

\* The workload gates of this release, and that the virtual-machine one is on
\* by default.
LEMMA Workloads ==
    /\ WorkloadGates = {"ContainerWorkload", "VirtualMachineWorkload"}
    /\ WorkloadGates \subseteq Gates
    /\ "VirtualMachineWorkload" \in Defaults
  BY Zenon DEF WorkloadGates, Gates, Defaults, SpecOf, defaultFeatureGates

\* registry.set drops exactly the locked gates.
LEMMA Graduated == \A n : n \in graduatedGates <=> Locked(n)
  BY Zenon DEF graduatedGates, Locked

\* A gate with a setting of its own follows it, whatever its group gate says.
LEMMA OwnSetting ==
    ASSUME NEW m, NEW g, m[g] # "unset"
    PROVE  Enabled(m, g) <=> m[g] = "true"
  BY Zenon DEF Enabled

\* A gate without a setting, that no group gate sets, keeps its default.
LEMMA DefaultSetting ==
    ASSUME NEW m, NEW g \in Gates, m[g] = "unset",
           SpecOf(g).stage = "GA" \/ (m["AllAlpha"] = "unset" /\ m["AllBeta"] = "unset")
    PROVE  Enabled(m, g) <=> SpecOf(g).default
  BY Zenon, Specs DEF Enabled

\* Init and Restart leave no flag behind.
LEMMA GatesFresh ==
    ASSUME pc = "start", pairs = <<>>, parsed = 0, settings = NoSettings
    PROVE  GatesInv
<1>1. pairs \in [1 .. 0 -> Pairs] /\ DOMAIN pairs = {}
  OBVIOUS
<1>2. settings \in [Names -> {"unset", "true", "false"}]
  BY Zenon DEF NoSettings
<1> QED
  BY Zenon, <1>1, <1>2 DEF GatesInv, FlagsOK, OptOutsHonoured

\* One pair: the map agrees with the pairs parsed so far, and an exit here is
\* the fault of a pair that is not obsolete.
LEMMA PairParsed ==
    ASSUME GatesInv, SetPair
    PROVE  GatesInv'
<1> DEFINE i == parsed + 1
           pair == pairs[i]
<1>a. PICK k \in Nat : pairs \in [1 .. k -> Pairs]
  BY Zenon DEF GatesInv, FlagsOK
<1>b. i \in 1 .. k /\ pair \in Pairs /\ parsed \in Nat /\ pc = "set" /\ DOMAIN pairs = 1 .. k
  BY <1>a DEF SetPair, GatesInv, FlagsOK
<1>c. pair.name \in Names /\ pair.value \in {"true", "false", "other"}
  BY Zenon, <1>b DEF Pairs
<1>1. CASE pair.name \notin graduatedGates /\ pair.value = "other"
  <2>1. pc' = "exit" /\ UNCHANGED <<pairs, parsed, settings, gates>>
    BY Zenon, <1>1 DEF SetPair, Exit, gateVars
  <2>2. ~Locked(pair.name)
    BY Zenon, <1>1, Graduated
  <2> QED
    BY Zenon, <1>b, <2>1, <2>2 DEF GatesInv, FlagsOK, OptOutsHonoured, Locked
<1>2. CASE pair.name \in graduatedGates \/ pair.value # "other"
  <2>1. /\ settings' = IF pair.name \in graduatedGates THEN settings
                       ELSE [settings EXCEPT ![pair.name] = pair.value]
        /\ parsed' = i /\ pc' = "set" /\ pairs' = pairs
    BY Zenon, <1>b, <1>2 DEF SetPair
  <2>2. FlagsOK'
    BY Zenon, <1>a, <1>b, <1>c, <1>2, <2>1 DEF GatesInv, FlagsOK
  <2>3. ASSUME NEW n \in Names
        PROVE  SettingOK(n)'
    <3>1. SettingOK(n) /\ settings \in [Names -> {"unset", "true", "false"}]
      BY Zenon, <1>b DEF GatesInv, FlagsOK
    <3>2. Naming(n)' = Naming(n) /\ Naming(n) \subseteq 1 .. k
      BY Zenon, <1>b, <2>1 DEF Naming
    <3>3. CASE n # pair.name
      <4>1. ParsedNaming(n)' = ParsedNaming(n)
        BY <1>b, <2>1, <3>2, <3>3 DEF ParsedNaming, Naming
      <4>2. settings'[n] = settings[n]
        BY Zenon, <2>1, <3>1, <3>3
      <4> QED
        BY Zenon, <2>1, <3>1, <4>1, <4>2 DEF SettingOK
    <3>4. CASE n = pair.name /\ n \in graduatedGates
      BY Zenon, <2>1, <3>1, <3>4 DEF SettingOK
    <3>5. CASE n = pair.name /\ n \notin graduatedGates
      <4>1. settings'[n] = pairs'[i].value
        BY Zenon, <2>1, <3>1, <3>5
      <4>2. i \in ParsedNaming(n)' /\ \A j \in ParsedNaming(n)' : j <= i
        BY <1>b, <2>1, <3>2, <3>5 DEF ParsedNaming, Naming
      <4> QED
        BY Zenon, <3>5, <4>1, <4>2 DEF SettingOK
    <3> QED
      BY Zenon, <3>3, <3>4, <3>5
  <2> QED
    BY Zenon, <2>1, <2>2, <2>3 DEF GatesInv, OptOutsHonoured
<1> QED
  BY Zenon, <1>1, <1>2, <1>c

\* The map is complete.  A gate that is not locked holds the value of its last
\* pair; a locked one holds none, and at the GA stage no group gate reaches it.
LEMMA MapApplied ==
    ASSUME GatesInv, Set
    PROVE  GatesInv'
<1>a. PICK k \in Nat : pairs \in [1 .. k -> Pairs]
  BY Zenon DEF GatesInv, FlagsOK
<1>b. /\ parsed = k /\ pc = "set" /\ DOMAIN pairs = 1 .. k
      /\ settings \in [Names -> {"unset", "true", "false"}]
  BY <1>a DEF Set, GatesInv, FlagsOK
<1>c. \A n : Naming(n) \subseteq 1 .. k
  BY Zenon, <1>b DEF Naming
<1>d. \A n : ParsedNaming(n) = Naming(n)
  BY <1>b, <1>c DEF ParsedNaming
<1>e. \A n \in Names : SettingOK(n)
  BY Zenon, <1>b DEF GatesInv
<1>f. Gates \subseteq Names /\ {"AllAlpha", "AllBeta", "Unknown"} \subseteq Names
  BY Zenon DEF Names, GroupGates
<1>g. \A n \in Names : Locked(n) => settings[n] = "unset"
  BY Zenon, <1>e, Graduated DEF SettingOK
<1>h. AllLocked => \A n \in Names : settings[n] = "unset"
  <2> SUFFICES ASSUME AllLocked, NEW n \in Names, ~Locked(n)
               PROVE  settings[n] = "unset"
    BY Zenon, <1>g
  <2>1. Naming(n) = {}
    BY Zenon DEF AllLocked, Naming
  <2> QED
    BY Zenon, <1>d, <1>e, <2>1 DEF SettingOK
<1>1. CASE SetFails(settings)
  <2>1. pc' = "exit" /\ UNCHANGED <<pairs, parsed, settings, gates>>
    BY Zenon, <1>1 DEF Set, Exit, gateVars
  <2>2. ~AllLocked
    BY Zenon, <1>1, <1>f, <1>h DEF SetFails
  <2> QED
    BY Zenon, <2>1, <2>2 DEF GatesInv, FlagsOK, OptOutsHonoured, AllLocked, Locked
<1>2. CASE ~SetFails(settings)
  <2>1. /\ gates' = {g \in Gates : Enabled(settings, g)} /\ pc' = "workloads"
        /\ parsed' = 0 /\ settings' = NoSettings /\ pairs' = pairs
    BY Zenon, <1>2 DEF Set
  <2>2. FlagsOK'
    BY Zenon, <1>a, <2>1 DEF FlagsOK, NoSettings
  <2>3. ASSUME NEW g \in Gates, Locked(g)
        PROVE  g \in gates' <=> g \in Defaults
    <3>1. settings[g] = "unset" /\ SpecOf(g).stage = "GA"
      BY Zenon, <1>f, <1>g, <2>3, Specs DEF Locked
    <3> QED
      BY Zenon, <2>1, <3>1, DefaultSetting DEF Defaults
  <2>4. ASSUME NEW g \in Gates, ~Locked(g), NEW i \in LastNaming(g)
        PROVE  g \in gates' <=> pairs[i].value = "true"
    <3>1. i \in ParsedNaming(g) /\ i \in 1 .. k /\ \A j \in ParsedNaming(g) : j <= i
      BY Zenon, <1>c, <1>d, <2>4 DEF LastNaming
    <3>2. PICK j \in ParsedNaming(g) :
             settings[g] = pairs[j].value /\ \A l \in ParsedNaming(g) : l <= j
      BY Zenon, <1>e, <1>f, <2>4, <3>1, Graduated DEF SettingOK
    <3>3. i = j
      BY <1>c, <1>d, <3>1, <3>2
    <3>4. settings[g] # "unset"
      BY Zenon, <1>a, <3>1, <3>2, <3>3 DEF Pairs
    <3> QED
      BY Zenon, <2>1, <3>2, <3>3, <3>4, OwnSetting
  <2>5. ASSUME AllLocked
        PROVE  gates' = Defaults
    <3>1. \A g \in Gates : Enabled(settings, g) <=> SpecOf(g).default
      BY Zenon, <1>f, <1>h, <2>5, DefaultSetting
    <3> QED
      BY Zenon, <2>1, <3>1 DEF Defaults
  <2>6. OptOutsHonoured'
    BY Zenon, <2>1, <2>3, <2>4 DEF OptOutsHonoured, LastNaming, Naming, Locked
  <2> QED
    BY Zenon, <2>1, <2>2, <2>5, <2>6 DEF GatesInv, AllLocked, Locked
<1> QED
  BY Zenon, <1>1, <1>2

\* Every step keeps the invariant of the gates.
LEMMA GatesStep == GatesInv /\ [Next]_vars => GatesInv'
<1> SUFFICES ASSUME GatesInv, [Next]_vars
             PROVE  GatesInv'
  OBVIOUS
<1>a. DOMAIN <<>> = {}
  OBVIOUS
<1>1. CASE ParseFlags
  <2>1. /\ parsed' = 0 /\ settings' = NoSettings /\ pc' = "set"
        /\ \E k \in Nat : pairs' \in [1 .. k -> Pairs]
    BY <1>1, StartupAssumption DEF ParseFlags, GatesInv, FlagsOK
  <2>2. FlagsOK'
    BY Zenon, <2>1 DEF FlagsOK, NoSettings
  <2>3. ASSUME NEW n \in Names
        PROVE  SettingOK(n)'
    <3>1. settings'[n] = "unset"
      BY Zenon, <2>1 DEF NoSettings
    <3>2. ParsedNaming(n)' = {}
      BY <2>1 DEF ParsedNaming, Naming
    <3> QED
      BY Zenon, <3>1, <3>2 DEF SettingOK
  <2> QED
    BY Zenon, <2>1, <2>2, <2>3 DEF GatesInv, OptOutsHonoured
<1>2. CASE SetPair
  BY Zenon, <1>2, PairParsed
<1>3. CASE Set
  BY Zenon, <1>3, MapApplied
<1>4. CASE validateWorkloadGates
  <2>1. CASE gates \cap WorkloadGates = {}
    <3>1. pc = "workloads" /\ pc' = "exit" /\ UNCHANGED <<pairs, parsed, settings, gates>>
      BY Zenon, <1>4, <2>1 DEF validateWorkloadGates, Exit, gateVars
    <3>2. ~AllLocked
      BY Zenon, <2>1, <3>1, Workloads DEF GatesInv
    <3> QED
      BY Zenon, <3>1, <3>2 DEF GatesInv, FlagsOK, OptOutsHonoured, AllLocked, Locked
  <2>2. CASE gates \cap WorkloadGates # {}
    <3>1. pc = "workloads" /\ pc' = "machine" /\ pairs' = <<>> /\ UNCHANGED <<parsed, settings>>
      BY Zenon, <1>4, <2>2 DEF validateWorkloadGates
    <3>2. pairs' \in [1 .. 0 -> Pairs]
      BY <3>1
    <3> QED
      BY Zenon, <3>1, <3>2 DEF GatesInv, FlagsOK, OptOutsHonoured
  <2> QED
    BY Zenon, <2>1, <2>2
<1>5. ASSUME pc \in {"machine", "preflight", "check", "plugin"}, UNCHANGED gateVars,
             pc' \in {"preflight", "check", "plugin", "running", "exit"}
      PROVE  GatesInv'
  <2>1. pairs = <<>> /\ UNCHANGED <<pairs, parsed, settings>>
    BY Zenon, <1>5 DEF GatesInv, FlagsOK, gateVars
  <2> QED
    BY <1>5, <2>1 DEF GatesInv, FlagsOK, OptOutsHonoured
<1>6. CASE validateMachineID \/ RunEnds \/ PluginFails \/ runPlugin
  BY Zenon, <1>5, <1>6 DEF validateMachineID, RunEnds, PluginFails, runPlugin, Exit, Proceed
<1>7. CASE Run \/ \E i \in DOMAIN registry, panics \in BOOLEAN : RunCheck(i, panics)
  BY Zenon, <1>5, <1>7 DEF Run, RunCheck
<1>8. CASE Restart
  <2>1. (pc = "start" /\ pairs = <<>> /\ parsed = 0 /\ settings = NoSettings)'
    BY Zenon, <1>8 DEF Restart, NoSettings, Names, Gates
  <2> QED
    BY <2>1, GatesFresh, PTL
<1>9. CASE UNCHANGED vars
  BY <1>9 DEF vars, gateVars, GatesInv, FlagsOK, SettingOK, ParsedNaming, Naming, AllLocked, Locked,
              OptOutsHonoured, LastNaming
<1> QED
  BY Zenon, <1>1, <1>2, <1>3, <1>4, <1>6, <1>7, <1>8, <1>9 DEF Next

\* For any release's gates and any --feature-gates value: the last pair that
\* names an unlocked gate decides it, a locked gate keeps its default, and a flag
\* that names only locked gates does not end the process (registry.set).
THEOREM OptOutsKept == Spec => []OptOutsHonoured
<1>1. Init => GatesInv
  BY Zenon, GatesFresh DEF Init
<1>2. GatesInv => OptOutsHonoured
  BY Zenon DEF GatesInv
<1> QED
  BY <1>1, <1>2, GatesStep, PTL DEF Spec

-----------------------------------------------------------------------------
(* The preflight *)

\* The registered checks ask for what the driver needs, no more and no less: the
\* node serves exactly when no active check fails on it.
LEMMA ChecksDecide ==
    ASSUME node \in Nodes
    PROVE  Serves(node, gates) <=> \A i \in partitionByGate(gates) : Verdict(i) # "error"
<1>1. DOMAIN registry = 1 .. 5
  BY DEF registry
<1>2. /\ Verdict(1) # "error" <=> node.bus
      /\ Verdict(2) # "error" <=> node.matrix
      /\ Verdict(3) # "error" <=> node.mdevBus
  BY Zenon DEF Verdict, runOne, mapSeverity, body, checkPathPresent, registry
<1>3. Verdict(4) # "error" <=> node.override # "absent"
  BY Zenon DEF Verdict, runOne, mapSeverity, body, checkDriverOverride, registry, Nodes
<1>4. Verdict(5) # "error" <=> node.apmask = "ones" /\ node.aqmask = "ones"
  BY Zenon DEF Verdict, runOne, mapSeverity, body, checkZcryptMasks, registry
<1>5. /\ {1, 4, 5} \subseteq partitionByGate(gates)
      /\ \A i \in {2, 3} : i \in partitionByGate(gates) <=>
            registry[i].gate \in gates \cup {NoGate}
  BY <1>1 DEF partitionByGate, registry
<1>6. /\ registry[2].gate = "VirtualMachineWorkload" /\ registry[3].gate = "VirtualMachineWorkload"
      /\ NoGate # "VirtualMachineWorkload"
  BY Zenon DEF registry, NoGate
<1>7. partitionByGate(gates) \subseteq 1 .. 5
  BY Zenon, <1>1 DEF partitionByGate
<1> QED
  BY <1>2, <1>3, <1>4, <1>5, <1>6, <1>7 DEF Serves

\* Init and Restart: nothing is looked at yet.
LEMMA PreflightFresh ==
    ASSUME pc = "start", machineID = AutoDetect, node = Fresh, nErr = 0, code = 0
    PROVE  PreflightInv
<1>1. node \in Nodes
  BY Zenon DEF Fresh, Nodes, Masks
<1> QED
  BY <1>1 DEF PreflightInv, Validated, Preflighted, MachineIDs, RunsWhereItServes, ExitTwoBlamesTheNode

\* The checks before the preflight: an exit here has code 1.
LEMMA FlagsChecked ==
    ASSUME PreflightInv,
           ParseFlags \/ SetPair \/ Set \/ validateWorkloadGates \/ validateMachineID
    PROVE  PreflightInv'
<1>a. pc \in {"start", "set", "workloads", "machine"}
  BY Zenon DEF ParseFlags, SetPair, Set, validateWorkloadGates, validateMachineID
<1>b. code = 0 /\ nErr = 0 /\ node \in Nodes /\ machineID \in MachineIDs
  BY Zenon, <1>a DEF PreflightInv, Preflighted
<1>c. node' = node /\ nErr' = 0
  BY Zenon, <1>b DEF ParseFlags, SetPair, Set, validateWorkloadGates, validateMachineID, Exit, Proceed, nodeVars
<1>d. machineID' \in MachineIDs
  BY Zenon, <1>b DEF ParseFlags, SetPair, Set, validateWorkloadGates, validateMachineID, Exit, Proceed
<1>1. CASE pc' = "exit"
  <2>1. code' = 1
    BY Zenon, <1>1, <1>a DEF ParseFlags, SetPair, Set, validateWorkloadGates, validateMachineID, Exit, Proceed
  <2> QED
    BY <1>b, <1>c, <1>d, <1>1, <2>1
    DEF PreflightInv, Validated, Preflighted, RunsWhereItServes, ExitTwoBlamesTheNode
<1>2. CASE pc' \in {"set", "workloads"}
  <2>1. code' = 0
    BY Zenon, <1>a, <1>b, <1>2 DEF ParseFlags, SetPair, Set, validateWorkloadGates, validateMachineID, Exit, Proceed
  <2> QED
    BY <1>b, <1>c, <1>d, <1>2, <2>1
    DEF PreflightInv, Validated, Preflighted, RunsWhereItServes, ExitTwoBlamesTheNode
<1>3. CASE validateWorkloadGates /\ pc' = "machine"
  <2>1. code' = 0 /\ gates' \cap WorkloadGates # {}
    BY Zenon, <1>b, <1>3 DEF validateWorkloadGates, Exit
  <2> QED
    BY <1>b, <1>c, <1>d, <1>3, <2>1
    DEF PreflightInv, Validated, Preflighted, RunsWhereItServes, ExitTwoBlamesTheNode
<1>4. CASE validateMachineID /\ pc' = "preflight"
  <2>1. /\ pc = "machine" /\ machineID \notin {"too long", "not a label"}
        /\ UNCHANGED <<machineID, code, gates>>
    BY Zenon, <1>4 DEF validateMachineID, Exit, Proceed, gateVars
  <2>2. machineID' \in {AutoDetect, "label"} /\ gates' \cap WorkloadGates # {} /\ code' = 0
    BY Zenon, <1>b, <2>1 DEF MachineIDs, PreflightInv
  <2> QED
    BY <1>b, <1>c, <1>d, <1>4, <2>2
    DEF PreflightInv, Validated, Preflighted, RunsWhereItServes, ExitTwoBlamesTheNode
<1> QED
  BY Zenon, <1>1, <1>2, <1>3, <1>4
  DEF ParseFlags, SetPair, Set, validateWorkloadGates, validateMachineID, Exit, Proceed

\* One check: an error is counted exactly when it is not overridden and the
\* body panicked or found the node wanting.
LEMMA CheckCounted ==
    ASSUME PreflightInv, NEW i \in DOMAIN registry, NEW panics \in BOOLEAN, RunCheck(i, panics)
    PROVE  PreflightInv'
<1>a. /\ pc = "check" /\ pc' = "check" /\ i \in checks /\ checks' = checks \ {i}
      /\ panicked' = (panicked \/ panics)
      /\ UNCHANGED <<gates, machineID, skipEnv, node, code>>
  BY Zenon DEF RunCheck, gateVars
<1>b. nErr' = IF runOne(registry[i], panics) = "error" /\ skipEnv # "recognized" THEN nErr + 1 ELSE nErr
  BY Zenon DEF RunCheck, skipModeFromEnv
<1>c. /\ nErr \in Nat /\ node \in Nodes /\ machineID \in MachineIDs /\ code = 0
      /\ checks \subseteq partitionByGate(gates)
      /\ gates \cap WorkloadGates # {} /\ machineID \in {AutoDetect, "label"}
  BY Zenon, <1>a DEF PreflightInv, Validated
<1>d. \A j : Verdict(j)' = Verdict(j)
  BY Zenon, <1>a DEF Verdict, runOne
<1>e. Serves(node, gates)' = Serves(node, gates) /\ partitionByGate(gates)' = partitionByGate(gates)
  BY Zenon, <1>a
<1>1. runOne(registry[i], panics) = "error" => panics \/ Verdict(i) = "error"
  BY Zenon DEF runOne, Verdict
<1>2. Verdict(i) = "error" => runOne(registry[i], panics) = "error"
  BY Zenon DEF runOne, Verdict
<1>3. nErr' > 0 => skipEnv' # "recognized" /\ (panicked' \/ ~Serves(node, gates)')
  <2>1. CASE nErr' = nErr
    BY Zenon, <1>a, <1>e, <2>1 DEF PreflightInv
  <2>2. CASE nErr' # nErr
    <3>1. runOne(registry[i], panics) = "error" /\ skipEnv # "recognized"
      BY Zenon, <1>b, <2>2
    <3>2. panics \/ ~Serves(node, gates)
      BY Zenon, <1>a, <1>c, <1>1, <3>1, ChecksDecide
    <3> QED
      BY Zenon, <1>a, <1>e, <3>1, <3>2
  <2> QED
    BY Zenon, <2>1, <2>2
<1>4. ASSUME nErr' = 0, skipEnv' # "recognized",
             NEW j \in partitionByGate(gates)' \ checks'
      PROVE  Verdict(j)' # "error"
  <2>1. nErr = 0 /\ skipEnv # "recognized" /\ runOne(registry[i], panics) # "error"
    BY <1>a, <1>b, <1>c, <1>4
  <2>2. CASE j = i
    BY Zenon, <1>d, <1>2, <2>1, <2>2
  <2>3. CASE j # i
    BY Zenon, <1>a, <1>d, <1>e, <1>4, <2>1, <2>3 DEF PreflightInv
  <2> QED
    BY Zenon, <2>2, <2>3
<1>5. nErr' \in Nat
  BY <1>b, <1>c
<1>6. RunsWhereItServes' /\ ExitTwoBlamesTheNode'
  BY <1>a, <1>c DEF RunsWhereItServes, ExitTwoBlamesTheNode
<1> QED
  BY Zenon, <1>a, <1>c, <1>e, <1>3, <1>4, <1>5, <1>6 DEF PreflightInv, Validated, Preflighted

\* The preflight starts and ends, and the plugin after it.
LEMMA PreflightEnds ==
    ASSUME PreflightInv, Run \/ RunEnds \/ PluginFails \/ runPlugin
    PROVE  PreflightInv'
<1>a. /\ pc \in {"preflight", "check", "plugin"} /\ code = 0 /\ nErr \in Nat
      /\ gates \cap WorkloadGates # {} /\ machineID \in {AutoDetect, "label"}
      /\ machineID \in MachineIDs /\ node \in Nodes
  BY Zenon DEF Run, RunEnds, PluginFails, runPlugin, PreflightInv, Validated, Preflighted
<1>1. CASE Run
  <2>1. /\ pc' = "check" /\ node' \in Nodes /\ checks' = partitionByGate(gates)
        /\ UNCHANGED <<gates, machineID, nErr, code>>
    BY Zenon, <1>1 DEF Run, gateVars
  <2>2. nErr = 0
    BY Zenon, <1>1 DEF Run, PreflightInv, Preflighted
  <2>3. partitionByGate(gates)' = partitionByGate(gates)
    BY Zenon, <2>1
  <2> QED
    BY <1>a, <2>1, <2>2, <2>3
    DEF PreflightInv, Validated, Preflighted, RunsWhereItServes, ExitTwoBlamesTheNode
<1>2. ASSUME UNCHANGED <<gates, machineID, positive, skipEnv, node, nErr, panicked>>,
             pc' \in {"plugin", "running", "exit"}, pc' # "exit" => code' = 0,
             pc' \in Preflighted /\ skipEnv # "recognized" => Serves(node, gates),
             code' = 2 => ~positive \/ nErr > 0
      PROVE  PreflightInv'
  <2>1. nErr > 0 => skipEnv # "recognized" /\ (panicked \/ ~Serves(node, gates))
    BY Zenon DEF PreflightInv
  <2>2. Serves(node, gates)' = Serves(node, gates)
    BY Zenon, <1>2
  <2>3. RunsWhereItServes'
    BY Zenon, <1>a, <1>2, <2>2 DEF RunsWhereItServes, Preflighted
  <2>4. ExitTwoBlamesTheNode'
    BY Zenon, <1>a, <1>2, <2>1, <2>2 DEF ExitTwoBlamesTheNode
  <2> QED
    BY Zenon, <1>a, <1>2, <2>1, <2>2, <2>3, <2>4 DEF PreflightInv, Validated, Preflighted
<1>3. CASE RunEnds
  <2>1. pc = "check" /\ checks = {}
    BY Zenon, <1>3 DEF RunEnds
  <2>2. nErr = 0 /\ skipEnv # "recognized" => Serves(node, gates)
    BY Zenon, <1>a, <2>1, ChecksDecide DEF PreflightInv
  <2>3. UNCHANGED <<gates, machineID, positive, skipEnv, node, nErr, panicked>>
    BY Zenon, <1>3 DEF RunEnds, Exit, Proceed, gateVars, nodeVars
  <2>4. CASE skipEnv # "recognized" /\ nErr > 0
    <3>1. pc' = "exit" /\ code' = 2
      BY Zenon, <1>3, <2>4 DEF RunEnds, Exit, skipModeFromEnv
    <3> QED
      BY Zenon, <1>2, <2>3, <2>4, <3>1 DEF Preflighted
  <2>5. CASE ~(skipEnv # "recognized" /\ nErr > 0)
    <3>1. pc' = "plugin" /\ code' = 0
      BY Zenon, <1>3, <1>a, <2>5 DEF RunEnds, Proceed, skipModeFromEnv
    <3> QED
      BY <1>2, <1>a, <2>2, <2>3, <2>5, <3>1
  <2> QED
    BY Zenon, <2>4, <2>5
<1>4. CASE PluginFails \/ runPlugin
  <2>1. /\ pc = "plugin"
        /\ UNCHANGED <<gates, machineID, positive, skipEnv, node, nErr, panicked>>
        /\ \/ pc' = "exit" /\ (code' = 1 \/ ~positive)
           \/ pc' = "running" /\ code' = 0
    BY Zenon, <1>4, <1>a DEF PluginFails, runPlugin, Exit, Proceed, gateVars, nodeVars
  <2>2. skipEnv # "recognized" => Serves(node, gates)
    BY Zenon, <2>1 DEF PreflightInv
  <2> QED
    BY <1>2, <2>1, <2>2
<1> QED
  BY Zenon, <1>1, <1>3, <1>4

\* The invariant of the preflight holds throughout.
LEMMA PreflightSafe == Spec => []PreflightInv
<1>1. Init => PreflightInv
  BY Zenon, PreflightFresh DEF Init
<1>2. ASSUME PreflightInv, Restart
      PROVE  PreflightInv'
  <2>1. (pc = "start" /\ machineID = AutoDetect /\ node = Fresh /\ nErr = 0 /\ code = 0)'
    BY Zenon, <1>2 DEF Restart, Fresh, AutoDetect
  <2> QED
    BY <2>1, PreflightFresh, PTL
<1>3. ASSUME PreflightInv, UNCHANGED vars
      PROVE  PreflightInv'
  BY <1>3 DEF vars, gateVars, nodeVars, PreflightInv, Verdict, runOne, RunsWhereItServes, ExitTwoBlamesTheNode
<1>4. PreflightInv /\ [Next]_vars => PreflightInv'
  BY Zenon, <1>2, <1>3, FlagsChecked, CheckCounted, PreflightEnds DEF Next
<1> QED
  BY <1>1, <1>4, PTL DEF Spec

\* The driver runs only with flags that leave it something to serve, and on a
\* node that passed every active check or that the operator overrode (main,
\* preflight.Run).
THEOREM RunsOnFitNodes == Spec => []RunsWhereItServes
<1>1. PreflightInv => RunsWhereItServes
  BY Zenon DEF PreflightInv
<1> QED
  BY <1>1, PreflightSafe, PTL

\* Exit code 2 has a cause on the node, or is the panic of a ticker over an
\* interval that is not positive (main, FatalError).
THEOREM ExitTwoHasACause == Spec => []ExitTwoBlamesTheNode
<1>1. PreflightInv => ExitTwoBlamesTheNode
  BY Zenon DEF PreflightInv
<1> QED
  BY <1>1, PreflightSafe, PTL

-----------------------------------------------------------------------------
(* The layers of a configuration *)

\* A set of naturals has a least element: what induction over the layers rests on.
LEMMA LeastElement ==
    ASSUME NEW T \in SUBSET Nat, T # {}
    PROVE  \E x \in T : \A y \in T : x <= y
<1> DEFINE R == OpToRel(<, Nat)
<1>1. IsWellFoundedOn(R, Nat)
  BY Zenon, NatLessThanWellFounded
<1>2. \A x, y \in Nat : y < x => <<y, x>> \in R
  BY Zenon DEF OpToRel
<1> HIDE DEF R
<1>3. PICK x \in T : \A y \in T : <<y, x>> \notin R
  BY Zenon, <1>1, WFMin
<1>4. \A y \in T : ~(y < x)
  BY Zenon, <1>2, <1>3
<1>5. QED
  BY <1>4

\* What layer i makes of the layers f below it.
Layer(f, s, i) ==
    IF i = 0 THEN DefaultControlDomainMode
    ELSE IF s[i].mine THEN merge(f[i - 1], s[i])
    ELSE f[i - 1]

\* The recursion of Resolve is well-founded: a function that obeys it exists for
\* any number of entries.
LEMMA LayersExist ==
    ASSUME NEW s, NEW n \in Nat
    PROVE  \E f : f = [i \in 0 .. n |-> Layer(f, s, i)]
<1> DEFINE T == {k \in Nat : ~\E f : f = [i \in 0 .. k |-> Layer(f, s, i)]}
<1>1. SUFFICES ASSUME T # {} PROVE FALSE
  OBVIOUS
<1>2. PICK m \in T : \A k \in T : m <= k
  BY Zenon, <1>1, LeastElement
<1>3. CASE m = 0
  <2> DEFINE g == [i \in 0 .. 0 |-> DefaultControlDomainMode]
  <2>1. g = [i \in 0 .. 0 |-> Layer(g, s, i)]
    BY DEF Layer
  <2>2. QED
    BY Zenon, <1>2, <1>3, <2>1
<1>4. CASE m # 0
  <2>1. m - 1 \in Nat /\ m - 1 \notin T
    BY <1>2, <1>4
  <2>2. PICK f : f = [i \in 0 .. m - 1 |-> Layer(f, s, i)]
    BY Zenon, <2>1
  <2> DEFINE g == [i \in 0 .. m |-> IF i < m THEN f[i] ELSE Layer(f, s, m)]
  <2>3. ASSUME NEW i \in 0 .. m
        PROVE  g[i] = Layer(g, s, i)
    BY <2>2, <1>4 DEF Layer
  <2>4. g = [i \in 0 .. m |-> Layer(g, s, i)]
    BY Zenon, <2>3
  <2>5. QED
    BY Zenon, <1>2, <2>4
<1>5. QED
  BY Zenon, <1>3, <1>4

\* Every layer is what Layer makes of the layers below it.
LEMMA LayersStep ==
    ASSUME NEW s, Len(s) \in Nat, NEW i \in 0 .. Len(s)
    PROVE  Layers(s)[i] = Layer(Layers(s), s, i)
<1>1. Layers(s) = CHOOSE f : f = [k \in 0 .. Len(s) |-> Layer(f, s, k)]
  BY Zenon DEF Layers, Layer
<1>2. Layers(s) = [k \in 0 .. Len(s) |-> Layer(Layers(s), s, k)]
  BY <1>1, LayersExist, Zenon
<1>3. QED
  BY Zenon, <1>2

\* The layers among the first n of s that set the mode.
SettingUpTo(s, n) == {i \in 1 .. n : s[i].mine /\ s[i].mode # NoMode}

\* e is the mode of the last of the first n layers that sets it.
IsLastSet(e, s, n) ==
    \/ SettingUpTo(s, n) = {} /\ e = DefaultControlDomainMode
    \/ \E i \in SettingUpTo(s, n) :
          e = s[i].mode /\ \A j \in SettingUpTo(s, n) : j <= i

\* After n entries the effective mode is that of the last of them that sets it
\* (Resolve, merge): the least n for which it is not would be no layer at all.
LEMMA LayersLastSet ==
    ASSUME NEW s, Len(s) \in Nat
    PROVE  \A n \in 0 .. Len(s) : IsLastSet(Layers(s)[n], s, n)
<1> DEFINE T == {n \in 0 .. Len(s) : ~IsLastSet(Layers(s)[n], s, n)}
<1>1. SUFFICES ASSUME T # {} PROVE FALSE
  BY Zenon
<1>0. T \in SUBSET Nat
  OBVIOUS
<1>2. PICK m \in T : \A k \in T : m <= k
  <2> HIDE DEF T
  <2> QED
    BY Zenon, <1>0, <1>1, LeastElement
<1>3. m # 0
  BY <1>2, LayersStep DEF IsLastSet, SettingUpTo, Layer
<1>4. m - 1 \in 0 .. Len(s) /\ IsLastSet(Layers(s)[m - 1], s, m - 1)
  BY <1>2, <1>3
<1>5. Layers(s)[m] = IF s[m].mine THEN merge(Layers(s)[m - 1], s[m]) ELSE Layers(s)[m - 1]
  BY Zenon, <1>2, <1>3, LayersStep DEF Layer
<1>6. CASE s[m].mine /\ s[m].mode # NoMode
  <2>1. m \in SettingUpTo(s, m) /\ \A j \in SettingUpTo(s, m) : j <= m
    BY <1>2, <1>3, <1>6 DEF SettingUpTo
  <2>2. Layers(s)[m] = s[m].mode
    BY Zenon, <1>5, <1>6 DEF merge
  <2>3. QED
    BY Zenon, <1>2, <2>1, <2>2 DEF IsLastSet
<1>7. CASE ~(s[m].mine /\ s[m].mode # NoMode)
  <2>1. SettingUpTo(s, m) = SettingUpTo(s, m - 1)
    BY <1>2, <1>3, <1>7 DEF SettingUpTo
  <2>2. Layers(s)[m] = Layers(s)[m - 1]
    BY Zenon, <1>5, <1>7 DEF merge
  <2>3. QED
    BY Zenon, <1>2, <1>4, <2>1, <2>2 DEF IsLastSet
<1>8. QED
  BY Zenon, <1>6, <1>7

\* The last layer of this driver that sets the control-domain mode decides it,
\* for arrays of any length (Resolve, merge).
THEOREM LastModeWins == InputsSpec => []LastSetModeWins
<1> DEFINE CInv == configs \in Seq(ConfigEntry)
<1>1. InputsInit => CInv
  BY DEF InputsInit
<1>2. CInv /\ [InputsNext]_<<vars, configs>> => CInv'
  <2> SUFFICES ASSUME CInv, [InputsNext]_<<vars, configs>> PROVE CInv'
    OBVIOUS
  <2>1. CASE AddLayer
    BY <2>1 DEF AddLayer
  <2>2. CASE NextClaim
    BY <2>2 DEF NextClaim
  <2>3. CASE Starting \/ Serve \/ UNCHANGED <<vars, configs>>
    BY Zenon, <2>3 DEF Starting, Serve
  <2>4. QED
    BY Zenon, <2>1, <2>2, <2>3 DEF InputsNext
<1>3. CInv => LastSetModeWins
  <2> SUFFICES ASSUME CInv PROVE LastSetModeWins
    OBVIOUS
  <2>1. Len(configs) \in Nat /\ DOMAIN configs = 1 .. Len(configs)
    OBVIOUS
  <2>2. Setting = SettingUpTo(configs, Len(configs))
    BY Zenon, <2>1 DEF Setting, SettingUpTo
  <2>3. IsLastSet(Resolve(configs), configs, Len(configs))
    BY <2>1, LayersLastSet DEF Resolve
  <2>4. CASE Setting = {}
    BY Zenon, <2>2, <2>3, <2>4 DEF LastSetModeWins, IsLastSet
  <2>5. CASE Setting # {}
    <3>1. PICK i \in Setting : Resolve(configs) = configs[i].mode /\ \A j \in Setting : j <= i
      BY Zenon, <2>2, <2>3, <2>5 DEF IsLastSet
    <3>2. Setting \subseteq Nat
      BY <2>1 DEF Setting
    <3>3. Max(Setting) \in Setting /\ \A j \in Setting : Max(Setting) >= j
      BY Zenon, <3>1, <3>2 DEF Max
    <3>4. Max(Setting) = i
      <4>1. i <= Max(Setting) /\ Max(Setting) <= i /\ i \in Nat /\ Max(Setting) \in Nat
        BY Zenon, <3>1, <3>2, <3>3
      <4>2. QED
        BY <4>1
    <3>5. QED
      BY Zenon, <2>5, <3>1, <3>4 DEF LastSetModeWins
  <2>6. QED
    BY Zenon, <2>4, <2>5
<1>4. QED
  BY <1>1, <1>2, <1>3, PTL DEF InputsSpec
=============================================================================
