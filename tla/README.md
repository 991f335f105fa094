# A TLA+ verification of the CEX DRA driver

The driver publishes the AP queues of an s390 node (an AP queue, or APQN, is an
adapter and a domain) as Kubernetes devices and prepares them for virtual
machines.  To prepare a claim it moves the claim's queues from the zcrypt driver
to vfio_ap, one sysfs write at a time, builds a mediated device (mdev) over them
and writes a CDI spec and a metadata file.  To unprepare it undoes that.  It keeps
no journal: after a crash everything is reconstructed from sysfs and from the files.

The question this project asks is what is left of the driver's promises when any
of those writes fails, when the process dies between any two of them, when
somebody else removes an mdev or restricts the masks, and when the kubelet retries.
Around that it asks whether what the driver publishes is what is on the bus while
scans, calls and the hardware race each other, what a reader of the metadata files may
rely on, and on which nodes and with which flags the process runs at all.

## 1. Inventory

### Parts and how they interact

| Part | Source | State | Operations |
|---|---|---|---|
| Queue rebinding | `internal/binding` | none; sysfs | `SwitchToVFIOAP`, `SwitchToZcrypt`, `DrainOrphanedVFIOAP` |
| Mediated devices | `internal/mdev` | none; sysfs | `Create`, `Destroy`, `AssignAdapter`, `AssignDomain`, `AssignControlDomain`, `ReadMatrix`, `Exists` |
| Claim preparation | `internal/devicestate` | allocatable devices, pools, hash, under a lock | `Prepare`, `Unprepare`, `CompareAndUpdate`, `DriverResources` |
| CDI specs | `internal/cdi` | files | `GenerateClaimSpec`, `DeleteClaimSpec`, `GCStaleClaimSpecs` |
| Claim metadata | `internal/metadata` | files, with a generation | `GenerateClaimMetadata`, `DeleteClaimMetadata`, `GCStaleClaimMetadata` |
| Device configuration | `internal/cryptoconfig` | none | `Resolve`, `ValidateControlDomainMode` |
| Driver | `internal/driver` | scan trigger, MKVP tracker | `New`, the RPC handlers, the scan loop, `HandleError`, `Shutdown`, `WatchHealthStatus` |
| Scanner | `internal/apscanner` | MKVP cache and retry budget | `Scan`, `MKVPTracker.Evaluate` |
| Liveness | `internal/health` | heartbeat | `Stamp`, `Check`, `Watch` |
| Feature gates | `internal/features` | the enabled gates | `Set`, `registry.set` |
| Preflight | `internal/preflight` | none after the start | `Run` and its five checks |
| Entry | `cmd` | none after the start | `Action`, `validateWorkloadGates`, `validateMachineID`, `runPlugin` |

The kubelet calls `NodePrepareResources` and `NodeUnprepareResources` through the
plugin helper, which serialises them.  Each claim of a call goes to `Prepare` or
`Unprepare`, which hold the state lock from start to end.  `Prepare` checks the
claim, switches its queues, builds the mdev, and writes metadata and CDI spec in
that order.  `Unprepare` deletes the files, reads the mdev's matrix, removes the
mdev and switches the queues of the matrix back; without a matrix it runs the
drain, provided the claim was recognised as a VM claim.  `New` drains, collects stale
files, scans, starts the helper and publishes, and then starts the scan loop.  The loop
scans on every tick, and after every call, which leaves a request in a channel of one
place; a scan takes no lock.  Its result replaces the stored devices under the state
lock and is published if its hash differs.  Every cycle stamps the heartbeat, whose
age the liveness probe looks at.

### The behaviours that make it hard

* Every switch is three writes and every build is many; a crash or a failure can
  fall between any two, and the cleanup after a failure can fail as well.
* `driver_override` is both the mechanism and the recovery marker.  A queue without
  a driver and without the marker cannot be told from one an administrator detached.
* Whether a claim was a VM claim, and which queues it had, is known only from the
  mdev and the files that the teardown removes.
* The mdev belongs to the node: KubeVirt or an administrator can remove it at any
  moment.  Masks and overrides exclude each other in the kernel.
* The kubelet retries calls that failed or timed out, and may give a claim up.
* A scan reads the driver, the existence of the key attribute and the keys of a queue one
  after the other, while calls rebind queues and cards are replaced.
* A sysfs write, and a read of the keys from a card, can block in the kernel for good.
* Two locks guard a call, and only one of them looks at the context of the call.
* `os.WriteFile` truncates before it writes, and the next call derives the generation
  from whatever it finds.

`PROJECT.json` lists the hazards with the line where each one bites and the
properties that watch it.

## 2. Modules

| Module | Models |
|---|---|
| `Sysfs` | drivers, overrides, mdevs and masks of the node as the kernel keeps them; the kinds of faults |
| `Binding` | the switches, the switch loop with rollback, and the drain |
| `CryptoConfig` | layering and validation of the configuration |
| `DeviceState` | `Prepare` and `Unprepare` with the mdev and file operations they make |
| `Driver` | start, crash, scan, kubelet, scheduler, administrator; the specification and properties of the claim lifecycle |
| `QueueOwnership` | the abstract promise: who may hold a queue, and when |
| `ClaimMetadata` | the metadata files of one claim, with torn writes and generations |
| `Scanner` | one scan of the bus, read by read, with the MKVP tracker (MKVP: master key verification pattern) |
| `ScanLoop` | the processes that share the driver: scan loop, RPC handlers, clock and probe, main goroutine |
| `Startup` | feature gates, flag checks, preflight and exit codes |
| `MCDriver`, `MCScanLoop`, `MCInputs` | the instances TLC checks; `MCInputs` composes `Startup` and `CryptoConfig` |
| `DriverClaims`, `DriverServes`, `DriverBindings`, `DriverRecovery` | proofs about `Driver`: what mdevs hold; complete prepares and teardowns, and that operations end; bindings and the refinement; crashes, drains and orphans |
| `MetadataProofs` | proofs about `ClaimMetadata` |
| `ScanLoopTypes`, `ScanLoopSafety` | proofs about `ScanLoop` |
| `InputsProofs` | proofs about `Startup` and the layers of `CryptoConfig` |

`Binding` extends `Sysfs`, `DeviceState` extends `Binding` and `CryptoConfig`,
`Driver` extends `DeviceState`; `ScanLoop` extends `Scanner`.  `Driver` and `ScanLoop` look
at the same process from two sides.  `Driver` has every write of a Prepare and lets a rescan
find any set of cards; `ScanLoop` has every read of a scan and both locks, and lets the
writes of a call leave any binding.

### State and code: the claim lifecycle

`driver`, `override`, `mdevs`, `apm`, `aqm`, `adm` are sysfs; `meta` and `cdi` are the
claims that have a metadata directory and a CDI spec.  These survive a crash.
`allocatable` and `gates` are memory of the process.  `pc`, `op`, `claim`, `todo`,
`switched`, `cur` and `wasVM` are the locals of the one operation that runs: a
startup, a Prepare or an Unprepare.  `phase` and `spec` are the claim as scheduler and
kubelet see it.  `pending` means that a call is running or has failed, so the
kubelet has to call again.

One action is one sysfs or file write, or one read that decides something.  The
parameter `ok` is the outcome of that write; `Outcome(ok, kind)` allows a failure only if
`kind` is in `Faults`.  `Finish` is the return of the handler to the kubelet.  The
order in which Go walks a map is a choice of the next queue, adapter or domain.

* A matrix is the set of its queues; the text of the attribute is not modelled.
* A batch of claims in one RPC is a sequence of calls for one claim each, which is what
  the handlers do with it.
* The state lock is the guard `pc = "idle"` of every call and of `Rescan`.  Giving up on
  the lock is part of `PrepareRejects` and `UnprepareBegins`.
* `Crash` stops the process between any two steps and stands for a shutdown too, which
  does not wait for a handler beyond what a crash would lose.
* The drain reads all overrides in one step: while it runs nobody else changes one.
* `PrepareUnread` and `Destroy` contain the race of the code with somebody else who
  removes the mdev between `mdev.Exists` and the read or write that follows it.

### State and code: scan loop and calls

`type`, `keys` and `driver` are the bus.  `cache` and `failCount` are the MKVP tracker; `todo`,
`cardType`, `left`, `cur`, `seen` and `found` are the locals of a scan; `stored` is
`DeviceState.driverResources`, `published` what the helper was last given.  `at` is the
goroutine that runs `New` and then the scan loop, `rpc` the step of every handler.  A device
carries its card type, its driver and its keys, with their provenance `mkvp_state`.

* One action is one read of the scan, one critical section, one case of the loop's select, or
  one step of a handler.  `Serialize` is the helper's mutex, `CheckContext` and `lockCtx` are the
  two looks `lockCtx` takes at the context.
* `MuteCard` and `BlockedWrite` are the read and the write that never return.  A process with
  a blocked write cannot be killed, not by the probe either (`Killable`).
* `age` counts scan intervals.  Only waiting, for a card, for the lock or for something to do, takes more
  than one: the comment on `staleMultiple` rests on that.
* `lastRead`, `misses` and `dirty` are history: the last keys read, the failed reads since, and whether
  the hardware or a failed read interfered since the last scan began.
* `PublishResources` hands the devices to the helper's controller, which fails only while it
  is first started, in `New`.  What the API server makes of them is outside.

### State and code: metadata and start

In `ClaimMetadata` a file is missing, torn, or whole with a generation and a content.  `Truncate`
and `WriteFile` are the halves of `os.WriteFile`; a crash or a failure falls between them.  The
directory of a claim can be removed in part.  `written` and `lost` are history.

`Startup` follows `Action` in `main.go`: gates, workload gates, machine ID, preflight with one step per
active check, plugin.  A gate flag is a sequence of pairs, of the gates of this release, of gates as
a later release may declare them (locked, or at GA and not locked), of the group gates and of an
unknown one.  `SetPair` takes one of them through the filter of `registry.set` and the parser of the
library, and `Set` applies the map they make; the filter never fails, so it makes no difference
that the code runs it over all pairs first.  What the library does with the pairs is taken from the vendored
source.

### Assumptions about the environment

The scheduler never gives a queue to two claims at once, a claim is deallocated only when
the kubelet holds nothing of it, and no claim is allocated on a queue of a foreign mdev (the
documentation calls that unsupported).  An allocation has at least one queue.  Two
mdevs the driver did not create have no queue in common.  A node does not reboot
(a reboot clears sysfs).

## 3. What is checked

### Runs that pass

| Run | Faults | Properties |
|---|---|---|
| `claims` | all but `matrix_read` | `TypeOK`, `ClaimInv`, `CompletionOK`, `NoSharedQueue`, `BindingInv`, `KeepsOwnership`, `SwitchToVFIOAPNeverInvisible`, `OperationsAdvance` |
| `recovery` | vanishing cards and queues, failing scan, crash | `MatrixWithinAllocation`, `ClaimedQueuesBound`, `PreparedServes`, `UnprepareReturnsQueues`, `StartupReconciles`, `RetriedCallsSucceed` |
| `teardown` | unbind, probe, mdev and file writes (not mdev removal), unreadable matrices, deadline, external removal | `ControlDomainsComplete`, `UnreturnedQueueKeepsMarker`, `UnprepareTakesAllBack` |
| `retries` | all writes, files, deadline, scan, external removal, crash | `OperationsTerminate`, `RetriesSettle`, `OrphansReclaimed` |
| `inputs` | a check that panics, a plugin that fails to start | `OptOutsHonoured`, `RunsWhereItServes`, `ExitTwoBlamesTheNode`, `LastSetModeWins` |
| `metadata` | failed reads, opens and writes, partial removal, crash | `TypeOK`, `GenerationNamesContent`, `SuccessLeavesFilesWhole` |
| `scan` | failing reads, hotplug, new keys, mute card, blocked write, deadline, crash | `TypeOK`, `PublishedIsStored`, `NoChangeForgotten`, `HeartbeatFresh`, `MkvpStateTruthful`, `CyclesAdvance` |
| `loop` | failing scan, mute card, deadline, signal | `RpcAnswered`, `ShutdownCompletes`, `CatchesUp` |

`KeepsOwnership` says that `Driver` implements `QueueOwnership`.  The faults of a run are
those under which its properties are the code's promise; what lies outside is this.

* `BindingInv`, `ClaimedQueuesBound` and `KeepsOwnership` leave out unreadable matrices;
  `doc_drain` shows why.
* `UnprepareReturnsQueues` leaves out failing writes and deadlines: both can leave switched
  queues without a witness (`doc_reset`); a deadline does so when it ends the rebuild of a
  partial mdev, after the removal and before the switch.
* `RetriedCallsSucceed` leaves out whatever may make a write fail, an external removal and deadlines;
  crashes, vanishing cards and failing scans are in.  It is about calls past their checks: a Prepare of a card that
  vanished, or with a malformed configuration, is refused by `PrepareRejects`, and stays pending.
* `UnreturnedQueueKeepsMarker` leaves out refused override writes.  With masks restricted after
  the start, or a failing write, the rollback takes a queue that is still on zcrypt, unbinds it
  and cannot write its override, so the queue has neither driver nor marker, although the
  comment of `switchQueuesToVFIOAP` says that it keeps the marker.  Add `"masks"` to the faults of
  `teardown` and TLC shows it.
* `ControlDomainsComplete` leaves out a failing removal of the mdev and a crash.  Either leaves an
  mdev with its whole matrix and without its control domains, which a retry accepts, since
  only the matrix is compared.  The comment of `ensureMdevForClaim` accepts the crash.
* `GenerationNamesContent` excludes a file whose generation was lost to a torn write or an
  unreadable file: it restarts at 1, and a generation can then stand for two contents.
* `ExitTwoBlamesTheNode` excludes a scan interval that is not positive.  No flag check refuses
  it, and `NewTicker` panics with the exit code 2 that otherwise reports the preflight.
* `RpcAnswered` and `ShutdownCompletes` hold if no write blocks for good; nothing in the
  process can end such a write.
* `CatchesUp` relies, for a card that never answers, on the liveness probe.  The base DaemonSet configures it
  and sets `HEALTHCHECK_PORT`; with main's default, no port, such a card holds the loop until it is gone.

### Runs that find a disagreement

Each of these checks what a comment or the documentation says, and TLC finds a
behaviour of the code that violates it.

* `doc_reset`: `docs/concepts.md` says orphaned queues are reset "after every claim unprepare".
  If mdev creation failed there is no mdev and no metadata, and `Unprepare` resets nothing.
  The same happens when something else removes the mdev while `Prepare` builds it, and when it
  is removed between `mdev.Exists` and the remove write of `Unprepare`: that call fails after
  it has deleted the metadata, and the retry takes the claim for a container claim.
* `doc_drain`: an mdev whose matrix cannot be read is skipped, so its queues are drained
  while it is live.
* `doc_crash`: a crash between clearing the override and the probe leaves a queue that
  nothing recovers; the drain is said to recover "from a driver crash mid-Unprepare".
* `doc_lock`: the comment of `lockCtx` says that calls queued behind one whose write never
  returns "fail fast instead of piling up".  They wait for the mutex of the plugin helper
  first, which takes no context, and so never come to `lockCtx`.

### Bounds

`claims` has two adapters and one domain with two claims, one asking for both queues and one for a
queue they share.  That is enough for a rollback of an already switched queue, a build interrupted
with part of its matrix, a second claim whose drain meets a partial build of the first, and a
queue that moves from one claim to another.  `recovery` and `teardown` add a second domain, needed
for an allocation that is not a cross product, with a foreign mdev, container claims, malformed
configuration and changing gates, for two claims and for one.  `retries` has one claim: the
runs of temporal properties are the expensive ones.  No counter of `Driver` is bounded.

`scan` has one queue of a keyed card, which can be unplugged and plugged in again, two keys, a retry budget
of one and one caller that calls again and again.  So a cached value is served once and dropped
at the next failure, and a call falls between any two reads of a scan.

`loop` is two instances in one run, told apart by the card the node starts with (`CallersByCardType` in
`MCScanLoop`).  On a node with a keyless card two callers compete: one waits for the helper's mutex while the
other holds it and waits for the state lock, which the loop takes too, and the deadline of either may
pass at any point; their calls only switch to vfio_ap.  On a node with a keyed card, which may stop answering,
one caller without deadlines switches queues both ways.  The constraint limits which calls arrive and when
contexts end; no fairness is assumed of either, so it takes nothing from what the liveness properties may rely on.  The
stale threshold is one interval.  More callers or queues are past what TLC finishes in minutes; the
theorems of section 4 cover any number of both.  Named bounds: `MaxClaims`
(claims in one call), `MissBound` and `AgeBound` (where counting on makes no difference).

`metadata` has two requests, two contents and `MaxGeneration` 4; removal lets the generation start over.
`inputs` enumerates every gate flag of up to `MaxPairs` (3) pairs, which is what it takes to name a
gate twice and its group as well, every node and skip setting, and every configuration of up to `MaxLen` (3)
layers.

`claims` and `recovery` use the symmetry of the two claims, `scan` that of the keys; none of
them checks liveness.

### Fairness

`LiveSpec` of `Driver` assumes that a running goroutine runs on (weak fairness of `Progress`), that the
kubelet restarts a pod that exits (weak fairness of `Start`), and that the kubelet keeps
calling for a claim that is pending.  The last is strong fairness: a retry meets the lock
taken by others, but again and again finds it free.  The liveness properties about
recovery are conditional on `FaultsCease`: from some point on no write fails, no
mdev is removed and the process does not die inside an operation.  Nothing is assumed about
when.  `OrphansReclaimed` is about a node whose driver is restarted again and again: without a
restart the code promises no second attempt for a queue a failed switch left behind.
`OperationsTerminate` needs no such condition.

`LiveSpec` of `ScanLoop` assumes that the process runs on, that time passes and
that the kubelet restarts a container whose probe fails (weak fairness).  The two locks, a Go mutex
and a Go channel, serve their waiters in turn, so the goroutine of the loop and that of each call go on if
they can again and again, and Go's select chooses at random among its ready cases, so the end of the context
is not passed over for ever (strong fairness; one condition for each goroutine, not one for each lock it
waits for).
No fairness is assumed of calls, faults, hardware or signals.  `CatchesUp` is conditional on calls and
faults ceasing.

## 4. What is proved

TLAPS checks these for every value of the constants that satisfies the named assumptions:
`SysfsAssumption`, `NoQueueAssumption` and `DeviceStateAssumption` for `Driver`,
`ClaimMetadataAssumption` for `ClaimMetadata`, `ScannerAssumption` and `ScanLoopAssumption` for
`ScanLoop`, `StartupAssumption` for `Startup` and the layers.  They make the bus finite, as the AP architecture
does, and bound nothing else.  TLC evaluates them on the instances.  The last
column names the faults a theorem excludes; all others may happen, any number of times.

| Theorem | States | Excludes |
|---|---|---|
| `TypeCorrect` | `Spec => []TypeOK` | |
| `ClaimsSafe` | `Spec => []ClaimInv` | |
| `MatricesWithinAllocations` | `Spec => []MatrixWithinAllocation` | |
| `QueuesNeverShared` | `Spec => []NoSharedQueue` | |
| `PreparesComplete` | `Spec => []CompletionOK` | |
| `PreparedClaimsServed` | `Spec => []PreparedServes` | |
| `ControlDomainsAssigned` | `Spec => []ControlDomainsComplete` | `remove`, `crash` |
| `UnprepareComplete` | `Spec => UnprepareTakesAllBack` | `remove`, `crash`, `list`, `override_read` |
| `OperationsComeToAnEnd` | `Spec => OperationsAdvance` | |
| `RetriesGetThrough` | `Spec => RetriedCallsSucceed` | `masks`, `override`, `unbind`, `probe`, `create`, `assign`, `control`, `remove`, `file`, `deadline`, `external` |
| `BindingSafe` | `Spec => []BindingInv` | `matrix_read` |
| `ClaimedQueuesStayBound` | `Spec => []ClaimedQueuesBound` | `matrix_read` |
| `OwnershipKept` | `Spec => KeepsOwnership` | `matrix_read` |
| `OnlyReturnsHide` | `Spec => SwitchToVFIOAPNeverInvisible` | |
| `ReturnsLeaveTrace` | `Spec => UnreturnedQueueKeepsMarker` | `override`, `masks` |
| `StartupLeavesNothing` | `Spec => StartupReconciles` | `override`, `unbind`, `probe`, `list`, `override_read`, `file`, `external` |
| `UnprepareLeavesNoOrphan` | `Spec => UnprepareReturnsQueues` | `override`, `unbind`, `probe`, `create`, `assign`, `control`, `list`, `override_read`, `deadline`, `external` |
| `PreparedClaimsKeepQueues` | `Spec => []ServedExclusively` | `matrix_read` |
| `MetadataTypes` | `Spec => []TypeOK` of `ClaimMetadata` | |
| `GenerationsNameContents` | `Spec => []GenerationNamesContent` | |
| `SuccessIsComplete` | `Spec => SuccessLeavesFilesWhole` | |
| `LoopTypeCorrect` | `Spec => []TypeOK` of `ScanLoop` | |
| `MkvpStateIsTruthful` | `Spec => MkvpStateTruthful` | |
| `HeartbeatStaysFresh` | `Spec => []HeartbeatFresh` | |
| `SlicesMatchState` | `Spec => []PublishedIsStored` | |
| `NoChangeIsForgotten` | `Spec => []NoChangeForgotten` | |
| `CyclesComeToAnEnd` | `Spec => CyclesAdvance` | |
| `OperationsRunAlone` | `Spec => []OneAtATime` | |
| `OptOutsKept` | `Spec => []OptOutsHonoured` | |
| `RunsOnFitNodes` | `Spec => []RunsWhereItServes` | |
| `ExitTwoHasACause` | `Spec => []ExitTwoBlamesTheNode` | |
| `LastModeWins` | `InputsSpec => []LastSetModeWins` | |

### The claim lifecycle

`NoSharedQueue` is not inductive.  It follows from three facts: the scheduler keeps
allocations disjoint (`AllocationsDisjoint`); an mdev exists only for a claim the kubelet has
not been told is released (`MdevsOK`), because `Unprepare` reports success only after the removal;
and its masks stay within the adapters and domains of the allocation.  The step from masks
to queues is `CrossProduct`: a finite set with as many pairs as its two projections allow is
their product, so the matrix constraint of `collectAllocatedAPQNs` makes every partial matrix a
part of the allocation.  `SwitchesWithoutMdev` is needed to know that `Create` starts from empty
masks, and `OperationOK` to know whose mdev an operation touches.  `ClaimInv` is the
conjunction; it holds whatever fails.

`PreparedServes` needs `CompletionOK` besides: `Prepare` writes the files only over an mdev with
the full matrix, which the matrix comparison gives on a retry (`MatrixDeterminesMasks`), and
`Unprepare` begins by withdrawing the claim's prepared phase.

`ControlDomainsComplete` needs to know that a claim found complete by its matrix was built to the
end.  `MdevsComplete` says so: every mdev of the driver has all three masks unless the running Prepare
is building it or giving it up.  A removal that fails, or a crash, leaves an mdev for which
it is false, hence the two exclusions.  `UnprepareTakesAllBack` uses it as well: the list Unprepare
reads off a complete mdev is the whole allocation (`TeardownList`); where the matrix could not
be read, or the mdev is gone, the list is empty and the drain finds what there is.

`ClaimedQueuesBound` needs what a running switch has achieved (`SwitchedReady`) and that a
queue on its way back is in no mdev (`ReturnedUnclaimed`).  `MatrixFrame` and `ClaimedGrowth` split the
steps into those that let an mdev grow, all of them assigns of a claim whose queues are ready, and
those after which no mdev holds more than before.  The theorem excludes the fault `matrix_read`;
`doc_drain` shows that this is necessary.

`KeepsOwnership` is the refinement of `QueueOwnership` under the mapping `Allocated`, `ReadyQueues`,
`Holdings`.  `OwnershipStep` goes through the actions: a sysfs write of a switch moves at most one queue
(`SwitchOneQueue`), and `ClaimedQueuesBound` after the step shows that no mdev held it; an
assign adds queues of the allocation, ready ones; a removal empties one matrix; everything else,
crashes included, leaves the owner table alone.

`OperationsAdvance` is the part of termination that needs no fairness.  Its measure is a pair: the
stage of the operation (`Stage`, from eight for the first step of an Unprepare down to zero when idle or
down) and what the loop of that stage has left (`Left`): four writes for a queue to be switched, one
for an adapter, a domain or a control domain to be assigned.  Every step of the operation lowers the pair,
in lexicographic order, and no other step of the node raises it.  The order of the stages is the content: a failed
build falls through to the return loop or to giving up and never back to a switch, the drain of an Unprepare comes
after its removal, and a partial mdev is rebuilt once.  `LeftIsNat` has the finiteness of the loops from
`SysfsAssumption`, and `OneLess` the step of each.  With weak fairness of `Progress` termination follows; that last
step is the one left to TLC (`OperationsTerminate`).

`RetriedCallsSucceed` says that leftovers never block a call.  `OnTrack` is what it takes: no mask is restricted,
a Prepare is never on the way back, and the mdev it builds stays.  Nothing is assumed of the state a call starts
from beyond `ClaimInv`, so it may be any a crash leaves: the override of a marked queue is written again, the
unbind of a queue without driver counts as done (`UnbindSucceeds`), a partial mdev is removed and built anew.

### Recovery

A queue is invisible to recovery when it has neither a driver nor the marker, and an orphan when
it has the marker and is in no mdev.  `OnlyReturnsHide` rests on `SwitchedReady` alone: a
switch to vfio_ap has written the override before it unbinds.  `ReturnsLeaveTrace` needs that the
marker can be put back, so it excludes refused override writes.  `MasksExclude` is the kernel's
exclusion of masks and overrides as an invariant; with it a restricted mask means that there is no
orphan.

Both theorems about orphans rest on three lemmas.  `DrainFindsOrphans`: a drain that can list the mdevs and
read the overrides has every orphan in its list, unreadable matrices or not.  `ReturnLoop`: the loop
over `SwitchToZcrypt` loses none of its list before its override is cleared (`AtHand`), and has none left
when it ends.  `RunsAlone`: while an operation runs nothing but a crash comes between its steps.
`StartupInv` follows a start through drain, garbage collections and scan; nothing has to be known of the state
it starts from, which is why every crash is covered.

`UnprepareReturnsQueues` needs to know where every orphan is at any time, of all claims and not only of the
one that is unprepared.  `RecoveryInv` says: there is none while the driver is idle; those of a running
Prepare are queues of its claim until the mdev has them; those of an Unprepare are in its list, which
covers the matrix of the mdev it removes, and an mdev is always recognised (`wasVM`).  A crash may
leave any, and the start that has to follow returns them.

`ServedExclusively` is what a guest relies on: while its claim is prepared and its mdev lives, each allocated queue
is on vfio_ap, marked, in this mdev and in no other, foreign ones included.  It follows from `PreparedServes`,
`ClaimedQueuesBound` and `NoSharedQueue`, each proved by an invariant of its own.

### Metadata

`GenerationNamesContent` speaks of what a reader may have seen, and needs what the running call is
about to write: `GenerationInv` adds that the generation resolved for the current request fits
everything written so far (`Fits`), from the moment the previous file was read until the write.
`ResolvedFits` is that fact for the three cases of the code.  `WrittenSoFar` says that the
requests the call is done with are whole with the content it was called with; at the end of the
loop that is `SuccessLeavesFilesWhole`.

### The scan loop

`LoopInv` is the types with the control state of a scan (where the cursor may point, and that
the count of failures in the tracker agrees with the history as long as there is a cached value).
From it follow the types and `MkvpStateTruthful`.  `HeartbeatInv` strengthens `HeartbeatFresh`: in its
select the loop has a heartbeat of this interval, or its next tick is there already and keeps time
from passing unused.  `PublishedInv` is `PublishedIsStored` between the publishing steps.

`NoChangeForgotten` is not inductive by far.  `ChangesInv` has two parts.  `BusOK` holds at any
time: a queue that is not plugged in has no driver, and what a scan has still to read is not in
its result.  `QuietOK` holds while it is quiet, that is, no call is served, no scan is
requested and nothing interfered since the scan began: what has been read still matches the
bus, in the scan's result, then in the state, then in the slices.  A call ends the quiet when it
takes the helper's mutex.  Before it gives the mutex back it requests a scan, and the quiet
returns only when a scan begins that reads everything again.

`CyclesAdvance` has a measure like that of the operations: the stage of the cycle (`CycleStage`) and the reads ahead of
the scan (`ReadsLeft`), one for a card that was listed and up to three for each of its queues.  Taking up a card
exchanges its queues for the same number of queues at hand (`CardTaken`), so the sum falls by the card; a card that
vanished takes its queues with it.  Hotplug does not touch the list a scan works from.  What can hold a cycle up
is therefore a mute card or a held lock and nothing else, which is what the liveness runs take over from.

`OperationsRunAlone` ties the two sides of the process together.  `Driver` runs one operation at a time and
no call before the start is done; `OneAtATime` shows for `ScanLoop`, which has the handlers and the helper's mutex, that
no handler is at work before the helper serves and that at most one is past the mutex.

### The start of the process

`GatesInv` follows the flag pair by pair: what the map holds of a name is the value of the last pair
parsed so far that names it, and nothing for a locked gate (`SettingOK`).  Once all pairs are parsed that is
`OptOutsHonoured`, since a setting of its own decides a gate (`OwnSetting`) and the group gates do not
reach a gate at the GA stage (`DefaultSetting`).  The library would let a group gate switch a gate that
is locked before GA; `StartupAssumption` therefore has what the declaration convention in
`features.go` says, that only graduation locks.

`PreflightInv` follows the preflight check by check: as long as no error is counted no finished check
has found one, and a counted error has a cause, a panic or a node that does not serve.
`ChecksDecide` ties the two to the registry: the node serves exactly when none of the active checks
fails on it.

`LastSetModeWins` is about a fold, `Layers`: the mode after each number of entries.  `LayersExist` shows that the
recursive function is what its equation says (by a least length without one), and `LayersLastSet` that after each number
of entries it holds the last mode set so far.  Both take the least counterexample from the well-foundedness of the
naturals in place of an induction rule with an operator parameter.

### Only model-checked

* The liveness properties (`OperationsTerminate`, `RetriesSettle`, `OrphansReclaimed`, `RpcAnswered`,
  `ShutdownCompletes`, `CatchesUp`): fairness and `ENABLED` are out of the prover's reach.  What they need of
  safety is proved for operations and cycles (`OperationsAdvance`, `CyclesAdvance`, `RetriedCallsSucceed`); that an
  enabled step exists and is taken is TLC's part.  Every invariant and action property of a passing run has its
  theorem.

## 5. What is not modelled

* The text of attributes and files and its parsing (`internal/sysfs`, `parseCardType`, the masks),
  logging and version.  They compute values the models take as data and keep no state.
* The status attributes of cards and queues (`readCardStatus`, `readQueueStatus`): every scan reads and
  publishes them, nothing keeps them or decides by them.
* The timer of the health stream (`WatchHealthStatus`), which sends the devices of `DriverResources` again and
  again, and the watchdog (`Watch`), which logs.  Listening and stopping of the health server.
* The Kubernetes client and the controller that writes the slices; flags that only name paths and hosts.
* The kernel's own refusals of an assign (they are failures of the write), and a reboot, which
  clears sysfs.
* The matrix attribute of an mdev with adapters and no domain has rows that name no queue; that
  shape is a hazard without a property.

What could follow: a single model in which the writes of `Driver` race the reads of `Scanner`, for
which the two state spaces together are too large for TLC.
