------------------------------- MODULE Driver -------------------------------
(***************************************************************************)
(* The claim lifecycle on one node: the driver process (driver.New, the    *)
(* RPC handlers, a crash), the kernel, the kubelet that calls it, the      *)
(* scheduler that allocates queues to claims, the administrator and        *)
(* whatever else removes mdevs.                                            *)
(***************************************************************************)
EXTENDS DeviceState

vars == <<sysfsVars, bindingVars, claimVars>>

DefaultSpec == CHOOSE s \in Specs : TRUE

Init ==
    /\ SysfsInit
    /\ pc = "down"
    /\ op = "none"
    /\ todo = {}
    /\ switched = {}
    /\ cur = NoQueue
    /\ phase = [c \in Claims |-> "free"]
    /\ spec = [c \in Claims |-> DefaultSpec]
    /\ claim = NoClaim
    /\ wasVM = FALSE
    /\ meta = {}
    /\ cdi = {}
    /\ allocatable = {}
    /\ gates = {}

-----------------------------------------------------------------------------
(* The process *)

\* checkZcryptMasks fails the startup on restricted masks, unless preflight runs
\* in skip mode.
PreflightPasses == ~masked \/ "skip_preflight" \in Faults

\* Mutant: New does not drain.
StartWithoutDrain ==
    /\ pc = "down"
    /\ PreflightPasses
    /\ pc' = "gc_cdi"
    /\ op' = "startup"
    /\ gates' \in GateSets
    /\ UNCHANGED <<todo, switched, cur, sysfsVars, phase, spec, claim, wasVM,
                   fileVars, allocatable>>

\* main: validateWorkloadGates refuses to run without a workload gate.  New
\* starts with the drain.
Start ==
    /\ pc = "down"
    /\ PreflightPasses
    /\ pc' = "drain"
    /\ op' = "startup"
    /\ gates' \in GateSets
    /\ UNCHANGED <<todo, switched, cur, sysfsVars, phase, spec, claim, wasVM,
                   fileVars, allocatable>>

\* A garbage collection of the files of claims without a live mdev; a file it
\* fails to remove stays.
Collected(files, ok) ==
    IF ok THEN {files \cap mdevs}
    ELSE {(files \cap mdevs) \cup left : left \in SUBSET files}

GCStaleClaimSpecs(ok) ==
    /\ pc = "gc_cdi"
    /\ Outcome(ok, "file")
    /\ cdi' \in Collected(cdi, ok)
    /\ GoTo("gc_metadata")
    /\ UNCHANGED <<sysfsVars, meta, fixedVars>>

GCStaleClaimMetadata(ok) ==
    /\ pc = "gc_metadata"
    /\ Outcome(ok, "file")
    /\ meta' \in Collected(meta, ok)
    /\ GoTo("scan")
    /\ UNCHANGED <<sysfsVars, cdi, fixedVars>>

\* What a scan can find: it leaves out the cards whose attributes are gone, which
\* is every card while the AP bus itself is, and the queues no longer listed.
Scanned == IF "vanish" \in Faults THEN SUBSET Queues ELSE {Queues}

Stopped ==
    /\ pc' = "down"
    /\ op' = "none"
    /\ todo' = {}
    /\ switched' = {}
    /\ cur' = NoQueue
    /\ claim' = NoClaim
    /\ wasVM' = FALSE
    /\ allocatable' = {}
    /\ gates' = {}

\* The initial scan and CompareAndUpdate; a failed scan ends the process.
InitialScan(ok) ==
    /\ pc = "scan"
    /\ Outcome(ok, "scan")
    /\ IF ok
       THEN allocatable' \in Scanned /\ Finish("none") /\ UNCHANGED gates
       ELSE Stopped /\ UNCHANGED phase
    /\ UNCHANGED <<sysfsVars, fileVars, spec>>

\* CompareAndUpdate of the scan loop, which needs the state lock.
Rescan ==
    /\ pc = "idle"
    /\ allocatable' \in Scanned
    /\ UNCHANGED <<sysfsVars, bindingVars, phase, spec, claim, wasVM, fileVars, gates>>

\* The process dies between two steps.  Sysfs and files survive.
Crash ==
    /\ pc # "down"
    /\ "crash" \in Faults
    /\ Stopped
    /\ UNCHANGED <<sysfsVars, phase, spec, fileVars>>

-----------------------------------------------------------------------------
(* The environment *)

\* The scheduler gives a claim queues no other claim holds.
Allocate(c, s) ==
    /\ phase[c] = "free"
    /\ \A d \in Claims \ {c} :
          phase[d] # "free" => s.devices \cap spec[d].devices = {}
    /\ phase' = [phase EXCEPT ![c] = "allocated"]
    /\ spec' = [spec EXCEPT ![c] = s]
    /\ UNCHANGED <<sysfsVars, bindingVars, claim, wasVM, fileVars, allocatable, gates>>

\* A claim the kubelet holds nothing of is deallocated.
Deallocate(c) ==
    /\ phase[c] = "allocated"
    /\ phase' = [phase EXCEPT ![c] = "free"]
    /\ spec' = [spec EXCEPT ![c] = DefaultSpec]
    /\ UNCHANGED <<sysfsVars, bindingVars, claim, wasVM, fileVars, allocatable, gates>>

\* Something else on the node, such as KubeVirt, removes an mdev.
ExternalRemove(u) ==
    /\ u \in mdevs
    /\ "external" \in Faults
    /\ RemoveMdev(u)
    /\ UNCHANGED <<queueVars, masked, bindingVars, claimVars>>

\* The kernel lets the administrator write the masks only while no queue
\* carries an override.
WriteMasks ==
    /\ "masks" \in Faults
    /\ \A q \in Queues : override[q] = NoOverride
    /\ masked' = ~masked
    /\ UNCHANGED <<queueVars, mdevVars, bindingVars, claimVars>>

-----------------------------------------------------------------------------
\* A step of the running operation, with the outcome ok of its write.
Step(ok) ==
    \/ SwitchStep(ok) /\ UNCHANGED claimVars
    \/ DestroyPartial(ok)
    \/ CreateMdev(ok)
    \/ \E a \in Adapters : AssignAdapter(a, ok)
    \/ \E d \in Domains : AssignDomain(d, ok) \/ AssignControlDomain(d, ok)
    \/ DestroyPartialMdev(ok)
    \/ GenerateClaimMetadata(ok)
    \/ GenerateClaimSpec(ok)
    \/ DeleteClaimMetadata(ok)
    \/ ReadMatrix(ok)
    \/ UnprepareDestroy(ok)
    \/ GCStaleClaimSpecs(ok)
    \/ GCStaleClaimMetadata(ok)
    \/ InitialScan(ok)

\* The running operation goes on.
Progress ==
    \/ \E ok \in BOOLEAN : Step(ok)
    \/ (SwitchDeadline \/ SwitchDone \/ DrainOrphanedVFIOAP) /\ UNCHANGED claimVars
    \/ ReturnDone

\* The kubelet calls NodePrepareResources or NodeUnprepareResources.
Call(c) ==
    \/ PrepareRejects(c)
    \/ PrepareContainer(c)
    \/ PrepareVM(c)
    \/ PrepareUnread(c)
    \/ \E ok \in BOOLEAN : UnprepareBegins(c, ok)

Next ==
    \/ Progress
    \/ \E c \in Claims : Call(c) \/ Deallocate(c)
    \/ \E c \in Claims, s \in Specs : Allocate(c, s)
    \/ Start
    \/ Rescan
    \/ Crash
    \/ \E u \in Uuids : ExternalRemove(u)
    \/ WriteMasks

Spec == Init /\ [][Next]_vars

\* A running goroutine runs on, a dead driver pod is restarted, and the kubelet
\* retries the call that failed, or gives up and unprepares.  Nothing makes a
\* retry find the driver idle, only idle again and again.
Fairness ==
    /\ WF_vars(Progress)
    /\ WF_vars(Start)
    /\ \A c \in Claims : SF_vars(phase[c] = "pending" /\ Call(c))

LiveSpec == Spec /\ Fairness

\* A step in which no injected failure plays a part.
Faultless ==
    /\ \/ Step(TRUE)
       \/ SwitchDone /\ UNCHANGED claimVars
       \/ DrainOrphanedVFIOAP /\ todo' = Drained(liveAPQNs({}), {}) /\ UNCHANGED claimVars
       \/ ReturnDone
       \/ \E c \in Claims :
             \/ PrepareRejects(c) /\ ~ServableVM(spec[c])
             \/ PrepareContainer(c) \/ PrepareVM(c) \/ UnprepareBegins(c, TRUE)
             \/ Deallocate(c) \/ \E s \in Specs : Allocate(c, s)
       \/ Start
       \/ Rescan
       \/ pc = "idle" /\ Crash
    /\ pc' = "idle" => allocatable' \in {allocatable, Queues}

\* From some point on nothing fails; the process may still be replaced between
\* two operations.
FaultsCease == <>[][Faultless]_vars

-----------------------------------------------------------------------------
(* Invariants *)

\* Every variable keeps its type: queues have a known driver and override,
\* the masks of an mdev hold adapters and domains of the bus, a step is one of
\* the code's steps.
TypeOK == SysfsTypeOK /\ BindingTypeOK /\ DeviceStateTypeOK

\* An mdev the driver builds belongs to an allocated claim and never reaches
\* past its allocation: the adapters x domains cross product of
\* assignMdevMatrix holds only allocated queues, because
\* collectAllocatedAPQNs enforces the matrix constraint, and
\* assignMdevControlDomains stays within the domains the mode implies.
MatrixWithinAllocation ==
    \A c \in Claims \cap mdevs :
       /\ phase[c] # "free"
       /\ Matrix(c) \subseteq spec[c].devices
       /\ adm[c] \subseteq ControlDomains(spec[c])

\* Two guests never share a queue: whatever crashes, retries and failed
\* teardowns left behind, the matrices of two mdevs are disjoint.
NoSharedQueue ==
    \A u, v \in mdevs : u # v => Matrix(u) \cap Matrix(v) = {}

\* A queue in the matrix of an mdev, foreign ones included, is bound to
\* vfio_ap and marked: no rollback, unprepare or drain takes a queue from
\* under a live mdev.  The drain misjudges an mdev whose matrix it cannot
\* read, so this is claimed for runs without that fault.
ClaimedQueuesBound ==
    \A q \in Claimed(mdevs) : driver[q] = "vfio_ap" /\ override[q] = "vfio_ap"

\* What a successful VM Prepare promised stays true as long as the mdev lives,
\* across driver restarts and the startup garbage collection: the mdev has
\* exactly the allocated queues, and its CDI spec and metadata are on disk.
PreparedServes ==
    \A c \in Claims \cap mdevs :
       phase[c] = "prepared" =>
          /\ Matrix(c) = spec[c].devices
          /\ c \in meta
          /\ c \in cdi

\* A successful VM Prepare has assigned every control domain the mode implies
\* (assignMdevControlDomains).
ControlDomainsComplete ==
    \A c \in Claims \cap mdevs :
       phase[c] = "prepared" => adm[c] = ControlDomains(spec[c])

-----------------------------------------------------------------------------
(* Action properties *)

\* SwitchToVFIOAP writes the override before it unbinds, so no step of it,
\* and no crash inside it, makes a queue invisible to recovery: only
\* SwitchToZcrypt passes through that shape.
SwitchToVFIOAPNeverInvisible ==
    [][\A q \in Queues : Invisible(q)' /\ ~Invisible(q) => pc \in {"return", "clear"}]_vars

\* When SwitchToZcrypt returns, its queue is on zcrypt or keeps the vfio_ap
\* marker, so that the startup drain retries it.
UnreturnedQueueKeepsMarker ==
    [][pc' = "return" /\ pc \in {"clear", "probe", "restore"} =>
          \A q \in Queues : q = cur => ~(Invisible(q)')]_vars

\* This step is a successful return of Unprepare.
UnprepareSucceeds ==
    /\ op = "unprepare"
    /\ op' = "none"
    /\ pc' = "idle"
    /\ phase'[claim] # "pending"

\* A successful Unprepare leaves none of the claim's own queues orphaned on
\* vfio_ap, whatever crashes interrupted the claim's earlier RPCs.  No write
\* fails here and no deadline ends: one that cuts the rebuild of a partial mdev
\* short leaves orphans that only the next drain returns.
UnprepareReturnsQueues ==
    [][UnprepareSucceeds /\ phase[claim] # "free" =>
          \A q \in spec[claim].devices : ~(Orphan(q)')]_vars

\* When Unprepare starts to return queues, or returns without, for a claim it
\* recognised as a VM claim by its mdev or by the metadata it is deleting, it
\* takes back every queue of the claim that is orphaned: those of the matrix it
\* has read or, when something else removed the mdev, those the drain finds.
UnprepareTakesAllBack ==
    [][op = "unprepare" /\ pc \in {"destroy", "drain"} /\ wasVM /\ phase[claim] # "free"
          /\ (pc' = "return" \/ UnprepareSucceeds) =>
             \A q \in spec[claim].devices : Orphan(q)' => q \in todo']_vars

\* Once driver.New has run its drain and its garbage collection, no queue is
\* left on vfio_ap without an mdev, and no CDI spec or metadata without one.
StartupReconciles ==
    [][op = "startup" /\ pc' = "idle" =>
          /\ \A q \in Queues : ~(Orphan(q)')
          /\ cdi' \cup meta' \subseteq mdevs']_vars

\* A VM Prepare that passed its checks, and every Unprepare, succeeds while the
\* node accepts its writes and the kubelet waits: what crashes left of earlier
\* calls, a queue without driver, a stale marker, an mdev short of its matrix or
\* files without one, never makes the retry fail (ensureMdevForClaim, Unprepare).
RetriedCallsSucceed ==
    [][pc' = "idle" /\ op \in {"prepare", "unprepare"} => phase'[claim] # "pending"]_vars

\* The stages an operation passes through, counted from its end.
Stage(step) ==
    CASE step = "delete_metadata" -> 8
      [] step \in {"read_matrix", "destroy_partial"} -> 7
      [] step \in {"destroy", "switch", "vfio_unbind", "vfio_probe"} -> 6
      [] step \in {"drain", "create"} -> 5
      [] step \in {"assign"} \cup ReturnSteps -> 4
      [] step \in {"gc_cdi", "control"} -> 3
      [] step \in {"gc_metadata", "metadata"} -> 2
      [] step \in {"scan", "cdi", "abandon"} -> 1
      [] step \in {"idle", "down"} -> 0

\* How far into the switch of its queue a loop is, counted from the end.
Substep ==
    CASE pc \in {"switch", "return"} -> 0
      [] pc \in {"vfio_probe", "restore"} -> 1
      [] pc \in {"vfio_unbind", "probe"} -> 2
      [] pc = "clear" -> 3

\* What the loop of this stage has still to write: to its queues, or to the mdev
\* while there is one.
Left ==
    CASE pc \in {"switch", "vfio_unbind", "vfio_probe"} \cup ReturnSteps ->
            4 * Cardinality(todo) + Substep
      [] pc = "assign" /\ claim \in mdevs ->
            Cardinality(apids(spec[claim]) \ apm[claim])
               + Cardinality(apqis(spec[claim]) \ aqm[claim])
      [] pc = "control" /\ claim \in mdevs ->
            Cardinality(ControlDomains(spec[claim]) \ adm[claim])
      [] OTHER -> 0

\* The operation is nearer to its end than before, or as near.
Nearer == Stage(pc') < Stage(pc) \/ (Stage(pc') = Stage(pc) /\ Left' < Left)
AsNear == Stage(pc') = Stage(pc) /\ Left' = Left

\* Every step of an RPC or a startup brings it nearer to its end, whatever fails
\* in it, and nothing else on the node sets it back: no rollback, drain or
\* rebuild of a partial mdev comes back to a stage it has left, and no loop
\* over queues, adapters or domains takes one up twice.
OperationsAdvance ==
    [][op # "none" => Nearer \/ (AsNear /\ ~Progress)]_vars

\* After every claim unprepare no queue is left on vfio_ap without an mdev.
UnprepareResetsOrphans ==
    [][UnprepareSucceeds => \A q \in Queues : ~(Orphan(q)')]_vars

\* The drain resets only queues that no live mdev claims.
DrainSparesClaimed ==
    [][pc = "drain" => todo' \cap Claimed(mdevs) = {}]_vars

-----------------------------------------------------------------------------
(* The inductive invariant *)

\* Which operation a step belongs to, and what the operation works on.
OperationOK ==
    /\ op = "none" <=> pc \in {"idle", "down"}
    /\ pc \in PrepareSteps => op = "prepare"
    /\ pc \in UnprepareSteps => op = "unprepare"
    /\ pc \in StartupSteps => op = "startup"
    /\ pc = "drain" => op \in {"unprepare", "startup"}
    /\ op \in {"prepare", "unprepare"} <=> claim \in Claims
    /\ op = "prepare" => /\ phase[claim] = "pending"
                         /\ MatrixConstraint(spec[claim])
                         /\ ~hasContainer(spec[claim])
    /\ pc \in {"vfio_unbind", "vfio_probe", "clear", "probe", "restore"} => cur \in Queues

\* The claim has no mdev while its queues are being switched, either way.
\* (An Unprepare that still has to remove the mdev is not in these steps.)
SwitchesWithoutMdev ==
    pc \in {"switch", "vfio_unbind", "vfio_probe"} \cup ReturnSteps \cup {"drain"} =>
       claim \notin mdevs

\* An mdev of the driver belongs to a claim the kubelet has not been told is
\* released, and its masks stay within the allocation; a foreign mdev keeps its
\* masks; an mdev that is gone has none.
MdevsOK ==
    /\ \A u \in Uuids \ mdevs : apm[u] = {} /\ aqm[u] = {} /\ adm[u] = {}
    /\ \A u \in Foreign \cap mdevs : apm[u] = ForeignApm[u] /\ aqm[u] = ForeignAqm[u]
    /\ \A c \in Claims \cap mdevs :
          /\ phase[c] \in {"pending", "prepared"}
          /\ MatrixConstraint(spec[c])
          /\ ~hasContainer(spec[c])
          /\ apm[c] \subseteq apids(spec[c])
          /\ aqm[c] \subseteq apqis(spec[c])
          /\ adm[c] \subseteq ControlDomains(spec[c])

\* The scheduler's part: no queue is allocated twice.
AllocationsDisjoint ==
    \A c, d \in Claims :
       c # d /\ phase[c] # "free" /\ phase[d] # "free" =>
          spec[c].devices \cap spec[d].devices = {}

\* What holds whatever fails.
ClaimInv == TypeOK /\ OperationOK /\ SwitchesWithoutMdev /\ MdevsOK /\ AllocationsDisjoint

\* The mdev Prepare is completing has the whole matrix, and its files so far; a
\* claim Unprepare is taking apart no longer counts as prepared.
CompletionOK ==
    /\ pc \in {"control", "metadata", "cdi"} /\ claim \in mdevs =>
          apm[claim] = apids(spec[claim]) /\ aqm[claim] = apqis(spec[claim])
    /\ pc = "cdi" => claim \in meta
    /\ op = "unprepare" => phase[claim] # "prepared"

Ready(q) == driver[q] = "vfio_ap" /\ override[q] = "vfio_ap"

\* The queues of the running Prepare: each is still to be switched, inside the
\* switch or switched and ready, and all of them are ready from the creation of
\* the mdev on.
SwitchedReady ==
    /\ pc \in {"switch", "vfio_unbind", "vfio_probe"} =>
          /\ spec[claim].devices \subseteq todo \cup switched \cup {cur}
          /\ todo \cup switched \subseteq spec[claim].devices
          /\ \A q \in switched : Ready(q) /\ q \notin todo \cup {cur}
          /\ cur \notin todo
    /\ pc \notin {"switch", "vfio_unbind", "vfio_probe"} => switched = {}
    /\ pc \notin {"vfio_unbind", "vfio_probe", "clear", "probe", "restore"} => cur = NoQueue
    /\ pc \in {"vfio_unbind", "vfio_probe"} =>
          cur \in spec[claim].devices /\ override[cur] = "vfio_ap"
    /\ pc \in {"create", "assign", "control"} => \A q \in spec[claim].devices : Ready(q)

\* The queues on their way back to zcrypt are in no mdev, except in the one
\* Unprepare is about to remove.
ReturnedUnclaimed ==
    /\ pc \in ReturnSteps => (todo \cup {cur}) \cap Claimed(mdevs) = {}
    /\ pc = "destroy" => todo \cap Claimed(mdevs \ {claim}) = {}

\* What holds unless the matrix of a live mdev cannot be read.
BindingInv == ClaimInv /\ SwitchedReady /\ ReturnedUnclaimed /\ ClaimedQueuesBound

-----------------------------------------------------------------------------
(* Liveness, under LiveSpec *)

\* No RPC and no startup runs forever: the switch, rollback, drain and assign
\* loops end whatever fails in them and whatever is removed under them.
OperationsTerminate == (pc \notin {"idle", "down"}) ~> (pc \in {"idle", "down"})

\* Once the failures stop, a claim the kubelet keeps retrying settles: whatever
\* partial mdev, half-switched queue or file the failed attempts left, a retried
\* Prepare gets past it.  (For claims the driver can serve.)
RetriesSettle ==
    FaultsCease => \A c \in Claims : (phase[c] = "pending") ~> (phase[c] # "pending")

\* A node whose driver is restarted now and then keeps no orphan, whatever
\* failed switches, rollbacks and crashes left it with: a startup drain returns
\* it or a retried Prepare claims it.
OrphansReclaimed ==
    FaultsCease /\ []<>(pc = "down") => \A q \in Queues : Orphan(q) ~> ~Orphan(q)

\* A crash mid-Unprepare costs the node no queue: a queue that Unprepare is
\* returning ends up on zcrypt, or in an mdev again.
UnprepareCrashLosesNoQueue ==
    FaultsCease =>
       \A q \in Queues :
          (op = "unprepare" /\ pc \in ReturnSteps /\ q \in todo \cup {cur})
             ~> (driver[q] = "zcrypt" \/ q \in Claimed(mdevs))

-----------------------------------------------------------------------------
(* Refinement *)

Ownership == INSTANCE QueueOwnership WITH
    alloc <- [c \in Claims |-> IF phase[c] = "free" THEN {} ELSE spec[c].devices],
    ready <- {q \in Queues : driver[q] = "vfio_ap" /\ override[q] = "vfio_ap"},
    held  <- [u \in Uuids |-> Matrix(u)]

\* The driver keeps the promise of QueueOwnership: prepare, unprepare, rollback,
\* drain and restart hand a queue to a guest only while it is allocated to it and
\* on vfio_ap, and take it back only once no mdev holds it.
KeepsOwnership == Ownership!Spec
=============================================================================
