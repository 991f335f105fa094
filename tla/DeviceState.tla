---------------------------- MODULE DeviceState ----------------------------
(***************************************************************************)
(* Prepare and Unprepare of one claim (internal/devicestate), with what    *)
(* they leave on disk (internal/cdi, internal/metadata) and in the mdevs   *)
(* (internal/mdev).  Both run under the state lock from start to end and   *)
(* the plugin helper serialises the RPCs, so at most one of them is in     *)
(* progress; claim is the claim it works on.                               *)
(***************************************************************************)
EXTENDS Binding, CryptoConfig

CONSTANTS
    NoClaim,
    Specs,      \* the claims (spec and allocation) users and scheduler produce
    GateSets    \* the sets of workload feature gates an operator enables

DeviceClassVM == "ap-queue.virtual-machine.ibm.com"
DeviceClassContainer == "ap-queue.container.ibm.com"
WorkloadGates == {"VirtualMachineWorkload", "ContainerWorkload"}

\* What Prepare reads of a claim: whether every request of an allocation
\* result of this driver is in the spec with an exactly clause, the device
\* classes of those requests, the configuration entries, the allocated queues.
ClaimSpec == [exactly: BOOLEAN, classes: SUBSET STRING,
              configs: Seq(ConfigEntry), devices: SUBSET Queues]

ASSUME DeviceStateAssumption ==
    /\ NoClaim \notin Uuids
    /\ Specs \subseteq ClaimSpec
    /\ Specs # {}
    /\ \A s \in Specs : s.devices # {} /\ s.devices \cap ForeignQueues = {}
    /\ GateSets \subseteq (SUBSET WorkloadGates) \ {{}}

VARIABLES
    phase,       \* [Claims -> Phases]: the claim as scheduler and kubelet see it
    spec,        \* [Claims -> Specs]: its spec and allocation, unless free
    claim,       \* the claim of the running RPC
    wasVM,       \* Unprepare's local of that name
    meta,        \* the claims with a metadata directory
    cdi,         \* the claims with a CDI spec file
    allocatable, \* the queues of the last published scan
    gates        \* the workload gates of the running process

claimVars == <<phase, spec, claim, wasVM, meta, cdi, allocatable, gates>>

\* free: not allocated.  allocated: nothing of it is on the node as far as the
\* kubelet knows.  pending: an RPC is running or has failed, so the kubelet
\* must retry or unprepare.  prepared: the last RPC was a successful Prepare.
Phases == {"free", "allocated", "pending", "prepared"}

\* The steps of the three operations.
PrepareSteps == {"destroy_partial", "switch", "vfio_unbind", "vfio_probe", "create",
                 "assign", "control", "abandon", "metadata", "cdi"}
UnprepareSteps == {"delete_metadata", "read_matrix", "destroy"}
ReturnSteps == {"return", "clear", "probe", "restore"}
StartupSteps == {"gc_cdi", "gc_metadata", "scan"}
Steps == PrepareSteps \cup UnprepareSteps \cup ReturnSteps \cup StartupSteps
            \cup {"drain", "idle", "down"}

DeviceStateTypeOK ==
    /\ pc \in Steps
    /\ phase \in [Claims -> Phases]
    /\ spec \in [Claims -> Specs]
    /\ claim \in Claims \cup {NoClaim}
    /\ wasVM \in BOOLEAN
    /\ meta \subseteq Claims
    /\ cdi \subseteq Claims
    /\ allocatable \subseteq Queues
    /\ gates \subseteq WorkloadGates

-----------------------------------------------------------------------------
(* What Prepare derives from the claim *)

hasVM(s) == DeviceClassVM \in s.classes
hasContainer(s) == DeviceClassContainer \in s.classes

\* The claim passes every check ahead of the binding split.
Accepted(s) ==
    /\ s.exactly
    /\ s.classes \subseteq {DeviceClassVM, DeviceClassContainer}
    /\ ~(hasVM(s) /\ hasContainer(s))
    /\ hasContainer(s) => "ContainerWorkload" \in gates
    /\ hasVM(s) => "VirtualMachineWorkload" \in gates
    /\ Resolves(s.configs)

apids(s) == {q[1] : q \in s.devices}
apqis(s) == {q[2] : q \in s.devices}

\* Mutant: any allocation is accepted.
MatrixConstraintDropped(s) == TRUE

\* The matrix constraint of collectAllocatedAPQNs.
MatrixConstraint(s) ==
    Cardinality(apids(s)) * Cardinality(apqis(s)) = Cardinality(s.devices)

\* A VM claim that reaches ensureMdevForClaim and passes collectAllocatedAPQNs.
ServableVM(s) ==
    /\ Accepted(s)
    /\ ~hasContainer(s)
    /\ ValidateControlDomainMode(Resolve(s.configs))
    /\ s.devices \subseteq allocatable
    /\ MatrixConstraint(s)

\* The control domains assignMdevControlDomains assigns.
ControlDomains(s) ==
    IF Resolve(s.configs) = UsageOnly THEN {} ELSE apqis(s)

-----------------------------------------------------------------------------
(* Return of the running operation *)

\* Nothing is running; p is what the kubelet now knows of the claim.
Finish(p) ==
    /\ pc' = "idle"
    /\ op' = "none"
    /\ claim' = NoClaim
    /\ wasVM' = FALSE
    /\ todo' = {}
    /\ switched' = {}
    /\ cur' = NoQueue
    /\ phase' = IF claim \in Claims THEN [phase EXCEPT ![claim] = p] ELSE phase

\* What a successful Unprepare makes of the claim's phase.
Released == IF phase[claim] = "free" THEN "free" ELSE "allocated"

\* The operation goes on with step next.
GoTo(next) ==
    /\ pc' = next
    /\ UNCHANGED <<op, todo, switched, cur, phase, claim, wasVM>>

fileVars == <<meta, cdi>>
fixedVars == <<spec, allocatable, gates>>

-----------------------------------------------------------------------------
(* Prepare *)

\* An RPC of the kubelet finds the driver idle and takes the state lock.
Begins(c) == pc = "idle" /\ phase[c] # "free"

\* The claim fails a check, or the context ends before the lock is taken:
\* nothing is touched.
PrepareRejects(c) ==
    /\ Begins(c)
    /\ \/ "deadline" \in Faults
       \/ ~Accepted(spec[c])
       \/ hasContainer(spec[c]) /\ ~(spec[c].devices \subseteq allocatable)
       \/ ~hasContainer(spec[c]) /\ ~ServableVM(spec[c])
    /\ phase' = [phase EXCEPT ![c] = "pending"]
    /\ UNCHANGED <<sysfsVars, bindingVars, claim, wasVM, fileVars, fixedVars>>

\* A container claim binds no queue.
PrepareContainer(c) ==
    /\ Begins(c)
    /\ Accepted(spec[c])
    /\ hasContainer(spec[c])
    /\ spec[c].devices \subseteq allocatable
    /\ phase' = [phase EXCEPT ![c] = "prepared"]
    /\ UNCHANGED <<sysfsVars, bindingVars, claim, wasVM, fileVars, fixedVars>>

\* Mutant: an mdev that exists is taken to be complete.
PrepareVMOnExistence(c) ==
    /\ Begins(c)
    /\ ServableVM(spec[c])
    /\ phase' = [phase EXCEPT ![c] = "pending"]
    /\ op' = "prepare"
    /\ claim' = c
    /\ IF c \notin mdevs
       THEN pc' = "switch" /\ todo' = spec[c].devices
       ELSE pc' = "metadata" /\ UNCHANGED todo
    /\ UNCHANGED <<sysfsVars, switched, cur, wasVM, fileVars, fixedVars>>

\* ensureMdevForClaim up to its first write.
PrepareVM(c) ==
    /\ Begins(c)
    /\ ServableVM(spec[c])
    /\ phase' = [phase EXCEPT ![c] = "pending"]
    /\ op' = "prepare"
    /\ claim' = c
    /\ IF c \notin mdevs
       THEN /\ pc' = "switch"
            /\ todo' = spec[c].devices
       ELSE /\ pc' = IF Matrix(c) = spec[c].devices THEN "metadata" ELSE "destroy_partial"
            /\ UNCHANGED todo
    /\ UNCHANGED <<sysfsVars, switched, cur, wasVM, fileVars, fixedVars>>

\* mdevMatrixEquals fails on the mdev that Exists has just seen: its matrix
\* cannot be read, or something removes the mdev in between.
PrepareUnread(c) ==
    /\ Begins(c)
    /\ ServableVM(spec[c])
    /\ c \in mdevs
    /\ \/ "matrix_read" \in Faults /\ UNCHANGED mdevVars
       \/ "external" \in Faults /\ RemoveMdev(c)
    /\ phase' = [phase EXCEPT ![c] = "pending"]
    /\ UNCHANGED <<queueVars, masked, bindingVars, claim, wasVM, fileVars, fixedVars>>

\* mdev.Destroy of the running claim: nothing to do when the mdev is gone.
DestroySucceeds(ok) == ok \/ claim \notin mdevs

\* It fails when the remove write does, or when something removes the mdev
\* between Exists and that write.
Destroy(ok) ==
    IF DestroySucceeds(ok)
    THEN RemoveMdev(claim)
    ELSE \/ "remove" \in Faults /\ UNCHANGED mdevVars
         \/ "external" \in Faults /\ RemoveMdev(claim)

DestroyPartial(ok) ==
    /\ pc = "destroy_partial"
    /\ Destroy(ok)
    /\ IF DestroySucceeds(ok)
       THEN /\ pc' = "switch"
            /\ todo' = spec[claim].devices
            /\ UNCHANGED <<op, switched, cur, phase, claim, wasVM>>
       ELSE Finish("pending")
    /\ UNCHANGED <<queueVars, masked, fileVars, fixedVars>>

CreateMdev(ok) ==
    /\ pc = "create"
    /\ Outcome(ok, "create")
    /\ IF ok
       THEN /\ mdevs' = mdevs \cup {claim}
            /\ GoTo("assign")
       ELSE /\ Finish("pending")
            /\ UNCHANGED mdevs
    /\ UNCHANGED <<queueVars, masked, apm, aqm, adm, fileVars, fixedVars>>

\* Every assign write needs the mdev; it fails when something removed it.
AssignSucceeds(ok) == ok /\ claim \in mdevs

\* assignMdevMatrix: the adapters first, then the domains.
AssignAdapter(a, ok) ==
    /\ pc = "assign"
    /\ a \in apids(spec[claim]) \ apm[claim]
    /\ Outcome(ok, "assign")
    /\ IF AssignSucceeds(ok)
       THEN apm' = [apm EXCEPT ![claim] = @ \cup {a}] /\ GoTo("assign")
       ELSE UNCHANGED apm /\ GoTo("abandon")
    /\ UNCHANGED <<queueVars, masked, mdevs, aqm, adm, fileVars, fixedVars>>

AssignDomain(d, ok) ==
    /\ pc = "assign"
    /\ apids(spec[claim]) = apm[claim]
    /\ d \in apqis(spec[claim]) \ aqm[claim]
    /\ Outcome(ok, "assign")
    /\ IF AssignSucceeds(ok)
       THEN /\ aqm' = [aqm EXCEPT ![claim] = @ \cup {d}]
            /\ GoTo(IF aqm'[claim] # apqis(spec[claim]) THEN "assign"
                    ELSE IF ControlDomains(spec[claim]) # {} THEN "control"
                    ELSE "metadata")
       ELSE UNCHANGED aqm /\ GoTo("abandon")
    /\ UNCHANGED <<queueVars, masked, mdevs, apm, adm, fileVars, fixedVars>>

\* assignMdevControlDomains.
AssignControlDomain(d, ok) ==
    /\ pc = "control"
    /\ d \in ControlDomains(spec[claim]) \ adm[claim]
    /\ Outcome(ok, "control")
    /\ IF AssignSucceeds(ok)
       THEN /\ adm' = [adm EXCEPT ![claim] = @ \cup {d}]
            /\ GoTo(IF adm'[claim] # ControlDomains(spec[claim])
                    THEN "control" ELSE "metadata")
       ELSE UNCHANGED adm /\ GoTo("abandon")
    /\ UNCHANGED <<queueVars, masked, mdevs, apm, aqm, fileVars, fixedVars>>

\* Mutant: the half-built mdev is left behind.
DestroyPartialMdevKept(ok) ==
    /\ pc = "abandon"
    /\ Outcome(ok, "remove")
    /\ Finish("pending")
    /\ UNCHANGED <<sysfsVars, fileVars, fixedVars>>

\* destroyPartialMdev after a failed assign; the queues stay where they are.
DestroyPartialMdev(ok) ==
    /\ pc = "abandon"
    /\ Destroy(ok)
    /\ Finish("pending")
    /\ UNCHANGED <<queueVars, masked, fileVars, fixedVars>>

\* GenerateClaimMetadata.  A failed write may leave the directory behind.
GenerateClaimMetadata(ok) ==
    /\ pc = "metadata"
    /\ Outcome(ok, "file")
    /\ IF ok
       THEN meta' = meta \cup {claim} /\ GoTo("cdi")
       ELSE meta' \in {meta, meta \cup {claim}} /\ Finish("pending")
    /\ UNCHANGED <<sysfsVars, cdi, fixedVars>>

\* GenerateClaimSpec reads the mdev's iommu_group first.  A failed write may
\* leave the file behind.
GenerateClaimSpec(ok) ==
    /\ pc = "cdi"
    /\ Outcome(ok, "file")
    /\ \/ claim \notin mdevs /\ UNCHANGED cdi /\ Finish("pending")
       \/ /\ claim \in mdevs
          /\ IF ok
             THEN cdi' = cdi \cup {claim} /\ Finish("prepared")
             ELSE cdi' \in {cdi, cdi \cup {claim}} /\ Finish("pending")
    /\ UNCHANGED <<sysfsVars, meta, fixedVars>>

-----------------------------------------------------------------------------
(* Unprepare *)

\* The kubelet may ask for any claim, at any time.  The call ends here when
\* the context ends before the lock is taken or the CDI spec stays.
UnprepareBegins(c, ok) ==
    /\ pc = "idle"
    /\ ok \/ {"deadline", "file"} \cap Faults # {}
    /\ phase' = IF phase[c] = "prepared" THEN [phase EXCEPT ![c] = "pending"] ELSE phase
    /\ IF ok
       THEN /\ wasVM' = (c \in mdevs \/ c \in meta)
            /\ cdi' = cdi \ {c}
            /\ pc' = "delete_metadata"
            /\ op' = "unprepare"
            /\ claim' = c
       ELSE UNCHANGED <<pc, op, claim, wasVM, cdi>>
    /\ UNCHANGED <<sysfsVars, todo, switched, cur, meta, fixedVars>>

\* DeleteClaimMetadata, whose error is only logged.
DeleteClaimMetadata(ok) ==
    /\ pc = "delete_metadata"
    /\ Outcome(ok, "file")
    /\ meta' = IF ok THEN meta \ {claim} ELSE meta
    /\ GoTo("read_matrix")
    /\ UNCHANGED <<sysfsVars, cdi, fixedVars>>

\* Mutant: the queues are switched back under the live mdev.
ReadMatrixThenReturn(ok) ==
    /\ pc = "read_matrix"
    /\ Outcome(ok, "matrix_read")
    /\ todo' = IF ok /\ claim \in mdevs THEN Matrix(claim) ELSE {}
    /\ pc' = "return"
    /\ UNCHANGED <<op, switched, cur, sysfsVars, phase, claim, wasVM, fileVars, fixedVars>>

\* apqns, kept in todo: empty when there is no mdev or its matrix is unreadable.
ReadMatrix(ok) ==
    /\ pc = "read_matrix"
    /\ Outcome(ok, "matrix_read")
    /\ todo' = IF ok /\ claim \in mdevs THEN Matrix(claim) ELSE {}
    /\ pc' = "destroy"
    /\ UNCHANGED <<op, switched, cur, sysfsVars, phase, claim, wasVM, fileVars, fixedVars>>

\* Mutant: a failed Destroy is only logged.
UnprepareDestroyIgnored(ok) ==
    /\ pc = "destroy"
    /\ Destroy(ok)
    /\ CASE todo # {} -> GoTo("return")
         [] todo = {} /\ wasVM -> GoTo("drain")
         [] OTHER -> Finish(Released)
    /\ UNCHANGED <<queueVars, masked, fileVars, fixedVars>>

\* Mutant: no reconcile when the matrix is gone.
UnprepareDestroyNoDrain(ok) ==
    /\ pc = "destroy"
    /\ Destroy(ok)
    /\ CASE ~DestroySucceeds(ok) -> Finish("pending")
         [] DestroySucceeds(ok) /\ todo # {} -> GoTo("return")
         [] OTHER -> Finish(Released)
    /\ UNCHANGED <<queueVars, masked, fileVars, fixedVars>>

\* mdev.Destroy, then the three ways to bring the queues back.
UnprepareDestroy(ok) ==
    /\ pc = "destroy"
    /\ Destroy(ok)
    /\ CASE ~DestroySucceeds(ok) -> Finish("pending")
         [] DestroySucceeds(ok) /\ todo # {} -> GoTo("return")
         [] DestroySucceeds(ok) /\ todo = {} /\ wasVM -> GoTo("drain")
         [] OTHER -> Finish(Released)
    /\ UNCHANGED <<queueVars, masked, fileVars, fixedVars>>

\* Mutant: Unprepare drains until no orphan is left.
ReturnDoneUntilClean ==
    /\ pc = "return"
    /\ todo = {}
    /\ CASE op = "prepare" -> Finish("pending")
         [] op = "unprepare" /\ (\E q \in Queues : Orphan(q)) -> GoTo("drain")
         [] op = "unprepare" /\ ~(\E q \in Queues : Orphan(q)) -> Finish(Released)
         [] OTHER -> GoTo("gc_cdi")
    /\ UNCHANGED <<sysfsVars, fileVars, fixedVars>>

\* Every loop over SwitchToZcrypt has ended: a rolled back Prepare fails, an
\* Unprepare succeeds, the startup goes on.
ReturnDone ==
    /\ pc = "return"
    /\ todo = {}
    /\ CASE op = "prepare" -> Finish("pending")
         [] op = "unprepare" -> Finish(Released)
         [] OTHER -> GoTo("gc_cdi")
    /\ UNCHANGED <<sysfsVars, fileVars, fixedVars>>
=============================================================================
