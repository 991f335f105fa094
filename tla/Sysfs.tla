------------------------------- MODULE Sysfs -------------------------------
(***************************************************************************)
(* The sysfs surface the driver shares with the kernel: for every AP queue *)
(* the driver it is bound to and its driver_override, for every vfio_ap    *)
(* mediated device (mdev) its three assignment masks.  An AP queue is an   *)
(* APQN, the pair of an adapter (apid) and a domain (apqi).  The driver    *)
(* names the mdev of a claim after the claim's UID; Foreign holds the      *)
(* UUIDs of mediated devices it did not create.                            *)
(*                                                                         *)
(* A sysfs write or a read the code checks can fail.  Faults is the set of *)
(* failures the environment may inject; a property is checked, or proved,  *)
(* for the faults it names.                                                *)
(***************************************************************************)
EXTENDS Integers, FiniteSets

CONSTANTS
    Adapters,       \* adapter ids (apid)
    Domains,        \* domain ids (apqi)
    Queues,         \* the APQNs present on the AP bus
    Claims,         \* claim UIDs
    Foreign,        \* UUIDs of mdevs the driver did not create
    ForeignApm,     \* their adapter masks when the driver first starts
    ForeignAqm,     \* their usage domain masks
    Faults          \* the failures that may happen, a subset of FaultKinds

Uuids == Claims \cup Foreign

FaultKinds == {
    "masks",         \* the administrator restricts apmask or aqmask
    "skip_preflight",\* the driver runs with CEX_DRA_SKIP_PREFLIGHT
    "override",      \* a driver_override write fails
    "unbind",        \* a driver/unbind write fails
    "probe",         \* a drivers_probe write fails
    "create",        \* the mdev create write fails
    "assign",        \* an assign_adapter or assign_domain write fails
    "control",       \* an assign_control_domain write fails
    "remove",        \* the mdev remove write fails
    "list",          \* listing the mdevs fails
    "matrix_read",   \* reading one mdev's matrix fails (not with ENOENT)
    "override_read", \* reading one queue's driver_override fails
    "file",          \* writing or removing a CDI spec or claim metadata fails
    "deadline",      \* the kubelet's context of an RPC ends
    "vanish",        \* a scan misses the queues of some cards
    "scan",          \* the initial scan fails
    "external",      \* something else removes an mdev
    "crash" }        \* the driver process dies

ForeignQueues == UNION {ForeignApm[u] \X ForeignAqm[u] : u \in Foreign}

ASSUME SysfsAssumption ==
    /\ IsFiniteSet(Adapters)
    /\ IsFiniteSet(Domains)
    /\ Queues \subseteq Adapters \X Domains
    /\ Claims \cap Foreign = {}
    /\ ForeignApm \in [Foreign -> SUBSET Adapters]
    /\ ForeignAqm \in [Foreign -> SUBSET Domains]
    /\ ForeignQueues \subseteq Queues
    /\ \A u, v \in Foreign :
          u # v => (ForeignApm[u] \X ForeignAqm[u]) \cap (ForeignApm[v] \X ForeignAqm[v]) = {}
    /\ Faults \subseteq FaultKinds

VARIABLES
    driver,     \* [Queues -> Drivers]: what the driver symlink names
    override,   \* [Queues -> Overrides]: the driver_override attribute
    mdevs,      \* the mdevs that exist
    apm,        \* [Uuids -> SUBSET Adapters]: assigned adapters
    aqm,        \* [Uuids -> SUBSET Domains]: assigned usage domains
    adm,        \* [Uuids -> SUBSET Domains]: assigned control domains
    masked      \* TRUE while apmask or aqmask has a clear bit (of a queue
                \* other than these: only the ban on overrides is modelled)

queueVars == <<driver, override>>
mdevVars == <<mdevs, apm, aqm, adm>>
sysfsVars == <<driver, override, mdevs, apm, aqm, adm, masked>>

Drivers == {"zcrypt", "vfio_ap", "none"}
NoOverride == ""
Overrides == {NoOverride, "vfio_ap"}

SysfsTypeOK ==
    /\ driver \in [Queues -> Drivers]
    /\ override \in [Queues -> Overrides]
    /\ mdevs \subseteq Uuids
    /\ apm \in [Uuids -> SUBSET Adapters]
    /\ aqm \in [Uuids -> SUBSET Domains]
    /\ adm \in [Uuids -> SUBSET Domains]
    /\ masked \in BOOLEAN

\* A node before the driver first runs.  Queues are on zcrypt or detached by
\* the administrator, except the ones passed through by a foreign mdev.
SysfsInit ==
    /\ driver \in [Queues -> Drivers]
    /\ \A q \in Queues : driver[q] = "vfio_ap" <=> q \in ForeignQueues
    /\ override = [q \in Queues |-> IF q \in ForeignQueues THEN "vfio_ap" ELSE NoOverride]
    /\ mdevs = Foreign
    /\ apm = [u \in Uuids |-> IF u \in Foreign THEN ForeignApm[u] ELSE {}]
    /\ aqm = [u \in Uuids |-> IF u \in Foreign THEN ForeignAqm[u] ELSE {}]
    /\ adm = [u \in Uuids |-> {}]
    /\ masked = FALSE

-----------------------------------------------------------------------------
(* What the kernel reports *)

\* The matrix attribute of an mdev: every assigned adapter with every
\* assigned usage domain.
Matrix(u) == apm[u] \X aqm[u]

\* The queues some mdev of the set us claims.
Claimed(us) == UNION {Matrix(u) : u \in us}

\* Nobody can tell this queue from one an administrator detached: it serves
\* no driver and carries no marker.
Invisible(q) == driver[q] = "none" /\ override[q] = NoOverride

\* The shape the drain reclaims.
Orphan(q) == override[q] = "vfio_ap" /\ q \notin Claimed(mdevs)

-----------------------------------------------------------------------------
(* What the kernel does on a write *)

\* A driver_override write.  The override and the masks exclude each other:
\* while a mask is restricted every such write is EINVAL.
OverrideAccepted(ok) == ok /\ ~masked

\* drivers_probe binds q to the driver its override names, to zcrypt without.
Probed(q) == IF override[q] = "vfio_ap" THEN "vfio_ap" ELSE "zcrypt"

RemoveMdev(u) ==
    /\ mdevs' = mdevs \ {u}
    /\ apm' = [apm EXCEPT ![u] = {}]
    /\ aqm' = [aqm EXCEPT ![u] = {}]
    /\ adm' = [adm EXCEPT ![u] = {}]

\* The outcome of an operation that fails only when kind is injected.
Outcome(ok, kind) == ok \/ kind \in Faults
=============================================================================
