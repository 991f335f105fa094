--------------------------- MODULE QueueOwnership ---------------------------
(***************************************************************************)
(* What the driver promises about the AP queues of a node, without how it  *)
(* keeps the promise: which queues are allocated to a claim, which are     *)
(* ready for passthrough, and which each mediated device holds.  A queue   *)
(* is handed to a guest only while it is ready and allocated to that       *)
(* guest's claim, and it is taken back by the host only after the mediated *)
(* device has let go of it.                                                *)
(***************************************************************************)
CONSTANTS
    Queues,
    Claims,
    Uuids       \* the mediated devices there can be; Claims among them

VARIABLES
    alloc,      \* [Claims -> SUBSET Queues]: {} for a claim not allocated
    ready,      \* the queues on vfio_ap that carry the vfio_ap override
    held        \* [Uuids -> SUBSET Queues]: the queues in an mdev's matrix

vars == <<alloc, ready, held>>

Held == UNION {held[u] : u \in Uuids}

Init ==
    /\ alloc = [c \in Claims |-> {}]
    /\ ready \subseteq Queues
    /\ held \in [Uuids -> SUBSET ready]
    /\ \A u, v \in Uuids : u # v => held[u] \cap held[v] = {}
    /\ \A c \in Claims : held[c] = {}

\* The scheduler gives queues nobody else holds to a claim.
Allocate(c, qs) ==
    /\ alloc[c] = {}
    /\ \A d \in Claims : alloc[d] \cap qs = {}
    /\ \A u \in Uuids : held[u] \cap qs = {}
    /\ alloc' = [alloc EXCEPT ![c] = qs]
    /\ UNCHANGED <<ready, held>>

Deallocate(c) ==
    /\ held[c] = {}
    /\ alloc' = [alloc EXCEPT ![c] = {}]
    /\ UNCHANGED <<ready, held>>

MakeReady(q) ==
    /\ ready' = ready \cup {q}
    /\ UNCHANGED <<alloc, held>>

\* The host takes a queue back, or begins to: no mdev may hold it.
TakeBack(q) ==
    /\ q \notin Held
    /\ ready' = ready \ {q}
    /\ UNCHANGED <<alloc, held>>

\* A claim's mdev gets more of the claim's queues.
Grant(c, qs) ==
    /\ qs \subseteq ready \cap alloc[c]
    /\ held' = [held EXCEPT ![c] = @ \cup qs]
    /\ UNCHANGED <<alloc, ready>>

\* An mdev goes away.
Revoke(u) ==
    /\ held' = [held EXCEPT ![u] = {}]
    /\ UNCHANGED <<alloc, ready>>

Next ==
    \/ \E c \in Claims, qs \in SUBSET Queues : Allocate(c, qs) \/ Grant(c, qs)
    \/ \E c \in Claims : Deallocate(c)
    \/ \E q \in Queues : MakeReady(q) \/ TakeBack(q)
    \/ \E u \in Uuids : Revoke(u)

Spec == Init /\ [][Next]_vars
=============================================================================
