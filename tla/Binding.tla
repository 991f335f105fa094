------------------------------ MODULE Binding ------------------------------
(***************************************************************************)
(* The per-queue driver switches and the drain (internal/binding), and the *)
(* loop of internal/devicestate that switches a claim's queues with        *)
(* rollback.  Every sysfs write is one step: the process can die, and      *)
(* another process can remove an mdev, between any two of them.            *)
(*                                                                         *)
(* One operation at a time runs here.  op names it (a Prepare, an          *)
(* Unprepare, or the startup sequence) and pc its next step.  An action's  *)
(* parameter ok says whether the write it models succeeds.                 *)
(***************************************************************************)
EXTENDS Sysfs

CONSTANT NoQueue

ASSUME NoQueueAssumption == NoQueue \notin Queues

VARIABLES
    pc,         \* the next step of the running operation
    op,         \* the running operation
    todo,       \* the queues the running loop has still to switch
    switched,   \* switchedAPQNs of switchQueuesToVFIOAP
    cur         \* the queue inside a switch

bindingVars == <<pc, op, todo, switched, cur>>

Ops == {"none", "prepare", "unprepare", "startup"}

BindingTypeOK ==
    /\ op \in Ops
    /\ todo \subseteq Queues
    /\ switched \subseteq Queues
    /\ cur \in Queues \cup {NoQueue}

-----------------------------------------------------------------------------
(* switchQueuesToVFIOAP and SwitchToVFIOAP *)

\* Abort: hand the given queues to SwitchToZcrypt, one after the other.
Rollback(queues) ==
    /\ pc' = "return"
    /\ todo' = queues
    /\ switched' = {}
    /\ cur' = NoQueue

\* The context has ended when the loop looks at it, before the next switch.
SwitchDeadline ==
    /\ pc = "switch"
    /\ todo # {}
    /\ "deadline" \in Faults
    /\ Rollback(switched)
    /\ UNCHANGED <<op, sysfsVars>>

\* Mutant: the queue is unbound before its override is written.
SetOverrideAfterUnbind(q, ok) ==
    /\ pc = "switch"
    /\ q \in todo
    /\ Outcome(ok, "override")
    /\ driver' = [driver EXCEPT ![q] = "none"]
    /\ IF OverrideAccepted(ok)
       THEN /\ pc' = "vfio_unbind"
            /\ todo' = todo \ {q}
            /\ cur' = q
            /\ UNCHANGED switched
       ELSE Rollback(switched \cup {q})
    /\ UNCHANGED <<op, override, mdevVars, masked>>

\* The loop takes its next queue, in the random order of a Go map, and
\* writes the override: the first write of SwitchToVFIOAP.
SetOverride(q, ok) ==
    /\ pc = "switch"
    /\ q \in todo
    /\ Outcome(ok, "override")
    /\ IF OverrideAccepted(ok)
       THEN /\ override' = [override EXCEPT ![q] = "vfio_ap"]
            /\ pc' = "vfio_unbind"
            /\ todo' = todo \ {q}
            /\ cur' = q
            /\ UNCHANGED switched
       ELSE /\ Rollback(switched \cup {q})
            /\ UNCHANGED override
    /\ UNCHANGED <<op, driver, mdevVars, masked>>

\* Mutant: ENOENT is an error like any other.
UnbindSucceedsOnlyBound(q, ok) == ok /\ driver[q] # "none"

\* unbindQueue: unbinding a queue with no driver is ENOENT, which is success.
UnbindSucceeds(q, ok) == ok \/ driver[q] = "none"

UnbindForVFIOAP(ok) ==
    /\ pc = "vfio_unbind"
    /\ Outcome(ok, "unbind")
    /\ IF UnbindSucceeds(cur, ok)
       THEN /\ driver' = [driver EXCEPT ![cur] = "none"]
            /\ pc' = "vfio_probe"
            /\ UNCHANGED <<todo, switched, cur>>
       ELSE /\ Rollback(switched \cup {cur})
            /\ UNCHANGED driver
    /\ UNCHANGED <<op, override, mdevVars, masked>>

ProbeForVFIOAP(ok) ==
    /\ pc = "vfio_probe"
    /\ Outcome(ok, "probe")
    /\ IF ok
       THEN /\ driver' = [driver EXCEPT ![cur] = Probed(cur)]
            /\ pc' = "switch"
            /\ switched' = switched \cup {cur}
            /\ cur' = NoQueue
            /\ UNCHANGED todo
       ELSE /\ Rollback(switched \cup {cur})
            /\ UNCHANGED driver
    /\ UNCHANGED <<op, override, mdevVars, masked>>

\* Every queue is switched: the loop ends and the mdev is created next.
SwitchDone ==
    /\ pc = "switch"
    /\ todo = {}
    /\ pc' = "create"
    /\ switched' = {}
    /\ UNCHANGED <<op, todo, cur, sysfsVars>>

-----------------------------------------------------------------------------
(* SwitchToZcrypt, called in a loop that ignores its errors: by the rollback *)
(* above, by Unprepare and by the drain.                                     *)

\* SwitchToZcrypt returns, with or without an error, to its loop.
BackToLoop ==
    /\ pc' = "return"
    /\ cur' = NoQueue

UnbindForZcrypt(q, ok) ==
    /\ pc = "return"
    /\ q \in todo
    /\ Outcome(ok, "unbind")
    /\ todo' = todo \ {q}
    /\ IF UnbindSucceeds(q, ok)
       THEN /\ driver' = [driver EXCEPT ![q] = "none"]
            /\ pc' = "clear"
            /\ cur' = q
       ELSE /\ BackToLoop
            /\ UNCHANGED driver
    /\ UNCHANGED <<op, switched, override, mdevVars, masked>>

ClearOverride(ok) ==
    /\ pc = "clear"
    /\ Outcome(ok, "override")
    /\ IF OverrideAccepted(ok)
       THEN /\ override' = [override EXCEPT ![cur] = NoOverride]
            /\ pc' = "probe"
            /\ UNCHANGED cur
       ELSE /\ BackToLoop
            /\ UNCHANGED override
    /\ UNCHANGED <<op, todo, switched, driver, mdevVars, masked>>

ProbeForZcrypt(ok) ==
    /\ pc = "probe"
    /\ Outcome(ok, "probe")
    /\ IF ok
       THEN /\ driver' = [driver EXCEPT ![cur] = Probed(cur)]
            /\ BackToLoop
       ELSE /\ pc' = "restore"
            /\ UNCHANGED <<driver, cur>>
    /\ UNCHANGED <<op, todo, switched, override, mdevVars, masked>>

\* Mutant: the marker is not put back.
RestoreMarkerForgotten(ok) ==
    /\ pc = "restore"
    /\ Outcome(ok, "override")
    /\ BackToLoop
    /\ UNCHANGED <<op, todo, switched, queueVars, mdevVars, masked>>

\* Mutant: the driver's name is misspelled.
RestoreMarkerMisspelled(ok) ==
    /\ pc = "restore"
    /\ Outcome(ok, "override")
    /\ override' = IF OverrideAccepted(ok)
                   THEN [override EXCEPT ![cur] = "vfio-ap"]
                   ELSE override
    /\ BackToLoop
    /\ UNCHANGED <<op, todo, switched, driver, mdevVars, masked>>

\* The probe failed: the marker is put back, best-effort.
RestoreMarker(ok) ==
    /\ pc = "restore"
    /\ Outcome(ok, "override")
    /\ override' = IF OverrideAccepted(ok)
                   THEN [override EXCEPT ![cur] = "vfio_ap"]
                   ELSE override
    /\ BackToLoop
    /\ UNCHANGED <<op, todo, switched, driver, mdevVars, masked>>

-----------------------------------------------------------------------------
(* DrainOrphanedVFIOAP *)

\* Mutant: only the driver's own mdevs count.
liveAPQNsOwn(unread) == Claimed((mdevs \cap Claims) \ unread)

\* liveAPQNs, when the matrices of the mdevs in unread cannot be read: such
\* an mdev is skipped with a warning.
liveAPQNs(unread) == Claimed(mdevs \ unread)

\* Mutant: a queue with a marker and no driver is left alone.
DrainedBound(live, unread) ==
    {q \in Queues \ unread :
        override[q] = "vfio_ap" /\ driver[q] = "vfio_ap" /\ q \notin live}

\* The queues a drain resets, when the override of the queues in unread
\* cannot be read.  Only the drain itself changes an override while it runs,
\* so reading all of them at once is reading each before its switch.
Drained(live, unread) ==
    {q \in Queues \ unread : override[q] = "vfio_ap" /\ q \notin live}

\* The drain fixes the queues it will reset; the loop above resets them.  When
\* the mdevs cannot be listed it aborts, and its caller only logs that.
DrainOrphanedVFIOAP ==
    /\ pc = "drain"
    /\ \/ "list" \in Faults /\ todo' = {}
       \/ \E mdevsUnread \in IF "matrix_read" \in Faults THEN SUBSET mdevs ELSE {{}},
             queuesUnread \in IF "override_read" \in Faults THEN SUBSET Queues ELSE {{}} :
             todo' = Drained(liveAPQNs(mdevsUnread), queuesUnread)
    /\ pc' = "return"
    /\ UNCHANGED <<op, switched, cur, sysfsVars>>

SwitchStep(ok) ==
    \/ \E q \in Queues : SetOverride(q, ok) \/ UnbindForZcrypt(q, ok)
    \/ UnbindForVFIOAP(ok)
    \/ ProbeForVFIOAP(ok)
    \/ ClearOverride(ok)
    \/ ProbeForZcrypt(ok)
    \/ RestoreMarker(ok)
=============================================================================
