--------------------------- MODULE DriverRecovery ---------------------------
(***************************************************************************)
(* What the driver's recovery rests on: the shapes a queue passes through, *)
(* and where the queues are that are on vfio_ap without an mdev.           *)
(***************************************************************************)
EXTENDS DriverBindings, DriverServes

USE DEF vars, sysfsVars, queueVars, mdevVars, bindingVars, claimVars, fileVars, fixedVars

-----------------------------------------------------------------------------
(* The shapes a queue passes through *)

\* What ties a switch in progress to its queues needs no matrix to be read.
LEMMA SwitchedSafe == Spec => []SwitchedReady
<1>1. Init => SwitchedReady
  BY Zenon DEF Init, SwitchedReady
<1>2. SwitchedReady /\ UNCHANGED vars => SwitchedReady'
  BY DEF SwitchedReady, Ready
<1>3. ClaimInv /\ SwitchedReady /\ [Next]_vars => SwitchedReady'
  BY Zenon, <1>2, SwitchedStep
<1> QED
  BY <1>1, <1>3, ClaimsSafe, PTL DEF Spec

\* The empty override is not the marker.
LEMMA NoOverrideDiffers == NoOverride # "vfio_ap"
BY Zenon DEF NoOverride

\* SwitchToVFIOAP never makes a queue invisible to recovery, whatever fails and
\* wherever the process dies: only SwitchToZcrypt passes through that shape.
THEOREM OnlyReturnsHide == Spec => SwitchToVFIOAPNeverInvisible
<1> DEFINE Hides == \A q \in Queues : Invisible(q)' /\ ~Invisible(q) => pc \in {"return", "clear"}
<1>1. ASSUME ClaimInv, SwitchedReady, Next
      PROVE  Hides
  <2> SUFFICES ASSUME NEW q \in Queues, Invisible(q)', ~Invisible(q)
               PROVE  pc \in {"return", "clear"}
    OBVIOUS
  <2>a. driver \in [Queues -> Drivers] /\ override \in [Queues -> Overrides]
    BY <1>1 DEF ClaimInv, TypeOK, SysfsTypeOK
  <2>b. driver'[q] = "none" /\ override'[q] = NoOverride
    BY Zenon DEF Invisible
  <2>1. ASSUME NEW x \in Queues, NEW ok \in BOOLEAN, SetOverride(x, ok)
        PROVE  FALSE
    <3>1. driver' = driver
      BY Zenon, <2>1 DEF SetOverride
    <3>2. override'[q] \in {override[q], "vfio_ap"}
      BY <2>1, <2>a DEF SetOverride
    <3> QED
      BY <2>b, <3>1, <3>2, NoOverrideDiffers DEF Invisible
  <2>2. ASSUME NEW ok \in BOOLEAN, UnbindForVFIOAP(ok)
        PROVE  FALSE
    <3>1. override[cur] = "vfio_ap" /\ override' = override
      BY Zenon, <1>1, <2>2 DEF UnbindForVFIOAP, SwitchedReady
    <3>2. q # cur
      BY Zenon, <2>b, <3>1, NoOverrideDiffers
    <3>3. driver'[q] = driver[q]
      BY <2>2, <2>a, <3>2 DEF UnbindForVFIOAP
    <3> QED
      BY Zenon, <2>b, <3>1, <3>3 DEF Invisible
  <2>3. ASSUME NEW ok \in BOOLEAN, ProbeForVFIOAP(ok) \/ ProbeForZcrypt(ok)
        PROVE  FALSE
    <3>1. driver'[q] \in {driver[q], "zcrypt", "vfio_ap"} /\ override' = override
      BY <2>3, <2>a DEF ProbeForVFIOAP, ProbeForZcrypt, Probed
    <3> QED
      BY Zenon, <2>b, <3>1 DEF Invisible
  <2>4. ASSUME NEW ok \in BOOLEAN, RestoreMarker(ok)
        PROVE  FALSE
    <3>1. driver' = driver
      BY <2>4 DEF RestoreMarker
    <3>2. override'[q] \in {override[q], "vfio_ap"}
      BY Zenon, <2>4, <2>a DEF RestoreMarker
    <3> QED
      BY Zenon, <2>b, <3>1, <3>2, NoOverrideDiffers DEF Invisible
  <2>5. ASSUME NEW ok \in BOOLEAN, (\E x \in Queues : UnbindForZcrypt(x, ok)) \/ ClearOverride(ok)
        PROVE  pc \in {"return", "clear"}
    BY Zenon, <2>5 DEF UnbindForZcrypt, ClearOverride
  <2>6. ~UNCHANGED queueVars
    BY Zenon, <2>b DEF Invisible
  <2> QED
    BY <1>1, <2>1, <2>2, <2>3, <2>4, <2>5, <2>6, QueueFrame DEF SwitchStep
<1>2. UNCHANGED vars => Hides
  BY Zenon DEF Invisible
<1>3. ClaimInv /\ SwitchedReady /\ [Next]_vars => [Hides]_vars
  BY Zenon, <1>1
<1> QED
  BY <1>3, ClaimsSafe, SwitchedSafe, PTL DEF Spec, SwitchToVFIOAPNeverInvisible

-----------------------------------------------------------------------------
(* The override and the masks *)

\* Only the administrator writes the masks.
LEMMA MaskFrame ==
    ASSUME Next
    PROVE  masked' = masked \/ WriteMasks
<1>1. ASSUME (\E ok \in BOOLEAN : SwitchStep(ok)) \/ SwitchDeadline \/ SwitchDone
                \/ DrainOrphanedVFIOAP \/ ReturnDone
      PROVE  masked' = masked
  BY Zenon, <1>1 DEF SwitchStep, SetOverride, UnbindForVFIOAP, ProbeForVFIOAP, UnbindForZcrypt, ClearOverride,
              ProbeForZcrypt, RestoreMarker, SwitchDeadline, SwitchDone, DrainOrphanedVFIOAP, ReturnDone
<1>2. ASSUME NEW ok \in BOOLEAN, Step(ok), ~SwitchStep(ok)
      PROVE  masked' = masked
  BY Zenon, <1>2 DEF Step, DestroyPartial, CreateMdev, AssignAdapter, AssignDomain, AssignControlDomain,
              DestroyPartialMdev, GenerateClaimMetadata, GenerateClaimSpec, DeleteClaimMetadata,
              ReadMatrix, UnprepareDestroy, GCStaleClaimSpecs, GCStaleClaimMetadata, InitialScan
<1>3. ASSUME NEW c \in Claims, Call(c) \/ Deallocate(c) \/ \E s \in Specs : Allocate(c, s)
      PROVE  masked' = masked
  BY Zenon, <1>3 DEF Call, PrepareRejects, PrepareContainer, PrepareVM, PrepareUnread, UnprepareBegins,
              Deallocate, Allocate
<1>4. ASSUME Start \/ Rescan \/ Crash \/ \E u \in Uuids : ExternalRemove(u)
      PROVE  masked' = masked
  BY Zenon, <1>4 DEF Start, Rescan, Crash, ExternalRemove
<1> QED
  BY <1>1, <1>2, <1>3, <1>4 DEF Next, Progress

\* Inside SwitchToZcrypt and its loop only its own steps run.
LEMMA ReturnsRunAlone ==
    ASSUME Progress, pc \in ReturnSteps
    PROVE  \/ ReturnDone
           \/ \E ok \in BOOLEAN :
                 /\ UNCHANGED claimVars
                 /\ \/ \E q \in Queues : UnbindForZcrypt(q, ok)
                    \/ ClearOverride(ok) \/ ProbeForZcrypt(ok) \/ RestoreMarker(ok)
<1>1. ASSUME NEW ok \in BOOLEAN, Step(ok)
      PROVE  /\ UNCHANGED claimVars
             /\ \/ \E q \in Queues : UnbindForZcrypt(q, ok)
                \/ ClearOverride(ok) \/ ProbeForZcrypt(ok) \/ RestoreMarker(ok)
  <2>1. SwitchStep(ok) /\ UNCHANGED claimVars
    BY Zenon, <1>1 DEF Step, DestroyPartial, CreateMdev, AssignAdapter, AssignDomain, AssignControlDomain,
                DestroyPartialMdev, GenerateClaimMetadata, GenerateClaimSpec, DeleteClaimMetadata,
                ReadMatrix, UnprepareDestroy, GCStaleClaimSpecs, GCStaleClaimMetadata, InitialScan,
                ReturnSteps
  <2> QED
    BY Zenon, <2>1 DEF SwitchStep, SetOverride, UnbindForVFIOAP, ProbeForVFIOAP, ReturnSteps
<1> QED
  BY Zenon, <1>1 DEF Progress, SwitchDeadline, SwitchDone, DrainOrphanedVFIOAP, ReturnSteps

\* The kernel's exclusion: while a mask is restricted no queue has an override.
MaskedUnmarked == masked => \A q \in Queues : override[q] = NoOverride

\* The exclusion holds whatever fails.
LEMMA MasksExclude == Spec => []MaskedUnmarked
<1>1. Init => MaskedUnmarked
  BY Zenon DEF Init, SysfsInit, MaskedUnmarked
<1>2. ASSUME ClaimInv, MaskedUnmarked, Next
      PROVE  MaskedUnmarked'
  <2> USE DEF MaskedUnmarked
  <2>a. override \in [Queues -> Overrides]
    BY Zenon, <1>2 DEF ClaimInv, TypeOK, SysfsTypeOK
  <2>1. CASE WriteMasks
    BY <2>1 DEF WriteMasks
  <2>2. ASSUME NEW ok \in BOOLEAN, SwitchStep(ok), masked' = masked
        PROVE  MaskedUnmarked'
    BY Zenon, <1>2, <2>2, <2>a
    DEF SwitchStep, SetOverride, UnbindForVFIOAP, ProbeForVFIOAP, UnbindForZcrypt, ClearOverride,
        ProbeForZcrypt, RestoreMarker, OverrideAccepted
  <2>3. ASSUME UNCHANGED queueVars, masked' = masked
        PROVE  MaskedUnmarked'
    BY Zenon, <1>2, <2>3
  <2> QED
    BY Zenon, <1>2, <2>1, <2>2, <2>3, QueueFrame, MaskFrame
<1>3. MaskedUnmarked /\ UNCHANGED vars => MaskedUnmarked'
  BY Zenon DEF MaskedUnmarked
<1>4. ClaimInv /\ MaskedUnmarked /\ [Next]_vars => MaskedUnmarked'
  BY <1>2, <1>3
<1> QED
  BY <1>1, <1>4, ClaimsSafe, PTL DEF Spec

\* Without an administrator who restricts the masks the kernel takes overrides.
LEMMA NeverMasked ==
    ASSUME "masks" \notin Faults
    PROVE  Spec => [](~masked)
<1>1. Init => ~masked
  BY Zenon DEF Init, SysfsInit
<1>2. ~masked /\ [Next]_vars => ~masked'
  BY Zenon, MaskFrame DEF WriteMasks
<1> QED
  BY <1>1, <1>2, PTL DEF Spec

\* When SwitchToZcrypt returns, its queue is on a driver or carries the marker
\* the drain looks for, unless an override write fails or the masks forbid it.
THEOREM ReturnsLeaveTrace ==
    ASSUME {"override", "masks"} \cap Faults = {}
    PROVE  Spec => UnreturnedQueueKeepsMarker
<1> DEFINE Traced == pc' = "return" /\ pc \in {"clear", "probe", "restore"} =>
                        \A q \in Queues : q = cur => ~(Invisible(q)')
<1>1. ASSUME ClaimInv, ~masked, Next
      PROVE  Traced
  <2> SUFFICES ASSUME pc' = "return", pc \in {"clear", "probe", "restore"},
                      NEW q \in Queues, q = cur
               PROVE  ~(Invisible(q)')
    OBVIOUS
  <2>a. driver \in [Queues -> Drivers] /\ override \in [Queues -> Overrides]
    BY Zenon, <1>1 DEF ClaimInv, TypeOK, SysfsTypeOK
  <2>1. ASSUME NEW ok \in BOOLEAN, ClearOverride(ok)
        PROVE  ~(Invisible(q)')
    BY Zenon, <1>1, <2>1 DEF ClearOverride, Outcome, OverrideAccepted
  <2>2. ASSUME NEW ok \in BOOLEAN, ProbeForZcrypt(ok)
        PROVE  ~(Invisible(q)')
    <3>1. driver'[q] \in {"zcrypt", "vfio_ap"}
      BY <2>2, <2>a DEF ProbeForZcrypt, BackToLoop, Probed
    <3> QED
      BY Zenon, <3>1 DEF Invisible
  <2>3. ASSUME NEW ok \in BOOLEAN, RestoreMarker(ok)
        PROVE  ~(Invisible(q)')
    <3>1. override'[q] = "vfio_ap"
      BY <1>1, <2>3, <2>a DEF RestoreMarker, Outcome, OverrideAccepted
    <3> QED
      BY Zenon, <3>1, NoOverrideDiffers DEF Invisible
  <2>4. Progress
    BY Zenon, <1>1, RunsAlone DEF Crash, Stopped
  <2> QED
    BY <2>1, <2>2, <2>3, <2>4, ReturnsRunAlone DEF ReturnDone, UnbindForZcrypt, ReturnSteps
<1>2. ClaimInv /\ ~masked /\ [Next]_vars => [Traced]_vars
  BY Zenon, <1>1
<1>3. Spec => [](~masked)
  BY Zenon, NeverMasked
<1> QED
  BY <1>2, <1>3, ClaimsSafe, PTL DEF Spec, UnreturnedQueueKeepsMarker

-----------------------------------------------------------------------------
(* The orphans and the loop that returns them *)

Orphans == {q \in Queues : Orphan(q)}

\* The queues whose override the loop over SwitchToZcrypt has still to clear.
AtHand == todo \cup (IF pc = "clear" THEN {cur} ELSE {})

\* Orphans come from overrides and matrices alone.
LEMMA OrphansKept == ASSUME UNCHANGED <<override, mdevs, apm, aqm>> PROVE Orphans' = Orphans
BY Zenon DEF Orphans, Orphan, Claimed, Matrix

\* While a mask is restricted there is no orphan.
LEMMA MaskedNoOrphan == MaskedUnmarked /\ masked => Orphans = {}
BY Zenon, NoOverrideDiffers DEF MaskedUnmarked, Orphans, Orphan

\* The drain finds every orphan, whatever matrices it cannot read, as long as the
\* mdevs can be listed and the overrides read.
LEMMA DrainFindsOrphans ==
    ASSUME {"list", "override_read"} \cap Faults = {}, DrainOrphanedVFIOAP
    PROVE  Orphans' \subseteq todo'
<1>1. PICK unread \in SUBSET mdevs : todo' = Drained(liveAPQNs(unread), {})
  BY Zenon DEF DrainOrphanedVFIOAP
<1>2. Orphans' = Orphans
  BY Zenon, OrphansKept DEF DrainOrphanedVFIOAP
<1>3. liveAPQNs(unread) \subseteq Claimed(mdevs)
  BY Zenon DEF liveAPQNs, Claimed
<1> QED
  BY Zenon, <1>1, <1>2, <1>3 DEF Orphans, Orphan, Drained

\* When no write of it fails, SwitchToZcrypt loses sight of no orphan: it never
\* has to restore a marker, and every orphan its loop knew of is still in the
\* loop's list until its override is cleared.
LEMMA ReturnLoop ==
    ASSUME {"override", "unbind", "probe"} \cap Faults = {},
           ClaimInv, MaskedUnmarked, Progress,
           pc \in ReturnSteps \ {"restore"}, Orphans \subseteq AtHand
    PROVE  \/ ReturnDone /\ Orphans' = {}
           \/ /\ pc' \in ReturnSteps \ {"restore"}
              /\ UNCHANGED <<op, claimVars>>
              /\ Orphans' \subseteq AtHand'
<1> DEFINE Goal == \/ ReturnDone /\ Orphans' = {}
                   \/ /\ pc' \in ReturnSteps \ {"restore"}
                      /\ UNCHANGED <<op, claimVars>>
                      /\ Orphans' \subseteq AtHand'
<1>a. override \in [Queues -> Overrides] /\ (pc = "clear" => cur \in Queues)
  BY Zenon DEF ClaimInv, TypeOK, SysfsTypeOK, OperationOK
<1>1. ASSUME ReturnDone
      PROVE  Goal
  <2>1. Orphans' = Orphans
    BY Zenon, <1>1, OrphansKept DEF ReturnDone
  <2> QED
    BY Zenon, <1>1, <2>1 DEF ReturnDone, AtHand
<1>2. ASSUME NEW ok \in BOOLEAN, NEW q \in Queues, UnbindForZcrypt(q, ok), UNCHANGED claimVars
      PROVE  Goal
  <2>1. pc = "return" /\ q \in todo /\ todo' = todo \ {q} /\ pc' = "clear" /\ cur' = q
    BY Zenon, <1>2 DEF UnbindForZcrypt, Outcome, UnbindSucceeds
  <2>2. Orphans' = Orphans
    BY <1>2, OrphansKept DEF UnbindForZcrypt
  <2>3. Orphans' \subseteq AtHand'
    BY Zenon, <2>1, <2>2 DEF AtHand
  <2> QED
    BY <1>2, <2>1, <2>3 DEF UnbindForZcrypt, ReturnSteps
<1>3. ASSUME NEW ok \in BOOLEAN, ClearOverride(ok), UNCHANGED claimVars
      PROVE  Goal
  <2>1. pc = "clear" /\ todo' = todo /\ UNCHANGED <<op, mdevs, apm, aqm>>
    BY Zenon, <1>3 DEF ClearOverride
  <2>2. CASE masked
    <3>1. Orphans = {}
      BY Zenon, <2>2, MaskedNoOrphan
    <3>2. pc' = "return" /\ Orphans' = Orphans
      BY <1>3, <2>2, OrphansKept DEF ClearOverride, OverrideAccepted, BackToLoop
    <3> QED
      BY <1>3, <2>1, <3>1, <3>2 DEF ReturnSteps
  <2>3. CASE ~masked
    <3>1. override' = [override EXCEPT ![cur] = NoOverride] /\ pc' = "probe"
      BY <1>3, <2>3 DEF ClearOverride, OverrideAccepted, Outcome
    <3>2. Orphans' \subseteq Orphans \ {cur}
      BY Zenon, <1>a, <2>1, <3>1, NoOverrideDiffers DEF Orphans, Orphan, Claimed, Matrix
    <3> QED
      BY Zenon, <1>3, <2>1, <3>1, <3>2 DEF AtHand, ReturnSteps
  <2> QED
    BY Zenon, <2>2, <2>3
<1>4. ASSUME NEW ok \in BOOLEAN, ProbeForZcrypt(ok), UNCHANGED claimVars
      PROVE  Goal
  <2>1. pc = "probe" /\ todo' = todo /\ pc' = "return" /\ op' = op
    BY Zenon, <1>4 DEF ProbeForZcrypt, Outcome, BackToLoop
  <2>2. Orphans' = Orphans
    BY <1>4, OrphansKept DEF ProbeForZcrypt
  <2> QED
    BY <1>4, <2>1, <2>2 DEF AtHand, ReturnSteps
<1> HIDE DEF Goal
<1>5. Goal
  BY <1>1, <1>2, <1>3, <1>4, ReturnsRunAlone DEF RestoreMarker
<1> QED
  BY Zenon, <1>5 DEF Goal

-----------------------------------------------------------------------------
(* The startup of the process *)

\* How far driver.New has come: the drain has every orphan in its list, then
\* there is none, and the garbage collections have removed the files of claims
\* without an mdev.
StartupInv ==
    op = "startup" =>
       /\ pc # "restore"
       /\ pc \in ReturnSteps => Orphans \subseteq AtHand
       /\ pc \in StartupSteps => Orphans = {}
       /\ pc \in {"gc_metadata", "scan"} => cdi \subseteq mdevs
       /\ pc = "scan" => meta \subseteq mdevs

\* The steps of driver.New other than the switches.
LEMMA StartupRunsAlone ==
    ASSUME Progress, pc \in StartupSteps \cup {"drain"}
    PROVE  \/ DrainOrphanedVFIOAP /\ UNCHANGED claimVars
           \/ \E ok \in BOOLEAN : GCStaleClaimSpecs(ok) \/ GCStaleClaimMetadata(ok) \/ InitialScan(ok)
<1>1. ASSUME NEW ok \in BOOLEAN, Step(ok)
      PROVE  GCStaleClaimSpecs(ok) \/ GCStaleClaimMetadata(ok) \/ InitialScan(ok)
  <2>1. ~SwitchStep(ok)
    BY Zenon DEF SwitchStep, SetOverride, UnbindForVFIOAP, ProbeForVFIOAP, UnbindForZcrypt, ClearOverride,
           ProbeForZcrypt, RestoreMarker, StartupSteps
  <2> QED
    BY Zenon, <1>1, <2>1 DEF Step, DestroyPartial, CreateMdev, AssignAdapter, AssignDomain, AssignControlDomain,
       DestroyPartialMdev, GenerateClaimMetadata, GenerateClaimSpec, DeleteClaimMetadata,
       ReadMatrix, UnprepareDestroy, StartupSteps
<1> QED
  BY <1>1 DEF Progress, SwitchDeadline, SwitchDone, ReturnDone, StartupSteps

\* Only the start of the process begins a startup.
LEMMA StartupBegins == ASSUME Next, op' = "startup" PROVE op = "startup" \/ Start
<1>1. ASSUME \/ \E ok \in BOOLEAN : SwitchStep(ok)
             \/ SwitchDeadline \/ SwitchDone \/ DrainOrphanedVFIOAP \/ ReturnDone
      PROVE  op = "startup"
  BY Zenon, <1>1 DEF SwitchStep, SetOverride, UnbindForVFIOAP, ProbeForVFIOAP, UnbindForZcrypt, ClearOverride,
              ProbeForZcrypt, RestoreMarker, SwitchDeadline, SwitchDone, DrainOrphanedVFIOAP,
              ReturnDone, GoTo, Finish
<1>2. ASSUME NEW ok \in BOOLEAN, Step(ok), ~SwitchStep(ok)
      PROVE  op = "startup"
  BY Zenon, <1>2 DEF Step, DestroyPartial, CreateMdev, AssignAdapter, AssignDomain, AssignControlDomain,
              DestroyPartialMdev, GenerateClaimMetadata, GenerateClaimSpec, DeleteClaimMetadata,
              ReadMatrix, UnprepareDestroy, GCStaleClaimSpecs, GCStaleClaimMetadata, InitialScan,
              GoTo, Finish, Stopped
<1>3. ASSUME NEW c \in Claims, Call(c) \/ Deallocate(c) \/ \E s \in Specs : Allocate(c, s)
      PROVE  op = "startup"
  BY Zenon, <1>3 DEF Call, PrepareRejects, PrepareContainer, PrepareVM, PrepareUnread, UnprepareBegins,
              Deallocate, Allocate
<1>4. ASSUME Rescan \/ Crash \/ WriteMasks \/ \E u \in Uuids : ExternalRemove(u)
      PROVE  op = "startup"
  BY Zenon, <1>4 DEF Rescan, Crash, Stopped, WriteMasks, ExternalRemove
<1> QED
  BY <1>1, <1>2, <1>3, <1>4 DEF Next, Progress

\* During a startup the process is in the drain, its loop or the steps after it.
LEMMA StartupAt ==
    ASSUME ClaimInv, op = "startup"
    PROVE  pc \in ReturnSteps \cup StartupSteps \cup {"drain"}
BY Zenon DEF ClaimInv, TypeOK, DeviceStateTypeOK, OperationOK, Steps

\* Every step keeps the account of the startup.
LEMMA StartupStep ==
    ASSUME {"override", "unbind", "probe", "list", "override_read", "file", "external"} \cap Faults = {}
    PROVE  ClaimInv /\ MaskedUnmarked /\ StartupInv /\ Next => StartupInv'
<1> SUFFICES ASSUME ClaimInv, MaskedUnmarked, StartupInv, Next, op' = "startup"
             PROVE  StartupInv'
  BY Zenon DEF StartupInv
<1>a. {"override", "unbind", "probe"} \cap Faults = {} /\ {"list", "override_read"} \cap Faults = {}
  OBVIOUS
<1>1. CASE Start
  BY <1>1 DEF Start, StartupInv, ReturnSteps, StartupSteps
<1>2. CASE op = "startup"
  <2>a. pc \in ReturnSteps \cup StartupSteps \cup {"drain"} /\ pc \notin {"idle", "down"}
    BY <1>2, StartupAt DEF ReturnSteps, StartupSteps
  <2>1. CASE UNCHANGED <<queueVars, bindingVars, claim, wasVM, fileVars>> /\ UNCHANGED mdevVars
    <3>1. Orphans' = Orphans /\ AtHand' = AtHand
      BY <2>1, OrphansKept DEF AtHand
    <3> QED
      BY Zenon, <2>1, <3>1 DEF StartupInv
  <2>2. CASE Progress /\ pc \in ReturnSteps
    <3>1. pc # "restore" /\ Orphans \subseteq AtHand
      BY <1>2, <2>2 DEF StartupInv
    <3>2. CASE ReturnDone /\ Orphans' = {}
      BY Zenon, <1>2, <3>2 DEF ReturnDone, GoTo, StartupInv, ReturnSteps, StartupSteps
    <3>3. CASE pc' \in ReturnSteps \ {"restore"} /\ Orphans' \subseteq AtHand'
      BY Zenon, <3>3 DEF StartupInv, ReturnSteps, StartupSteps
    <3> QED
      BY <1>a, <2>2, <3>1, <3>2, <3>3, ReturnLoop
  <2>3. CASE DrainOrphanedVFIOAP
    <3>1. pc' = "return" /\ Orphans' \subseteq todo'
      BY <1>a, <2>3, DrainFindsOrphans DEF DrainOrphanedVFIOAP
    <3> QED
      BY Zenon, <3>1 DEF StartupInv, AtHand, ReturnSteps, StartupSteps
  <2>4. ASSUME NEW ok \in BOOLEAN, GCStaleClaimSpecs(ok) \/ GCStaleClaimMetadata(ok)
        PROVE  StartupInv'
    <3>1. Orphans' = Orphans /\ mdevs' = mdevs
      BY <2>4, OrphansKept DEF GCStaleClaimSpecs, GCStaleClaimMetadata
    <3>2. Orphans = {} /\ (pc = "gc_metadata" => cdi \subseteq mdevs)
      BY Zenon, <1>2, <2>4 DEF GCStaleClaimSpecs, GCStaleClaimMetadata, StartupInv, StartupSteps
    <3>3. CASE GCStaleClaimSpecs(ok)
      <4>1. pc' = "gc_metadata" /\ cdi' = cdi \cap mdevs
        BY Zenon, <3>3 DEF GCStaleClaimSpecs, Outcome, Collected, GoTo
      <4> QED
        BY Zenon, <3>1, <3>2, <4>1 DEF StartupInv, ReturnSteps
    <3>4. CASE GCStaleClaimMetadata(ok)
      <4>1. pc = "gc_metadata" /\ pc' = "scan" /\ cdi' = cdi /\ meta' = meta \cap mdevs
        BY Zenon, <3>4 DEF GCStaleClaimMetadata, Outcome, Collected, GoTo
      <4> QED
        BY <3>1, <3>2, <4>1 DEF StartupInv, ReturnSteps
    <3> QED
      BY Zenon, <2>4, <3>3, <3>4
  <2>5. ASSUME Crash \/ \E ok \in BOOLEAN : InitialScan(ok)
        PROVE  FALSE
    BY <2>5 DEF Crash, InitialScan, Finish, Stopped
  <2>6. CASE Progress /\ pc \in StartupSteps \cup {"drain"}
    BY Zenon, <2>3, <2>4, <2>5, <2>6, StartupRunsAlone
  <2> QED
    BY Zenon, <2>a, <2>1, <2>2, <2>5, <2>6, RunsAlone
<1> QED
  BY Zenon, <1>1, <1>2, StartupBegins

\* Once driver.New has run its drain and its garbage collection, no queue is left
\* on vfio_ap without an mdev, and no CDI spec or metadata without one, whatever
\* crashes, failed Prepares and failed removals the node has behind it: unless a
\* write or a read of the recovery itself fails, or something else removes an
\* mdev meanwhile.
THEOREM StartupLeavesNothing ==
    ASSUME {"override", "unbind", "probe", "list", "override_read", "file", "external"} \cap Faults = {}
    PROVE  Spec => StartupReconciles
<1> DEFINE Reconciles == op = "startup" /\ pc' = "idle" =>
                            /\ \A q \in Queues : ~(Orphan(q)')
                            /\ cdi' \cup meta' \subseteq mdevs'
<1>1. Init => StartupInv
  BY Zenon DEF Init, StartupInv
<1>2. StartupInv /\ UNCHANGED vars => StartupInv'
  <2>1. UNCHANGED vars => Orphans' = Orphans /\ AtHand' = AtHand
    BY Zenon, OrphansKept DEF AtHand
  <2> QED
    BY Zenon, <2>1 DEF StartupInv
<1>3. ClaimInv /\ MaskedUnmarked /\ StartupInv /\ [Next]_vars => StartupInv'
  BY <1>2, StartupStep
<1>4. ASSUME ClaimInv, StartupInv, Next, op = "startup", pc' = "idle"
      PROVE  (\A q \in Queues : ~(Orphan(q)')) /\ cdi' \cup meta' \subseteq mdevs'
  <2>a. pc \in ReturnSteps \cup StartupSteps \cup {"drain"} /\ pc \notin {"idle", "down"}
    BY <1>4, StartupAt DEF ReturnSteps, StartupSteps
  <2>1. Progress
    BY Zenon, <1>4, <2>a, RunsAlone DEF Crash, Stopped
  <2>2. ~ReturnDone
    BY <1>4 DEF ReturnDone, GoTo
  <2>3. pc \notin ReturnSteps
    BY Zenon, <1>4, <2>1, <2>2, ReturnsRunAlone
    DEF UnbindForZcrypt, ClearOverride, ProbeForZcrypt, RestoreMarker, BackToLoop
  <2>4. PICK ok \in BOOLEAN : InitialScan(ok)
    BY <1>4, <2>a, <2>1, <2>3, StartupRunsAlone
    DEF DrainOrphanedVFIOAP, GCStaleClaimSpecs, GCStaleClaimMetadata, GoTo
  <2>5. Orphans = {} /\ cdi \subseteq mdevs /\ meta \subseteq mdevs
    BY Zenon, <1>4, <2>4 DEF InitialScan, StartupInv, StartupSteps
  <2>6. Orphans' = Orphans /\ UNCHANGED <<cdi, meta, mdevs>>
    BY <2>4, OrphansKept DEF InitialScan
  <2> QED
    BY Zenon, <2>5, <2>6 DEF Orphans
<1>5. ClaimInv /\ StartupInv /\ [Next]_vars => [Reconciles]_vars
  BY Zenon, <1>4
<1> QED
  BY <1>1, <1>3, <1>5, ClaimsSafe, MasksExclude, PTL DEF Spec, StartupReconciles

-----------------------------------------------------------------------------
(* Between two RPCs *)

SwitchingSteps == {"switch", "vfio_unbind", "vfio_probe", "create", "assign", "control"}
QuietSteps == {"idle", "destroy_partial", "metadata", "cdi"} \cup StartupSteps

\* Where the orphans are when no write of a switch or an assignment fails: in the
\* list of the loop that returns them, or among the queues of the Prepare that
\* is building an mdev of them.  Unprepare knows the claim for a VM claim while
\* its mdev is there, and reads the whole matrix or nothing.
RecoveryInv ==
    /\ pc \notin {"restore", "abandon"}
    /\ pc \in QuietSteps \cup UnprepareSteps => Orphans = {}
    /\ pc \in ReturnSteps => Orphans \subseteq AtHand
    /\ pc \in SwitchingSteps => Orphans \subseteq spec[claim].devices
    /\ pc \in {"assign", "control"} => claim \in mdevs
    /\ pc \in UnprepareSteps /\ claim \in mdevs => wasVM
    /\ pc = "destroy" /\ todo # {} => Matrix(claim) \subseteq todo

\* A step that leaves the queues, the mdevs and the place of the operation as they
\* are keeps track of the orphans, if it does not touch the allocation of the claim
\* whose queues are being switched.
LEMMA RecoveryKept ==
    ASSUME RecoveryInv, UNCHANGED <<override, mdevs, apm, aqm, pc, todo, cur, claim, wasVM>>,
           pc \in SwitchingSteps => spec'[claim] = spec[claim]
    PROVE  RecoveryInv'
<1> USE DEF RecoveryInv, QuietSteps, StartupSteps, UnprepareSteps, ReturnSteps, SwitchingSteps
<1>1. Orphans' = Orphans /\ AtHand' = AtHand
  BY Zenon, OrphansKept DEF AtHand
<1>2. pc' \notin {"restore", "abandon"}
  BY Zenon
<1>3. pc' \in QuietSteps \cup UnprepareSteps => Orphans' = {}
  BY Zenon, <1>1
<1>4. pc' \in ReturnSteps => Orphans' \subseteq AtHand'
  BY Zenon, <1>1
<1>5. pc' \in SwitchingSteps => Orphans' \subseteq spec'[claim'].devices
  BY Zenon, <1>1
<1>6. pc' \in {"assign", "control"} => claim' \in mdevs'
  BY Zenon
<1>7. pc' \in UnprepareSteps /\ claim' \in mdevs' => wasVM'
  BY Zenon
<1>8. pc' = "destroy" /\ todo' # {} => Matrix(claim)' \subseteq todo'
  BY Zenon DEF Matrix
<1> QED
  BY Zenon, <1>2, <1>3, <1>4, <1>5, <1>6, <1>7, <1>8

\* The allocation of a claim with an RPC behind it stays as it is.
LEMMA PendingSpecKept ==
    ASSUME ClaimInv, Next, NEW c \in Claims, phase[c] = "pending"
    PROVE  spec'[c] = spec[c]
<1>a. spec \in [Claims -> Specs]
  BY Zenon DEF ClaimInv, TypeOK, DeviceStateTypeOK
<1>1. ASSUME NEW x \in Claims, Deallocate(x) \/ \E s \in Specs : Allocate(x, s)
      PROVE  spec'[c] = spec[c]
  BY Zenon, <1>1, <1>a DEF Deallocate, Allocate
<1> QED
  BY <1>1, AllocationFrame

\* Removing an mdev orphans at most the queues of its matrix.
LEMMA RemovalOrphans ==
    ASSUME ClaimInv, NEW u \in Uuids, RemoveMdev(u), override' = override
    PROVE  Orphans' \subseteq Orphans \cup Matrix(u)
<1>1. mdevs \subseteq Uuids /\ apm \in [Uuids -> SUBSET Adapters] /\ aqm \in [Uuids -> SUBSET Domains]
  BY Zenon DEF ClaimInv, TypeOK, SysfsTypeOK
<1>2. \A v \in mdevs \ {u} : Matrix(v)' = Matrix(v) /\ v \in mdevs'
  BY Zenon, <1>1 DEF RemoveMdev, Matrix
<1>3. Claimed(mdevs) \subseteq Claimed(mdevs)' \cup Matrix(u)
  BY Zenon, <1>2 DEF Claimed
<1> QED
  BY Zenon, <1>3 DEF Orphans, Orphan

\* A larger matrix makes no orphan.
LEMMA GrowthOrphans ==
    ASSUME override' = override, Claimed(mdevs) \subseteq Claimed(mdevs)'
    PROVE  Orphans' \subseteq Orphans
BY Zenon DEF Orphans, Orphan

\* The failures RecoveryInv leaves out: of a write of the switches, of the mdev's
\* creation and assignment, and of what the drain reads; an RPC whose context
\* ends inside the switches; an mdev that something else removes.
SwitchFaults == {"override", "unbind", "probe", "create", "assign", "control", "list",
                 "override_read", "deadline", "external"}

\* An operation that ends, or goes on without touching a queue or an mdev.
LEMMA QuietStep ==
    ASSUME pc' \in QuietSteps \cup {"down", "drain"}, Orphans' = {} \/ pc' \in {"down", "drain"}
    PROVE  RecoveryInv'
BY DEF RecoveryInv, QuietSteps, StartupSteps, UnprepareSteps, ReturnSteps, SwitchingSteps

\* Before and between operations.
LEMMA RecoveryCalls ==
    ASSUME SwitchFaults \cap Faults = {}, RecoveryInv, Next, pc \in {"idle", "down"}
    PROVE  RecoveryInv'
<1>a. pc = "idle" => Orphans = {}
  BY Zenon DEF RecoveryInv, QuietSteps
<1>b. {"external", "deadline"} \cap Faults = {}
  BY Zenon DEF SwitchFaults
<1>1. ASSUME UNCHANGED <<pc, override, mdevs, apm, aqm>>
      PROVE  RecoveryInv'
  BY <1>1, <1>a, OrphansKept, QuietStep DEF QuietSteps
<1>2. ASSUME NEW c \in Claims, PrepareRejects(c) \/ PrepareContainer(c) \/ PrepareUnread(c)
      PROVE  RecoveryInv'
  BY Zenon, <1>1, <1>2, <1>b DEF PrepareRejects, PrepareContainer, PrepareUnread
<1>3. ASSUME NEW c \in Claims, PrepareVM(c)
      PROVE  RecoveryInv'
  <2>1. Orphans' = {} /\ pc' \in {"switch", "metadata", "destroy_partial"}
    BY Zenon, <1>3, <1>a, OrphansKept DEF PrepareVM, Begins
  <2> QED
    BY <2>1 DEF RecoveryInv, QuietSteps, StartupSteps, UnprepareSteps, ReturnSteps, SwitchingSteps
<1>4. ASSUME NEW c \in Claims, NEW ok \in BOOLEAN, UnprepareBegins(c, ok)
      PROVE  RecoveryInv'
  <2>1. Orphans' = {} /\ mdevs' = mdevs
    BY Zenon, <1>4, <1>a, OrphansKept DEF UnprepareBegins
  <2>2. CASE ok
    <3>1. pc' = "delete_metadata" /\ claim' = c /\ (c \in mdevs => wasVM')
      BY Zenon, <1>4, <2>2 DEF UnprepareBegins
    <3> QED
      BY <2>1, <3>1 DEF RecoveryInv, QuietSteps, StartupSteps, UnprepareSteps, ReturnSteps, SwitchingSteps
  <2>3. CASE ~ok
    BY <1>1, <1>4, <2>3 DEF UnprepareBegins
  <2> QED
    BY <2>2, <2>3
<1>5. ASSUME NEW c \in Claims, Deallocate(c) \/ \E s \in Specs : Allocate(c, s)
      PROVE  RecoveryInv'
  BY Zenon, <1>1, <1>5 DEF Deallocate, Allocate
<1>6. ASSUME Rescan \/ WriteMasks \/ \E u \in Uuids : ExternalRemove(u)
      PROVE  RecoveryInv'
  BY <1>1, <1>6, <1>b DEF Rescan, WriteMasks, ExternalRemove
<1>7. ASSUME Start \/ Crash
      PROVE  RecoveryInv'
  BY Zenon, <1>7, QuietStep DEF Start, Crash, Stopped
<1>8. ~Progress
  <2>1. ASSUME NEW ok \in BOOLEAN PROVE ~SwitchStep(ok)
    BY Zenon DEF SwitchStep, SetOverride, UnbindForVFIOAP, ProbeForVFIOAP, UnbindForZcrypt, ClearOverride,
           ProbeForZcrypt, RestoreMarker
  <2> QED
    BY Zenon, <2>1 DEF Progress, Step, DestroyPartial, CreateMdev, AssignAdapter, AssignDomain,
       AssignControlDomain, DestroyPartialMdev, GenerateClaimMetadata, GenerateClaimSpec,
       DeleteClaimMetadata, ReadMatrix, UnprepareDestroy, GCStaleClaimSpecs, GCStaleClaimMetadata,
       InitialScan, SwitchDeadline, SwitchDone, DrainOrphanedVFIOAP, ReturnDone
<1> QED
  BY <1>2, <1>3, <1>4, <1>5, <1>6, <1>7, <1>8 DEF Next, Call

\* Inside Prepare: the override is set on queues of the claim only, and the mdev
\* that is built of them has them all when it is done.
LEMMA RecoveryPrepares ==
    ASSUME SwitchFaults \cap Faults = {}, ClaimInv, SwitchedReady, CompletionOK, MaskedUnmarked,
           RecoveryInv, Next, Progress, pc \in PrepareSteps
    PROVE  RecoveryInv'
<1>a. /\ override \in [Queues -> Overrides]
      /\ mdevs \subseteq Uuids
      /\ apm \in [Uuids -> SUBSET Adapters]
      /\ aqm \in [Uuids -> SUBSET Domains]
      /\ spec \in [Claims -> Specs]
      /\ Claims \subseteq Uuids
  BY Zenon DEF ClaimInv, TypeOK, SysfsTypeOK, DeviceStateTypeOK, Uuids
<1>b. claim \in Claims /\ spec'[claim] = spec[claim] /\ MatrixConstraint(spec[claim])
  <2>1. claim \in Claims /\ phase[claim] = "pending" /\ MatrixConstraint(spec[claim])
    BY Zenon DEF ClaimInv, OperationOK
  <2> QED
    BY <2>1, PendingSpecKept
<1>c. pc \in SwitchingSteps => Orphans \subseteq spec[claim].devices
  BY Zenon DEF RecoveryInv
<1>d. spec[claim].devices = apids(spec[claim]) \X apqis(spec[claim])
  BY Zenon, <1>a, <1>b, CrossProduct
<1>1. ASSUME pc' \in SwitchingSteps, claim' = claim, Orphans' \subseteq spec[claim].devices,
             pc' \in {"assign", "control"} => claim \in mdevs'
      PROVE  RecoveryInv'
  BY <1>1, <1>b DEF RecoveryInv, QuietSteps, StartupSteps, UnprepareSteps, ReturnSteps, SwitchingSteps
<1>2. ASSUME pc' \in QuietSteps, claim \in mdevs', apm'[claim] = apids(spec[claim]),
             aqm'[claim] = apqis(spec[claim]), Orphans' \subseteq spec[claim].devices
      PROVE  RecoveryInv'
  <2>1. spec[claim].devices \subseteq Claimed(mdevs)'
    BY <1>2, <1>d DEF Claimed, Matrix
  <2>2. Orphans' = {}
    BY Zenon, <1>2, <2>1 DEF Orphans, Orphan
  <2> QED
    BY Zenon, <1>2, <2>2, QuietStep
<1>3. ASSUME NEW q \in Queues, NEW ok \in BOOLEAN, SetOverride(q, ok), UNCHANGED claimVars
      PROVE  RecoveryInv'
  <2>1. pc = "switch" /\ q \in todo /\ UNCHANGED <<mdevs, apm, aqm>> /\ ok
    BY Zenon, <1>3 DEF SetOverride, Outcome, SwitchFaults
  <2>2. CASE masked
    <3>1. Orphans' = {} /\ pc' = "return"
      BY Zenon, <1>3, <2>2, MaskedNoOrphan, OrphansKept DEF SetOverride, OverrideAccepted, Rollback
    <3> QED
      BY <3>1 DEF RecoveryInv, QuietSteps, StartupSteps, UnprepareSteps, ReturnSteps, SwitchingSteps
  <2>3. CASE ~masked
    <3>1. override' = [override EXCEPT ![q] = "vfio_ap"] /\ pc' = "vfio_unbind"
      BY Zenon, <1>3, <2>1, <2>3 DEF SetOverride, OverrideAccepted
    <3>2. Orphans' \subseteq Orphans \cup {q}
      BY Zenon, <1>a, <2>1, <3>1 DEF Orphans, Orphan, Claimed, Matrix
    <3>3. q \in spec[claim].devices
      BY Zenon, <2>1 DEF SwitchedReady
    <3> QED
      BY <1>1, <1>3, <1>c, <2>1, <3>1, <3>2, <3>3 DEF SwitchingSteps
  <2> QED
    BY <2>2, <2>3
<1>4. ASSUME NEW ok \in BOOLEAN, UnbindForVFIOAP(ok) \/ ProbeForVFIOAP(ok) \/ SwitchDone,
             UNCHANGED claimVars
      PROVE  RecoveryInv'
  <2>1. pc \in SwitchingSteps /\ pc' \in SwitchingSteps \ {"assign", "control"}
    BY Zenon, <1>4 DEF UnbindForVFIOAP, ProbeForVFIOAP, SwitchDone, Outcome, UnbindSucceeds, SwitchFaults,
                SwitchingSteps
  <2>2. Orphans' = Orphans
    BY Zenon, <1>4, OrphansKept DEF UnbindForVFIOAP, ProbeForVFIOAP, SwitchDone
  <2> QED
    BY <1>1, <1>4, <1>c, <2>1, <2>2
<1>5. ~SwitchDeadline /\ \A ok \in BOOLEAN : ~DestroyPartialMdev(ok)
  BY Zenon DEF SwitchDeadline, SwitchFaults, DestroyPartialMdev, RecoveryInv
<1>6. ASSUME NEW ok \in BOOLEAN, DestroyPartial(ok)
      PROVE  RecoveryInv'
  <2>1. pc = "destroy_partial" /\ Orphans = {} /\ override' = override
    BY Zenon, <1>6 DEF DestroyPartial, RecoveryInv, QuietSteps
  <2>2. CASE DestroySucceeds(ok)
    <3>1. RemoveMdev(claim) /\ pc' = "switch" /\ claim' = claim
      BY <1>6, <2>2 DEF DestroyPartial, Destroy
    <3>2. Matrix(claim) \subseteq spec[claim].devices
      BY Zenon, <1>a, <1>b, MatrixInAllocation DEF ClaimInv, MdevsOK, Matrix
    <3>3. claim \in Uuids
      BY Zenon, <1>a, <1>b
    <3>4. Orphans' \subseteq Orphans \cup Matrix(claim)
      BY <2>1, <3>1, <3>3, RemovalOrphans
    <3> QED
      BY <1>1, <2>1, <3>1, <3>2, <3>4 DEF SwitchingSteps
  <2>3. CASE ~DestroySucceeds(ok)
    <3>1. UNCHANGED mdevVars /\ pc' = "idle"
      BY <1>6, <2>3 DEF DestroyPartial, Destroy, Finish, SwitchFaults
    <3> QED
      BY <2>1, <3>1, OrphansKept, QuietStep DEF QuietSteps
  <2> QED
    BY <2>2, <2>3
<1>7. ASSUME NEW ok \in BOOLEAN, CreateMdev(ok)
      PROVE  RecoveryInv'
  <2>1. pc = "create" /\ pc' = "assign" /\ claim' = claim /\ mdevs' = mdevs \cup {claim}
    BY Zenon, <1>7 DEF CreateMdev, GoTo, Outcome, SwitchFaults
  <2>2. UNCHANGED <<override, apm, aqm>>
    BY Zenon, <1>7 DEF CreateMdev
  <2>3. Claimed(mdevs) \subseteq Claimed(mdevs)'
    BY <2>1, <2>2 DEF Claimed, Matrix
  <2> QED
    BY Zenon, <1>1, <1>c, <2>1, <2>2, <2>3, GrowthOrphans DEF SwitchingSteps
<1>8. ASSUME NEW ok \in BOOLEAN,
             (\E a \in Adapters : AssignAdapter(a, ok)) \/ (\E d \in Domains : AssignDomain(d, ok))
      PROVE  RecoveryInv'
  <2>1. pc = "assign" /\ claim \in mdevs /\ AssignSucceeds(ok)
    BY Zenon, <1>8 DEF AssignAdapter, AssignDomain, RecoveryInv, Outcome, AssignSucceeds, SwitchFaults
  <2>2. UNCHANGED <<override, mdevs, claim>>
    BY Zenon, <1>8 DEF AssignAdapter, AssignDomain, GoTo
  <2>3. \A u \in Uuids : apm[u] \subseteq apm'[u] /\ aqm[u] \subseteq aqm'[u]
    BY <1>8, <1>a, <1>b DEF AssignAdapter, AssignDomain
  <2>4. \A u \in mdevs : Matrix(u) \subseteq Matrix(u)'
    BY Zenon, <1>a, <2>3 DEF Matrix
  <2>5. Claimed(mdevs) \subseteq Claimed(mdevs)'
    BY <2>2, <2>4 DEF Claimed
  <2>6. Orphans' \subseteq spec[claim].devices
    BY Zenon, <1>c, <2>1, <2>2, <2>5, GrowthOrphans DEF SwitchingSteps
  <2>7. CASE pc' \in {"assign", "control"}
    BY <1>1, <2>1, <2>2, <2>6, <2>7 DEF SwitchingSteps
  <2>8. CASE pc' \notin {"assign", "control"}
    <3>1. /\ pc' = "metadata"
          /\ apm'[claim] = apids(spec[claim]) /\ aqm'[claim] = apqis(spec[claim])
      BY Zenon, <1>8, <2>1, <2>8 DEF AssignAdapter, AssignDomain, GoTo
    <3> QED
      BY Zenon, <1>2, <2>1, <2>2, <2>6, <3>1 DEF QuietSteps
  <2> QED
    BY Zenon, <2>7, <2>8
<1>9. ASSUME NEW d \in Domains, NEW ok \in BOOLEAN, AssignControlDomain(d, ok)
      PROVE  RecoveryInv'
  <2>1. pc = "control" /\ claim \in mdevs /\ AssignSucceeds(ok)
    BY Zenon, <1>9 DEF AssignControlDomain, RecoveryInv, Outcome, AssignSucceeds, SwitchFaults
  <2>2. UNCHANGED <<override, mdevs, apm, aqm, claim>> /\ pc' \in {"control", "metadata"}
    BY Zenon, <1>9, <2>1 DEF AssignControlDomain, GoTo
  <2>3. apm[claim] = apids(spec[claim]) /\ aqm[claim] = apqis(spec[claim])
    BY <2>1 DEF CompletionOK
  <2>4. Orphans' \subseteq spec[claim].devices
    BY Zenon, <1>c, <2>1, <2>2, OrphansKept DEF SwitchingSteps
  <2> QED
    BY Zenon, <1>1, <1>2, <2>1, <2>2, <2>3, <2>4 DEF SwitchingSteps, QuietSteps
<1>10. ASSUME NEW ok \in BOOLEAN, GenerateClaimMetadata(ok) \/ GenerateClaimSpec(ok)
       PROVE  RecoveryInv'
  <2>1. Orphans = {} /\ pc' \in {"cdi", "idle"}
    BY Zenon, <1>10 DEF GenerateClaimMetadata, GenerateClaimSpec, GoTo, Finish, RecoveryInv, QuietSteps
  <2>2. Orphans' = Orphans
    BY <1>10, OrphansKept DEF GenerateClaimMetadata, GenerateClaimSpec
  <2> QED
    BY <2>1, <2>2, QuietStep DEF QuietSteps
<1>11. ASSUME NEW ok \in BOOLEAN, SwitchStep(ok), UNCHANGED claimVars
       PROVE  RecoveryInv'
  BY Zenon, <1>3, <1>4, <1>11
  DEF SwitchStep, UnbindForZcrypt, ClearOverride, ProbeForZcrypt, RestoreMarker, PrepareSteps
<1>12. ASSUME \/ DrainOrphanedVFIOAP \/ ReturnDone
              \/ \E ok \in BOOLEAN : \/ DeleteClaimMetadata(ok) \/ ReadMatrix(ok) \/ UnprepareDestroy(ok)
                                    \/ GCStaleClaimSpecs(ok) \/ GCStaleClaimMetadata(ok) \/ InitialScan(ok)
       PROVE  FALSE
  BY Zenon, <1>12 DEF DrainOrphanedVFIOAP, ReturnDone, DeleteClaimMetadata, ReadMatrix, UnprepareDestroy,
               GCStaleClaimSpecs, GCStaleClaimMetadata, InitialScan, PrepareSteps
<1> QED
  BY Zenon, <1>4, <1>5, <1>6, <1>7, <1>8, <1>9, <1>10, <1>11, <1>12 DEF Progress, Step

\* Inside Unprepare, until it starts to return queues: what it removes of an mdev
\* is in its list, or left to the drain.
LEMMA RecoveryUnprepares ==
    ASSUME SwitchFaults \cap Faults = {}, ClaimInv, RecoveryInv, Progress, pc \in UnprepareSteps
    PROVE  RecoveryInv'
<1>a. Orphans = {} /\ (claim \in mdevs => wasVM)
  BY DEF RecoveryInv
<1>b. claim \in Claims /\ Claims \subseteq Uuids
  BY Zenon DEF ClaimInv, OperationOK, Uuids
<1>1. ASSUME NEW ok \in BOOLEAN, DeleteClaimMetadata(ok)
      PROVE  RecoveryInv'
  <2>1. pc' = "read_matrix" /\ UNCHANGED <<override, mdevs, apm, aqm, claim, wasVM>>
    BY Zenon, <1>1 DEF DeleteClaimMetadata, GoTo
  <2> QED
    BY Zenon, <1>a, <2>1, OrphansKept
    DEF RecoveryInv, QuietSteps, StartupSteps, UnprepareSteps, ReturnSteps, SwitchingSteps
<1>2. ASSUME NEW ok \in BOOLEAN, ReadMatrix(ok)
      PROVE  RecoveryInv'
  <2>1. pc' = "destroy" /\ UNCHANGED <<override, mdevs, apm, aqm, claim, wasVM>>
    BY Zenon, <1>2 DEF ReadMatrix
  <2>2. todo' # {} => Matrix(claim)' \subseteq todo'
    BY <1>2, <2>1 DEF ReadMatrix, Matrix
  <2> QED
    BY <1>a, <2>1, <2>2, OrphansKept
    DEF RecoveryInv, QuietSteps, StartupSteps, UnprepareSteps, ReturnSteps, SwitchingSteps
<1>3. ASSUME NEW ok \in BOOLEAN, UnprepareDestroy(ok)
      PROVE  RecoveryInv'
  <2>1. pc = "destroy" /\ override' = override
    BY <1>3 DEF UnprepareDestroy
  <2>2. CASE ~DestroySucceeds(ok)
    <3>1. UNCHANGED mdevVars /\ pc' = "idle"
      BY <1>3, <2>2 DEF UnprepareDestroy, Destroy, Finish, SwitchFaults
    <3> QED
      BY <1>a, <2>1, <3>1, OrphansKept, QuietStep DEF QuietSteps
  <2>3. CASE DestroySucceeds(ok)
    <3>1. RemoveMdev(claim)
      BY <1>3, <2>3 DEF UnprepareDestroy, Destroy
    <3>2. Orphans' \subseteq Matrix(claim)
      BY <1>a, <1>b, <2>1, <3>1, RemovalOrphans
    <3>3. CASE todo # {}
      <4>1. pc' = "return" /\ todo' = todo
        BY Zenon, <1>3, <2>3, <3>3 DEF UnprepareDestroy, GoTo
      <4>2. Matrix(claim) \subseteq todo
        BY <2>1, <3>3 DEF RecoveryInv
      <4>3. Orphans' \subseteq AtHand'
        BY Zenon, <3>2, <4>1, <4>2 DEF AtHand
      <4> QED
        BY <4>1, <4>3
        DEF RecoveryInv, QuietSteps, StartupSteps, UnprepareSteps, ReturnSteps, SwitchingSteps
    <3>4. CASE todo = {} /\ wasVM
      BY <1>3, <2>3, <3>4, QuietStep DEF UnprepareDestroy, GoTo
    <3>5. CASE todo = {} /\ ~wasVM
      <4>1. pc' = "idle"
        BY <1>3, <2>3, <3>5 DEF UnprepareDestroy, Finish
      <4>2. Matrix(claim) = {}
        BY Zenon, <1>a, <1>b, <3>5 DEF ClaimInv, MdevsOK, Matrix
      <4> QED
        BY Zenon, <3>2, <4>1, <4>2, QuietStep DEF QuietSteps
    <3> QED
      BY Zenon, <3>3, <3>4, <3>5
  <2> QED
    BY Zenon, <2>2, <2>3
<1>4. ASSUME NEW ok \in BOOLEAN, SwitchStep(ok) \/ SwitchDeadline \/ SwitchDone \/ DrainOrphanedVFIOAP
      PROVE  FALSE
  <2>1. pc \in {"switch", "vfio_unbind", "vfio_probe", "drain"} \cup ReturnSteps
    BY Zenon, <1>4, SwitchFrame
  <2> QED
    BY <2>1 DEF ReturnSteps, UnprepareSteps
<1>5. ASSUME \/ ReturnDone
             \/ \E ok \in BOOLEAN :
                   \/ DestroyPartial(ok) \/ CreateMdev(ok) \/ DestroyPartialMdev(ok)
                   \/ \E a \in Adapters : AssignAdapter(a, ok)
                   \/ \E d \in Domains : AssignDomain(d, ok) \/ AssignControlDomain(d, ok)
                   \/ GenerateClaimMetadata(ok) \/ GenerateClaimSpec(ok)
                   \/ GCStaleClaimSpecs(ok) \/ GCStaleClaimMetadata(ok) \/ InitialScan(ok)
      PROVE  FALSE
  BY Zenon, <1>5 DEF ReturnDone, DestroyPartial, CreateMdev, DestroyPartialMdev, AssignAdapter, AssignDomain,
              AssignControlDomain, GenerateClaimMetadata, GenerateClaimSpec, GCStaleClaimSpecs,
              GCStaleClaimMetadata, InitialScan, UnprepareSteps
<1> QED
  BY Zenon, <1>1, <1>2, <1>3, <1>4, <1>5 DEF Progress, Step

\* Every step keeps track of the orphans.
LEMMA RecoveryStep ==
    ASSUME SwitchFaults \cap Faults = {}
    PROVE  ClaimInv /\ SwitchedReady /\ CompletionOK /\ MaskedUnmarked /\ RecoveryInv /\ Next
              => RecoveryInv'
<1> SUFFICES ASSUME ClaimInv, SwitchedReady, CompletionOK, MaskedUnmarked, RecoveryInv, Next
             PROVE  RecoveryInv'
  OBVIOUS
<1>a. {"override", "unbind", "probe"} \cap Faults = {} /\ {"list", "override_read"} \cap Faults = {}
  BY Zenon DEF SwitchFaults
<1>1. CASE pc \in {"idle", "down"}
  BY <1>1, RecoveryCalls
<1>2. CASE Crash
  BY Zenon, <1>2, QuietStep DEF Crash, Stopped
<1>3. ASSUME UNCHANGED <<queueVars, bindingVars, claim, wasVM, fileVars>>, UNCHANGED mdevVars
      PROVE  RecoveryInv'
  <2>1. pc \in SwitchingSteps => claim \in Claims /\ phase[claim] = "pending"
    BY DEF ClaimInv, OperationOK, SwitchingSteps, PrepareSteps
  <2>2. pc \in SwitchingSteps => spec'[claim] = spec[claim]
    BY Zenon, <2>1, PendingSpecKept
  <2> QED
    BY Zenon, <1>3, <2>2, RecoveryKept
<1>4. CASE Progress /\ pc \in ReturnSteps
  <2>1. pc # "restore" /\ Orphans \subseteq AtHand
    BY Zenon, <1>4 DEF RecoveryInv
  <2>2. CASE ReturnDone /\ Orphans' = {}
    <3>1. pc' \in {"idle", "gc_cdi"}
      BY Zenon, <2>2 DEF ReturnDone, GoTo, Finish
    <3> QED
      BY <2>2, <3>1, QuietStep DEF QuietSteps, StartupSteps
  <2>3. CASE pc' \in ReturnSteps \ {"restore"} /\ Orphans' \subseteq AtHand'
    BY Zenon, <2>3 DEF RecoveryInv, QuietSteps, StartupSteps, UnprepareSteps, ReturnSteps, SwitchingSteps
  <2> QED
    BY <1>a, <1>4, <2>1, <2>2, <2>3, ReturnLoop
<1>5. CASE DrainOrphanedVFIOAP
  <2>1. pc' = "return" /\ Orphans' \subseteq todo'
    BY <1>a, <1>5, DrainFindsOrphans DEF DrainOrphanedVFIOAP
  <2> QED
    BY Zenon, <2>1
    DEF RecoveryInv, AtHand, QuietSteps, StartupSteps, UnprepareSteps, ReturnSteps, SwitchingSteps
<1>6. ASSUME NEW ok \in BOOLEAN, GCStaleClaimSpecs(ok) \/ GCStaleClaimMetadata(ok) \/ InitialScan(ok)
      PROVE  RecoveryInv'
  <2>1. Orphans = {} /\ pc' \in {"gc_metadata", "scan", "idle", "down"}
    BY Zenon, <1>6 DEF GCStaleClaimSpecs, GCStaleClaimMetadata, InitialScan, GoTo, Finish, Stopped,
                RecoveryInv, QuietSteps, StartupSteps
  <2>2. Orphans' = Orphans
    BY Zenon, <1>6, OrphansKept DEF GCStaleClaimSpecs, GCStaleClaimMetadata, InitialScan
  <2> QED
    BY Zenon, <2>1, <2>2, QuietStep DEF QuietSteps, StartupSteps
<1>7. CASE Progress /\ pc \in StartupSteps \cup {"drain"}
  BY <1>5, <1>6, <1>7, StartupRunsAlone
<1>8. CASE Progress /\ pc \in PrepareSteps
  BY Zenon, <1>8, RecoveryPrepares
<1>9. CASE Progress /\ pc \in UnprepareSteps
  BY Zenon, <1>9, RecoveryUnprepares
<1>10. "external" \notin Faults
  BY Zenon DEF SwitchFaults
<1>11. pc \in Steps
  BY DEF ClaimInv, TypeOK, DeviceStateTypeOK
<1> QED
  BY <1>1, <1>2, <1>3, <1>4, <1>7, <1>8, <1>9, <1>10, <1>11, RunsAlone DEF Steps

\* Unless one of SwitchFaults happens no queue is on vfio_ap without an mdev
\* whenever the driver is idle, whatever crashes, failed removals and unreadable
\* matrices came before.
LEMMA RecoverySafe ==
    ASSUME SwitchFaults \cap Faults = {}
    PROVE  Spec => []RecoveryInv
<1>1. Init => RecoveryInv
  BY Zenon DEF Init, RecoveryInv, QuietSteps, StartupSteps, UnprepareSteps, ReturnSteps, SwitchingSteps
<1>2. RecoveryInv /\ UNCHANGED vars => RecoveryInv'
  BY Zenon, RecoveryKept
<1>3. ClaimInv /\ SwitchedReady /\ CompletionOK /\ MaskedUnmarked /\ RecoveryInv /\ [Next]_vars
         => RecoveryInv'
  BY <1>2, RecoveryStep
<1> QED
  BY <1>1, <1>3, ClaimsSafe, SwitchedSafe, PreparesComplete, MasksExclude, PTL DEF Spec

\* A successful Unprepare leaves none of the claim's queues orphaned on vfio_ap,
\* whatever crashes interrupted the claim's earlier RPCs, unless a write of the
\* switches or of the mdev's assignment fails, the drain cannot read what it
\* needs, a context ends, or something else removes an mdev.
THEOREM UnprepareLeavesNoOrphan ==
    ASSUME {"override", "unbind", "probe", "create", "assign", "control", "list",
            "override_read", "deadline", "external"} \cap Faults = {}
    PROVE  Spec => UnprepareReturnsQueues
<1> DEFINE Returns == UnprepareSucceeds /\ phase[claim] # "free" =>
                         \A q \in spec[claim].devices : ~(Orphan(q)')
<1>1. ASSUME ClaimInv, RecoveryInv'
      PROVE  Returns
  <2> SUFFICES ASSUME UnprepareSucceeds, NEW q \in spec[claim].devices
               PROVE  ~(Orphan(q)')
    OBVIOUS
  <2>1. q \in Queues
    BY Zenon, <1>1, DevicesAreQueues DEF UnprepareSucceeds, ClaimInv, TypeOK, DeviceStateTypeOK, OperationOK
  <2>2. Orphans' = {}
    BY Zenon, <1>1 DEF UnprepareSucceeds, RecoveryInv, QuietSteps
  <2> QED
    BY <2>1, <2>2 DEF Orphans
<1>2. ClaimInv /\ RecoveryInv' /\ [Next]_vars => [Returns]_vars
  BY Zenon, <1>1
<1>3. Spec => []RecoveryInv
  BY Zenon, RecoverySafe DEF SwitchFaults
<1> QED
  BY <1>2, <1>3, ClaimsSafe, PTL DEF Spec, UnprepareReturnsQueues

-----------------------------------------------------------------------------
(* What a prepared claim can rely on *)

\* A prepared claim whose mdev lives has every allocated queue for itself: on
\* vfio_ap, marked, in its own mdev and in no other, foreign ones included.
ServedExclusively ==
    \A c \in Claims \cap mdevs :
       phase[c] = "prepared" =>
          \A q \in spec[c].devices :
             /\ Ready(q)
             /\ \A u \in mdevs : q \in Matrix(u) <=> u = c

\* From a successful Prepare until the mdev goes, whatever other claims, drains,
\* failures and restarts do, the guest keeps exactly its queues (Prepare,
\* Unprepare, New), unless the matrix of an mdev cannot be read.
THEOREM PreparedClaimsKeepQueues ==
    ASSUME "matrix_read" \notin Faults
    PROVE  Spec => []ServedExclusively
<1>1. ASSUME ClaimedQueuesBound, NoSharedQueue, PreparedServes
      PROVE  ServedExclusively
  <2> SUFFICES ASSUME NEW c \in Claims \cap mdevs, phase[c] = "prepared", NEW q \in spec[c].devices
               PROVE  Ready(q) /\ \A u \in mdevs : q \in Matrix(u) <=> u = c
    BY DEF ServedExclusively
  <2>1. q \in Matrix(c)
    BY Zenon, <1>1 DEF PreparedServes
  <2>2. q \in Claimed(mdevs)
    BY Zenon, <2>1 DEF Claimed
  <2> QED
    BY Zenon, <1>1, <2>1, <2>2 DEF ClaimedQueuesBound, NoSharedQueue, Ready
<1> QED
  BY <1>1, ClaimedQueuesStayBound, QueuesNeverShared, PreparedClaimsServed, PTL
=============================================================================
