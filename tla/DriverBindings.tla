--------------------------- MODULE DriverBindings ---------------------------
(***************************************************************************)
(* No rollback, Unprepare or drain takes a queue from under a live mdev,   *)
(* unless reading the matrix of an mdev fails: BindingInv is an invariant  *)
(* of module Driver without that fault.                                    *)
(***************************************************************************)
EXTENDS DriverClaims

USE DEF vars, sysfsVars, queueVars, mdevVars, bindingVars, claimVars, fileVars, fixedVars

-----------------------------------------------------------------------------
(* Who holds which queue *)

\* A part of the adapters with a part of the domains is a part of the allocation.
LEMMA CrossWithin ==
    ASSUME NEW s \in Specs, MatrixConstraint(s), NEW A \in SUBSET apids(s), NEW D \in SUBSET apqis(s)
    PROVE  A \X D \subseteq s.devices
<1>1. A \X D \subseteq apids(s) \X apqis(s)
  OBVIOUS
<1> QED
  BY Zenon, <1>1, CrossProduct

\* Only queues of the bus are in a matrix.
LEMMA ClaimedAreQueues == ClaimInv => Claimed(mdevs) \subseteq Queues
<1> SUFFICES ASSUME ClaimInv, NEW u \in mdevs PROVE Matrix(u) \subseteq Queues
  BY Zenon DEF Claimed
<1>1. CASE u \in Claims
  BY <1>1, MatrixInAllocation, DevicesAreQueues DEF ClaimInv, TypeOK, DeviceStateTypeOK
<1>2. CASE u \in Foreign
  BY <1>2, SysfsAssumption DEF ClaimInv, MdevsOK, Matrix, ForeignQueues
<1> QED
  BY Zenon, <1>1, <1>2 DEF ClaimInv, TypeOK, SysfsTypeOK, Uuids

\* No other mdev, foreign or not, holds a queue of an allocated claim.
LEMMA AllocationExclusive ==
    ASSUME ClaimInv, NEW c \in Claims, phase[c] # "free", c \notin mdevs
    PROVE  spec[c].devices \cap Claimed(mdevs) = {}
<1> SUFFICES ASSUME NEW u \in mdevs PROVE spec[c].devices \cap Matrix(u) = {}
  BY Zenon DEF Claimed
<1>1. CASE u \in Claims
  <2>1. phase[u] # "free" /\ u # c
    BY Zenon, <1>1 DEF ClaimInv, MdevsOK
  <2>2. spec[c].devices \cap spec[u].devices = {}
    BY Zenon, <1>1, <2>1 DEF ClaimInv, AllocationsDisjoint
  <2> QED
    BY Zenon, <1>1, <2>2, MatrixInAllocation
<1>2. CASE u \in Foreign
  <2>1. Matrix(u) \subseteq ForeignQueues
    BY <1>2 DEF ClaimInv, MdevsOK, Matrix, ForeignQueues
  <2> QED
    BY Zenon, <2>1, DeviceStateAssumption DEF ClaimInv, TypeOK, DeviceStateTypeOK
<1> QED
  BY Zenon, <1>1, <1>2 DEF ClaimInv, TypeOK, SysfsTypeOK, Uuids

-----------------------------------------------------------------------------
(* What a step changes *)

\* A step leaves every matrix alone, empties one (mdev.Destroy, or a removal by
\* something else), or adds queues of the claim to the claim's own
\* (assignMdevMatrix).
LEMMA MatrixFrame ==
    ASSUME ClaimInv, Next
    PROVE  \/ \A u \in Uuids : Matrix(u)' = Matrix(u)
           \/ \E x \in Uuids : /\ \A u \in Uuids \ {x} : Matrix(u)' = Matrix(u)
                              /\ Matrix(x)' = {}
           \/ /\ pc = "assign"
              /\ UNCHANGED <<driver, override, claim, spec, todo, switched, cur>>
              /\ pc' \in {"assign", "control", "metadata"}
              /\ claim \in Claims \cap mdevs'
              /\ \A u \in Uuids \ {claim} : Matrix(u)' = Matrix(u)
              /\ Matrix(claim) \subseteq apm'[claim] \X aqm'[claim]
              /\ apm'[claim] \X aqm'[claim] \subseteq spec[claim].devices
<1> DEFINE Kept == \A u \in Uuids : Matrix(u)' = Matrix(u)
           Emptied(x) == (\A u \in Uuids \ {x} : Matrix(u)' = Matrix(u)) /\ Matrix(x)' = {}
           Grown == /\ pc = "assign"
                    /\ UNCHANGED <<driver, override, claim, spec, todo, switched, cur>>
                    /\ pc' \in {"assign", "control", "metadata"}
                    /\ claim \in Claims \cap mdevs'
                    /\ \A u \in Uuids \ {claim} : Matrix(u)' = Matrix(u)
                    /\ Matrix(claim) \subseteq apm'[claim] \X aqm'[claim]
                    /\ apm'[claim] \X aqm'[claim] \subseteq spec[claim].devices
           Goal == Kept \/ (\E x \in Uuids : Emptied(x)) \/ Grown
<1>a. /\ mdevs \subseteq Uuids
      /\ apm \in [Uuids -> SUBSET Adapters]
      /\ aqm \in [Uuids -> SUBSET Domains]
      /\ spec \in [Claims -> Specs]
      /\ Claims \subseteq Uuids
  BY Zenon DEF ClaimInv, TypeOK, SysfsTypeOK, DeviceStateTypeOK, Uuids
<1>b. pc \in PrepareSteps \cup UnprepareSteps => claim \in Uuids
  BY Zenon, <1>a DEF ClaimInv, OperationOK
<1>1. ASSUME UNCHANGED <<apm, aqm>>
      PROVE  Goal
  BY Zenon, <1>1 DEF Matrix
<1>2. ASSUME NEW x \in Uuids, RemoveMdev(x)
      PROVE  Goal
  <2>1. apm' = [apm EXCEPT ![x] = {}] /\ aqm' = [aqm EXCEPT ![x] = {}]
    BY Zenon, <1>2 DEF RemoveMdev
  <2>2. Emptied(x)
    BY Zenon, <1>a, <2>1 DEF Matrix
  <2> QED
    BY Zenon, <2>2
<1>3. ASSUME NEW ok \in BOOLEAN,
             (\E a \in Adapters : AssignAdapter(a, ok)) \/ (\E d \in Domains : AssignDomain(d, ok))
      PROVE  Goal
  <2>1. CASE ~AssignSucceeds(ok)
    BY Zenon, <1>1, <1>3, <2>1 DEF AssignAdapter, AssignDomain
  <2>2. CASE AssignSucceeds(ok)
    <3>1. claim \in Claims \cap mdevs
      BY Zenon, <1>3, <2>2 DEF AssignAdapter, AssignDomain, AssignSucceeds, ClaimInv,
         OperationOK, PrepareSteps
    <3>2. /\ pc = "assign"
          /\ UNCHANGED <<driver, override, claim, spec, todo, switched, cur>>
          /\ pc' \in {"assign", "control", "metadata"}
          /\ mdevs' = mdevs
      BY Zenon, <1>3, <2>2 DEF AssignAdapter, AssignDomain, GoTo
    <3>3. \A u \in Uuids \ {claim} : apm'[u] = apm[u] /\ aqm'[u] = aqm[u]
      BY Zenon, <1>3, <1>a, <2>2 DEF AssignAdapter, AssignDomain
    <3>4. /\ MatrixConstraint(spec[claim])
          /\ apm'[claim] \in SUBSET apids(spec[claim])
          /\ aqm'[claim] \in SUBSET apqis(spec[claim])
      <4>1. /\ MatrixConstraint(spec[claim])
            /\ apm[claim] \subseteq apids(spec[claim]) /\ aqm[claim] \subseteq apqis(spec[claim])
        BY Zenon, <3>1 DEF ClaimInv, MdevsOK
      <4>2. CASE \E a \in Adapters : AssignAdapter(a, ok)
        <5>1. PICK a \in apids(spec[claim]) : apm' = [apm EXCEPT ![claim] = @ \cup {a}] /\ aqm' = aqm
          BY Zenon, <2>2, <4>2 DEF AssignAdapter
        <5>2. apm'[claim] = apm[claim] \cup {a}
          BY Zenon, <1>a, <3>1, <5>1
        <5> QED
          BY Zenon, <4>1, <5>1, <5>2
      <4>3. CASE \E d \in Domains : AssignDomain(d, ok)
        <5>1. PICK d \in apqis(spec[claim]) : aqm' = [aqm EXCEPT ![claim] = @ \cup {d}] /\ apm' = apm
          BY Zenon, <2>2, <4>3 DEF AssignDomain
        <5>2. aqm'[claim] = aqm[claim] \cup {d}
          BY Zenon, <1>a, <3>1, <5>1
        <5> QED
          BY Zenon, <4>1, <5>1, <5>2
      <4> QED
        BY Zenon, <1>3, <4>2, <4>3
    <3>5. apm'[claim] \X aqm'[claim] \subseteq spec[claim].devices
      BY <1>a, <3>1, <3>4, CrossWithin
    <3>6. apm[claim] \subseteq apm'[claim] /\ aqm[claim] \subseteq aqm'[claim]
      BY <1>3, <1>a, <2>2, <3>1 DEF AssignAdapter, AssignDomain
    <3>7. Matrix(claim) \subseteq apm'[claim] \X aqm'[claim]
      BY Zenon, <3>6 DEF Matrix
    <3>8. \A u \in Uuids \ {claim} : Matrix(u)' = Matrix(u)
      BY Zenon, <3>3 DEF Matrix
    <3> QED
      BY <3>1, <3>2, <3>5, <3>7, <3>8
  <2> QED
    BY Zenon, <2>1, <2>2
<1> HIDE DEF Goal
<1>4. ASSUME (\E ok \in BOOLEAN : SwitchStep(ok)) \/ SwitchDeadline \/ SwitchDone \/ DrainOrphanedVFIOAP
      PROVE  Goal
  BY <1>1, <1>4, SwitchFrame
<1>5. ASSUME NEW ok \in BOOLEAN, DestroyPartial(ok) \/ DestroyPartialMdev(ok) \/ UnprepareDestroy(ok)
      PROVE  Goal
  <2>1. claim \in Uuids /\ Destroy(ok)
    BY <1>5, <1>b DEF DestroyPartial, DestroyPartialMdev, UnprepareDestroy, PrepareSteps, UnprepareSteps
  <2> QED
    BY Zenon, <1>1, <1>2, <2>1 DEF Destroy
<1>6. ASSUME NEW ok \in BOOLEAN,
             \/ CreateMdev(ok) \/ \E d \in Domains : AssignControlDomain(d, ok)
             \/ GenerateClaimMetadata(ok) \/ GenerateClaimSpec(ok)
             \/ DeleteClaimMetadata(ok) \/ ReadMatrix(ok)
             \/ GCStaleClaimSpecs(ok) \/ GCStaleClaimMetadata(ok) \/ InitialScan(ok)
      PROVE  Goal
  BY Zenon, <1>1, <1>6 DEF CreateMdev, AssignControlDomain, GenerateClaimMetadata, GenerateClaimSpec,
     DeleteClaimMetadata, ReadMatrix, GCStaleClaimSpecs, GCStaleClaimMetadata, InitialScan
<1>7. ASSUME NEW c \in Claims, Call(c)
      PROVE  Goal
  BY Zenon, <1>1, <1>2, <1>7, <1>a DEF Call, PrepareRejects, PrepareContainer, PrepareVM, PrepareUnread,
     UnprepareBegins
<1>8. ASSUME NEW c \in Claims, Deallocate(c) \/ \E s \in Specs : Allocate(c, s)
      PROVE  Goal
  BY Zenon, <1>1, <1>8 DEF Deallocate, Allocate
<1>9. ASSUME Start \/ Rescan \/ Crash \/ ReturnDone \/ WriteMasks
      PROVE  Goal
  BY Zenon, <1>1, <1>9 DEF Start, Rescan, Crash, ReturnDone, WriteMasks
<1>10. ASSUME NEW u \in Uuids, ExternalRemove(u)
       PROVE  Goal
  BY Zenon, <1>2, <1>10 DEF ExternalRemove
<1> SUFFICES Goal
  BY Zenon DEF Goal
<1> QED
  BY Zenon, <1>3, <1>4, <1>5, <1>6, <1>7, <1>8, <1>9, <1>10 DEF Next, Progress, Step

\* The matrix of an mdev that does not exist is empty.
LEMMA ClaimedIsAll == ClaimInv => Claimed(mdevs) = UNION {Matrix(u) : u \in Uuids}
<1> SUFFICES ASSUME ClaimInv PROVE Claimed(mdevs) = UNION {Matrix(u) : u \in Uuids}
  OBVIOUS
<1>1. mdevs \subseteq Uuids
  BY Zenon DEF ClaimInv, TypeOK, SysfsTypeOK
<1>2. \A u \in Uuids \ mdevs : Matrix(u) = {}
  BY Zenon DEF ClaimInv, MdevsOK, Matrix
<1> QED
  BY Zenon, <1>1, <1>2 DEF Claimed

\* Only assignMdevMatrix adds queues to a matrix, and only queues of its claim.
LEMMA ClaimedGrowth ==
    ASSUME ClaimInv, Next
    PROVE  \/ Claimed(mdevs)' \subseteq Claimed(mdevs)
           \/ /\ pc = "assign"
              /\ UNCHANGED <<driver, override, claim, spec, todo, switched, cur>>
              /\ pc' \in {"assign", "control", "metadata"}
              /\ Claimed(mdevs)' \subseteq Claimed(mdevs) \cup spec[claim].devices
<1>1. mdevs' \subseteq Uuids
  BY Zenon, TypeStep DEF TypeOK, SysfsTypeOK
<1>2. \A u \in Uuids : Matrix(u) \subseteq Claimed(mdevs)
  BY Zenon, ClaimedIsAll
<1>3. ASSUME NEW S, \A u \in Uuids : Matrix(u)' \subseteq S
      PROVE  Claimed(mdevs)' \subseteq S
  BY Zenon, <1>1, <1>3 DEF Claimed
<1>4. ASSUME NEW x \in Uuids, \A u \in Uuids \ {x} : Matrix(u)' = Matrix(u), Matrix(x)' = {}
      PROVE  Claimed(mdevs)' \subseteq Claimed(mdevs)
  <2>1. \A u \in Uuids : Matrix(u)' \subseteq Claimed(mdevs)
    BY <1>2, <1>4
  <2> QED
    BY Zenon, <1>3, <2>1
<1>5. ASSUME \A u \in Uuids : Matrix(u)' = Matrix(u)
      PROVE  Claimed(mdevs)' \subseteq Claimed(mdevs)
  BY Zenon, <1>2, <1>3, <1>5
<1>6. ASSUME claim' = claim, \A u \in Uuids \ {claim} : Matrix(u)' = Matrix(u),
             apm'[claim] \X aqm'[claim] \subseteq spec[claim].devices
      PROVE  Claimed(mdevs)' \subseteq Claimed(mdevs) \cup spec[claim].devices
  <2>1. \A u \in Uuids : Matrix(u)' \subseteq Claimed(mdevs) \cup spec[claim].devices
    BY Zenon, <1>2, <1>6 DEF Matrix
  <2> QED
    BY Zenon, <1>3, <2>1
<1> QED
  BY Zenon, <1>4, <1>5, <1>6, MatrixFrame

\* Only the switches write a driver or an override.
LEMMA QueueFrame ==
    ASSUME Next
    PROVE  UNCHANGED queueVars \/ \E ok \in BOOLEAN : SwitchStep(ok) /\ UNCHANGED claimVars
<1>1. ASSUME SwitchDeadline \/ SwitchDone \/ DrainOrphanedVFIOAP \/ ReturnDone
      PROVE  UNCHANGED queueVars
  BY Zenon, <1>1 DEF SwitchDeadline, SwitchDone, DrainOrphanedVFIOAP, ReturnDone
<1>2. ASSUME NEW ok \in BOOLEAN, Step(ok), ~SwitchStep(ok)
      PROVE  UNCHANGED queueVars
  BY Zenon, <1>2 DEF Step, DestroyPartial, CreateMdev, AssignAdapter, AssignDomain, AssignControlDomain,
     DestroyPartialMdev, GenerateClaimMetadata, GenerateClaimSpec, DeleteClaimMetadata, ReadMatrix,
     UnprepareDestroy, GCStaleClaimSpecs, GCStaleClaimMetadata, InitialScan
<1>3. ASSUME NEW c \in Claims, Call(c) \/ Deallocate(c) \/ \E s \in Specs : Allocate(c, s)
      PROVE  UNCHANGED queueVars
  BY Zenon, <1>3 DEF Call, PrepareRejects, PrepareContainer, PrepareVM, PrepareUnread, UnprepareBegins,
     Deallocate, Allocate
<1>4. ASSUME Start \/ Rescan \/ Crash \/ \E u \in Uuids : ExternalRemove(u)
      PROVE  UNCHANGED queueVars
  BY Zenon, <1>4 DEF Start, Rescan, Crash, ExternalRemove
<1>5. ASSUME WriteMasks
      PROVE  UNCHANGED queueVars
  BY Zenon, <1>5 DEF WriteMasks
<1>6. ASSUME NEW ok \in BOOLEAN, Step(ok), SwitchStep(ok)
      PROVE  UNCHANGED claimVars \/ UNCHANGED queueVars
  BY Zenon, <1>6 DEF Step, DestroyPartial, CreateMdev, AssignAdapter, AssignDomain, AssignControlDomain,
     DestroyPartialMdev, GenerateClaimMetadata, GenerateClaimSpec, DeleteClaimMetadata, ReadMatrix,
     UnprepareDestroy, GCStaleClaimSpecs, GCStaleClaimMetadata, InitialScan
<1> QED
  BY <1>1, <1>2, <1>3, <1>4, <1>5, <1>6 DEF Next, Progress

-----------------------------------------------------------------------------
(* The steps *)

\* No step takes a queue from under a live mdev.
LEMMA BoundStep == BindingInv /\ Next => ClaimedQueuesBound'
<1> SUFFICES ASSUME BindingInv, Next PROVE ClaimedQueuesBound'
  OBVIOUS
<1>a. /\ driver \in [Queues -> Drivers]
      /\ override \in [Queues -> Overrides]
      /\ todo \subseteq Queues
  BY Zenon DEF BindingInv, ClaimInv, TypeOK, SysfsTypeOK, BindingTypeOK
<1>b. Claimed(mdevs) \subseteq Queues
  BY Zenon, ClaimedAreQueues DEF BindingInv
<1>c. \A q \in Claimed(mdevs) : driver[q] = "vfio_ap" /\ override[q] = "vfio_ap"
  BY Zenon DEF BindingInv, ClaimedQueuesBound
<1>1. ASSUME UNCHANGED queueVars
      PROVE  ClaimedQueuesBound'
  <2>1. CASE Claimed(mdevs)' \subseteq Claimed(mdevs)
    BY Zenon, <1>1, <1>c, <2>1 DEF ClaimedQueuesBound
  <2>2. CASE pc = "assign" /\ Claimed(mdevs)' \subseteq Claimed(mdevs) \cup spec[claim].devices
    BY <1>1, <1>c, <2>2 DEF ClaimedQueuesBound, BindingInv, SwitchedReady, Ready
  <2> QED
    BY <2>1, <2>2, ClaimedGrowth DEF BindingInv
<1>2. ASSUME NEW ok \in BOOLEAN, SwitchStep(ok)
      PROVE  ClaimedQueuesBound'
  <2>a. Claimed(mdevs)' = Claimed(mdevs)
    BY Zenon, <1>2, SwitchFrame DEF Claimed, Matrix
  <2> SUFFICES ASSUME NEW q \in Claimed(mdevs)
               PROVE  driver'[q] = "vfio_ap" /\ override'[q] = "vfio_ap"
    BY Zenon, <2>a DEF ClaimedQueuesBound
  <2>b. q \in Queues /\ driver[q] = "vfio_ap" /\ override[q] = "vfio_ap"
    BY Zenon, <1>b, <1>c
  <2>c. pc \in {"vfio_unbind", "vfio_probe"} => q # cur
    <3> SUFFICES ASSUME pc \in {"vfio_unbind", "vfio_probe"} PROVE q # cur
      OBVIOUS
    <3>1. claim \in Claims /\ phase[claim] # "free" /\ claim \notin mdevs
      BY Zenon DEF BindingInv, ClaimInv, OperationOK, SwitchesWithoutMdev, PrepareSteps
    <3>2. cur \in spec[claim].devices
      BY Zenon DEF BindingInv, SwitchedReady
    <3> QED
      BY Zenon, <3>1, <3>2, AllocationExclusive DEF BindingInv
  <2>d. pc \in ReturnSteps => q \notin todo /\ q # cur
    BY Zenon DEF BindingInv, ReturnedUnclaimed
  <2>1. ASSUME NEW x \in Queues, SetOverride(x, ok)
        PROVE  driver'[q] = "vfio_ap" /\ override'[q] = "vfio_ap"
    BY <1>a, <2>1, <2>b DEF SetOverride
  <2>2. ASSUME UnbindForVFIOAP(ok) \/ ProbeForVFIOAP(ok)
        PROVE  driver'[q] = "vfio_ap" /\ override'[q] = "vfio_ap"
    BY Zenon, <1>a, <2>2, <2>b, <2>c DEF UnbindForVFIOAP, ProbeForVFIOAP
  <2>3. ASSUME NEW x \in Queues, UnbindForZcrypt(x, ok)
        PROVE  driver'[q] = "vfio_ap" /\ override'[q] = "vfio_ap"
    BY <1>a, <2>3, <2>b, <2>d DEF UnbindForZcrypt, ReturnSteps
  <2>4. ASSUME ClearOverride(ok) \/ ProbeForZcrypt(ok) \/ RestoreMarker(ok)
        PROVE  driver'[q] = "vfio_ap" /\ override'[q] = "vfio_ap"
    BY <1>a, <2>4, <2>b, <2>d DEF ClearOverride, ProbeForZcrypt, RestoreMarker, ReturnSteps
  <2> QED
    BY Zenon, <1>2, <2>1, <2>2, <2>3, <2>4 DEF SwitchStep
<1> QED
  BY Zenon, <1>1, <1>2, QueueFrame

\* Every step keeps the switching loop's account of its queues.
LEMMA SwitchedStep == ClaimInv /\ SwitchedReady /\ Next => SwitchedReady'
<1> SUFFICES ASSUME ClaimInv, SwitchedReady, Next PROVE SwitchedReady'
  OBVIOUS
<1>a. /\ driver \in [Queues -> Drivers]
      /\ override \in [Queues -> Overrides]
      /\ todo \subseteq Queues
      /\ switched \subseteq Queues
      /\ spec \in [Claims -> Specs]
      /\ pc \in Steps
  BY Zenon DEF ClaimInv, TypeOK, SysfsTypeOK, BindingTypeOK, DeviceStateTypeOK
<1>b. /\ pc \in PrepareSteps => claim \in Claims /\ phase[claim] = "pending"
      /\ pc \in {"vfio_unbind", "vfio_probe", "clear", "probe", "restore"} => cur \in Queues
  BY Zenon DEF ClaimInv, OperationOK
<1>c. SwitchedReady
  OBVIOUS
<1>s. pc = "switch" => spec[claim].devices \subseteq todo \cup switched
  <2> SUFFICES ASSUME pc = "switch" PROVE spec[claim].devices \subseteq todo \cup switched
    OBVIOUS
  <2>1. spec[claim].devices \subseteq Queues
    BY <1>a, <1>b, DevicesAreQueues DEF PrepareSteps
  <2> QED
    BY Zenon, <1>c, <2>1, NoQueueAssumption DEF SwitchedReady
<1>1. ASSUME NEW p, Finish(p)
      PROVE  SwitchedReady'
  BY Zenon, <1>1 DEF Finish, SwitchedReady
<1>2. ASSUME Stopped
      PROVE  SwitchedReady'
  BY Zenon, <1>2 DEF Stopped, SwitchedReady
<1>3. ASSUME NEW queues, Rollback(queues)
      PROVE  SwitchedReady'
  BY Zenon, <1>3 DEF Rollback, SwitchedReady
<1>4. ASSUME SwitchDeadline
      PROVE  SwitchedReady'
  BY <1>3, <1>4 DEF SwitchDeadline
<1>5. ASSUME NEW q \in Queues, NEW ok \in BOOLEAN, SetOverride(q, ok), UNCHANGED claimVars
      PROVE  SwitchedReady'
  <2>1. CASE ~OverrideAccepted(ok)
    BY <1>3, <1>5, <2>1 DEF SetOverride
  <2>2. CASE OverrideAccepted(ok)
    <3>1. /\ pc = "switch" /\ q \in todo
          /\ override' = [override EXCEPT ![q] = "vfio_ap"]
          /\ pc' = "vfio_unbind" /\ todo' = todo \ {q} /\ cur' = q
          /\ UNCHANGED <<switched, driver, spec, claim>>
      BY <1>5, <2>2 DEF SetOverride
    <3>2. q \notin switched /\ q \in spec[claim].devices
      BY Zenon, <1>c, <3>1 DEF SwitchedReady
    <3>3. \A x \in switched' : Ready(x)' /\ x \notin todo' \cup {cur'}
      BY <1>a, <1>c, <3>1, <3>2 DEF SwitchedReady, Ready
    <3>4. override'[q] = "vfio_ap"
      BY Zenon, <1>a, <3>1
    <3>5. /\ spec[claim].devices \subseteq todo' \cup switched' \cup {cur'}
          /\ todo' \cup switched' \subseteq spec[claim].devices
      BY <1>c, <1>s, <3>1 DEF SwitchedReady
    <3> QED
      BY Zenon, <3>1, <3>2, <3>3, <3>4, <3>5 DEF SwitchedReady
  <2> QED
    BY Zenon, <2>1, <2>2
<1>6. ASSUME NEW ok \in BOOLEAN, UnbindForVFIOAP(ok), UNCHANGED claimVars
      PROVE  SwitchedReady'
  <2>1. CASE ~UnbindSucceeds(cur, ok)
    BY <1>3, <1>6, <2>1 DEF UnbindForVFIOAP
  <2>2. CASE UnbindSucceeds(cur, ok)
    BY <1>6, <1>a, <1>c, <2>2 DEF UnbindForVFIOAP, SwitchedReady, Ready
  <2> QED
    BY Zenon, <2>1, <2>2
<1>7. ASSUME NEW ok \in BOOLEAN, ProbeForVFIOAP(ok), UNCHANGED claimVars
      PROVE  SwitchedReady'
  <2>1. CASE ~ok
    BY Zenon, <1>3, <1>7, <2>1 DEF ProbeForVFIOAP
  <2>2. CASE ok
    <3>1. /\ pc = "vfio_probe" /\ pc' = "switch"
          /\ driver' = [driver EXCEPT ![cur] = "vfio_ap"]
          /\ switched' = switched \cup {cur} /\ cur' = NoQueue
          /\ UNCHANGED <<todo, override, spec, claim>>
      BY Zenon, <1>7, <1>c, <2>2 DEF ProbeForVFIOAP, Probed, SwitchedReady
    <3>2. cur \in Queues /\ cur \in spec[claim].devices /\ override[cur] = "vfio_ap" /\ cur \notin todo
      BY Zenon, <1>b, <1>c, <3>1 DEF SwitchedReady
    <3>3. \A q \in switched' : Ready(q)' /\ q \notin todo' \cup {cur'}
      BY <1>a, <1>c, <3>1, <3>2, NoQueueAssumption DEF SwitchedReady, Ready
    <3> QED
      BY Zenon, <1>a, <1>c, <3>1, <3>2, <3>3, NoQueueAssumption DEF SwitchedReady
  <2> QED
    BY Zenon, <2>1, <2>2
<1>8. ASSUME SwitchDone, UNCHANGED claimVars
      PROVE  SwitchedReady'
  <2>1. \A q \in spec[claim].devices : Ready(q)
    BY Zenon, <1>8, <1>c, <1>s DEF SwitchDone, SwitchedReady
  <2> QED
    BY Zenon, <1>8, <1>c, <2>1 DEF SwitchDone, SwitchedReady, Ready
<1>9. ASSUME NEW ok \in BOOLEAN,
             \/ \E q \in Queues : UnbindForZcrypt(q, ok)
             \/ ClearOverride(ok) \/ ProbeForZcrypt(ok) \/ RestoreMarker(ok)
      PROVE  SwitchedReady'
  <2>1. /\ pc \in ReturnSteps /\ pc' \in ReturnSteps
        /\ switched' = switched
        /\ pc' = "return" => cur' = NoQueue
    BY Zenon, <1>9 DEF UnbindForZcrypt, ClearOverride, ProbeForZcrypt, RestoreMarker, BackToLoop,
       ReturnSteps
  <2> QED
    BY Zenon, <1>c, <2>1 DEF SwitchedReady, ReturnSteps
<1>10. ASSUME DrainOrphanedVFIOAP
       PROVE  SwitchedReady'
  BY Zenon, <1>10, <1>c DEF DrainOrphanedVFIOAP, SwitchedReady
<1>11. ASSUME NEW ok \in BOOLEAN, DestroyPartial(ok)
       PROVE  SwitchedReady'
  <2>1. CASE ~DestroySucceeds(ok)
    BY Zenon, <1>1, <1>11, <2>1 DEF DestroyPartial
  <2>2. CASE DestroySucceeds(ok)
    <3>1. spec[claim].devices \subseteq Queues
      BY Zenon, <1>11, <1>a, <1>b, DevicesAreQueues DEF DestroyPartial, PrepareSteps
    <3> QED
      BY Zenon, <1>11, <1>c, <2>2, <3>1, NoQueueAssumption DEF DestroyPartial, SwitchedReady
  <2> QED
    BY Zenon, <2>1, <2>2
<1>12. ASSUME NEW ok \in BOOLEAN, CreateMdev(ok)
       PROVE  SwitchedReady'
  BY Zenon, <1>1, <1>12, <1>c DEF CreateMdev, GoTo, SwitchedReady, Ready
<1>13. ASSUME NEW ok \in BOOLEAN,
              \/ \E a \in Adapters : AssignAdapter(a, ok)
              \/ \E d \in Domains : AssignDomain(d, ok) \/ AssignControlDomain(d, ok)
       PROVE  SwitchedReady'
  <2>1. /\ pc \in {"assign", "control"} /\ pc' \in {"assign", "control", "metadata", "abandon"}
        /\ UNCHANGED <<switched, cur, driver, override, spec, claim>>
    BY Zenon, <1>13 DEF AssignAdapter, AssignDomain, AssignControlDomain, GoTo
  <2> QED
    BY Zenon, <1>c, <2>1 DEF SwitchedReady, Ready
<1>14. ASSUME NEW ok \in BOOLEAN,
              \/ DestroyPartialMdev(ok) \/ GenerateClaimMetadata(ok) \/ GenerateClaimSpec(ok)
       PROVE  SwitchedReady'
  BY Zenon, <1>1, <1>14, <1>c DEF DestroyPartialMdev, GenerateClaimMetadata, GenerateClaimSpec, GoTo,
     SwitchedReady
<1>15. ASSUME NEW ok \in BOOLEAN, DeleteClaimMetadata(ok) \/ ReadMatrix(ok)
       PROVE  SwitchedReady'
  BY Zenon, <1>15, <1>c DEF DeleteClaimMetadata, ReadMatrix, GoTo, SwitchedReady
<1>16. ASSUME NEW ok \in BOOLEAN, UnprepareDestroy(ok)
       PROVE  SwitchedReady'
  BY <1>1, <1>16, <1>c DEF UnprepareDestroy, GoTo, SwitchedReady
<1>17. ASSUME NEW ok \in BOOLEAN,
              GCStaleClaimSpecs(ok) \/ GCStaleClaimMetadata(ok) \/ InitialScan(ok)
       PROVE  SwitchedReady'
  BY Zenon, <1>1, <1>2, <1>17, <1>c DEF GCStaleClaimSpecs, GCStaleClaimMetadata, InitialScan, GoTo,
     SwitchedReady
<1>18. ASSUME ReturnDone
       PROVE  SwitchedReady'
  BY Zenon, <1>1, <1>18, <1>c DEF ReturnDone, GoTo, SwitchedReady
<1>19. ASSUME NEW c \in Claims, NEW ok \in BOOLEAN,
              \/ PrepareRejects(c) \/ PrepareContainer(c) \/ PrepareUnread(c)
              \/ UnprepareBegins(c, ok)
       PROVE  SwitchedReady'
  BY Zenon, <1>19, <1>c DEF PrepareRejects, PrepareContainer, PrepareUnread, UnprepareBegins, Begins,
     SwitchedReady
<1>20. ASSUME NEW c \in Claims, PrepareVM(c)
       PROVE  SwitchedReady'
  <2>1. spec[c].devices \subseteq Queues
    BY <1>a, DevicesAreQueues
  <2> QED
    BY Zenon, <1>20, <1>c, <2>1, NoQueueAssumption DEF PrepareVM, Begins, SwitchedReady
<1>21. ASSUME Start
       PROVE  SwitchedReady'
  BY Zenon, <1>21, <1>c DEF Start, SwitchedReady
<1>22. ASSUME Rescan
       PROVE  SwitchedReady'
  BY Zenon, <1>22, <1>c DEF Rescan, SwitchedReady
<1>23. ASSUME Crash
       PROVE  SwitchedReady'
  BY Zenon, <1>2, <1>23 DEF Crash
<1>24. ASSUME WriteMasks
       PROVE  SwitchedReady'
  BY Zenon, <1>24, <1>c DEF WriteMasks, SwitchedReady, Ready
<1>25. ASSUME NEW u \in Uuids, ExternalRemove(u)
       PROVE  SwitchedReady'
  BY Zenon, <1>25, <1>c DEF ExternalRemove, SwitchedReady, Ready
<1>26. ASSUME NEW c \in Claims, Deallocate(c) \/ \E s \in Specs : Allocate(c, s)
       PROVE  SwitchedReady'
  <2>1. UNCHANGED <<pc, todo, switched, cur, claim, driver, override>>
    BY Zenon, <1>26 DEF Deallocate, Allocate
  <2>2. pc \in PrepareSteps => spec'[claim] = spec[claim]
    BY Zenon, <1>26, <1>a, <1>b DEF Deallocate, Allocate
  <2> QED
    BY Zenon, <1>c, <2>1, <2>2 DEF SwitchedReady, Ready, PrepareSteps
<1> QED
  BY Zenon, <1>4, <1>5, <1>6, <1>7, <1>8, <1>9, <1>10, <1>11, <1>12, <1>13, <1>14, <1>15,
     <1>16, <1>17, <1>18, <1>19, <1>20, <1>21, <1>22, <1>23, <1>24, <1>25, <1>26
  DEF Next, Progress, Call, Step, SwitchStep

-----------------------------------------------------------------------------
(* The queues on their way back *)

\* Every step keeps the queues on their way back out of every mdev: a rollback
\* returns queues of a claim without an mdev, Unprepare those of the mdev it
\* removed, the drain those it found in no matrix.
LEMMA ReturnedStep ==
    "matrix_read" \notin Faults /\ BindingInv /\ Next => ReturnedUnclaimed'
<1> SUFFICES ASSUME "matrix_read" \notin Faults, BindingInv, Next PROVE ReturnedUnclaimed'
  OBVIOUS
<1>a. ClaimInv /\ SwitchedReady /\ ReturnedUnclaimed
  BY Zenon DEF BindingInv
<1>b. NoQueue \notin Claimed(mdevs)
  BY <1>a, ClaimedAreQueues, NoQueueAssumption
<1>c. pc \in {"switch", "vfio_unbind", "vfio_probe"} =>
         /\ spec[claim].devices \cap Claimed(mdevs) = {}
         /\ switched \subseteq spec[claim].devices
  BY Zenon, <1>a, AllocationExclusive
  DEF ClaimInv, OperationOK, SwitchesWithoutMdev, PrepareSteps, SwitchedReady
<1>d. pc \in {"vfio_unbind", "vfio_probe"} => cur \in spec[claim].devices
  BY Zenon, <1>a DEF SwitchedReady
<1>1. ASSUME pc' \notin ReturnSteps \cup {"destroy"}
      PROVE  ReturnedUnclaimed'
  BY Zenon, <1>1 DEF ReturnedUnclaimed
<1>2. ASSUME (\E ok \in BOOLEAN : SwitchStep(ok)) \/ SwitchDeadline \/ SwitchDone \/ DrainOrphanedVFIOAP
      PROVE  Claimed(mdevs)' = Claimed(mdevs)
  BY <1>2, SwitchFrame DEF Claimed, Matrix
<1>3. ASSUME NEW queues, Rollback(queues), queues \cap Claimed(mdevs) = {},
             Claimed(mdevs)' = Claimed(mdevs)
      PROVE  ReturnedUnclaimed'
  BY Zenon, <1>3, <1>b DEF Rollback, ReturnedUnclaimed
<1>4. ASSUME SwitchDeadline
      PROVE  ReturnedUnclaimed'
  BY <1>2, <1>3, <1>4, <1>c DEF SwitchDeadline
<1>5. ASSUME NEW q \in Queues, NEW ok \in BOOLEAN, SetOverride(q, ok)
      PROVE  ReturnedUnclaimed'
  <2>1. Claimed(mdevs)' = Claimed(mdevs)
    BY <1>2, <1>5 DEF SwitchStep
  <2>2. pc = "switch" /\ q \in spec[claim].devices
    BY Zenon, <1>5, <1>a DEF SetOverride, SwitchedReady
  <2>3. CASE OverrideAccepted(ok)
    BY <1>1, <1>5, <2>3 DEF SetOverride, ReturnSteps
  <2>4. CASE ~OverrideAccepted(ok)
    BY <1>3, <1>5, <1>c, <2>1, <2>2, <2>4 DEF SetOverride
  <2> QED
    BY Zenon, <2>3, <2>4
<1>6. ASSUME NEW ok \in BOOLEAN, UnbindForVFIOAP(ok) \/ ProbeForVFIOAP(ok)
      PROVE  ReturnedUnclaimed'
  <2>1. Claimed(mdevs)' = Claimed(mdevs)
    BY Zenon, <1>2, <1>6 DEF SwitchStep
  <2>2. \/ pc' \in {"vfio_probe", "switch"}
        \/ pc \in {"vfio_unbind", "vfio_probe"} /\ Rollback(switched \cup {cur})
    BY <1>6 DEF UnbindForVFIOAP, ProbeForVFIOAP
  <2> QED
    BY <1>1, <1>3, <1>c, <1>d, <2>1, <2>2 DEF ReturnSteps
<1>7. ASSUME SwitchDone
      PROVE  ReturnedUnclaimed'
  BY Zenon, <1>1, <1>7 DEF SwitchDone, ReturnSteps
<1>8. ASSUME NEW ok \in BOOLEAN,
             \/ \E q \in Queues : UnbindForZcrypt(q, ok)
             \/ ClearOverride(ok) \/ ProbeForZcrypt(ok) \/ RestoreMarker(ok)
      PROVE  ReturnedUnclaimed'
  <2>1. Claimed(mdevs)' = Claimed(mdevs)
    BY Zenon, <1>2, <1>8 DEF SwitchStep
  <2>2. /\ pc \in ReturnSteps /\ pc' \in ReturnSteps
        /\ todo' \cup {cur'} \subseteq todo \cup {cur, NoQueue}
    BY <1>8 DEF UnbindForZcrypt, ClearOverride, ProbeForZcrypt, RestoreMarker, BackToLoop,
       ReturnSteps
  <2> QED
    BY <1>a, <1>b, <2>1, <2>2 DEF ReturnedUnclaimed, ReturnSteps
<1>9. ASSUME DrainOrphanedVFIOAP
      PROVE  ReturnedUnclaimed'
  <2>1. todo' \cap Claimed(mdevs) = {}
    BY Zenon, <1>9 DEF DrainOrphanedVFIOAP, Drained, liveAPQNs
  <2>2. cur' = NoQueue /\ pc' = "return"
    BY Zenon, <1>9, <1>a DEF DrainOrphanedVFIOAP, SwitchedReady
  <2>3. Claimed(mdevs)' = Claimed(mdevs)
    BY <1>2, <1>9
  <2> QED
    BY Zenon, <1>b, <2>1, <2>2, <2>3 DEF ReturnedUnclaimed
<1>10. ASSUME NEW ok \in BOOLEAN, ReadMatrix(ok)
       PROVE  ReturnedUnclaimed'
  <2>1. pc' = "destroy" /\ UNCHANGED <<mdevs, apm, aqm, claim>>
    BY <1>10 DEF ReadMatrix
  <2>2. todo' \cap Claimed(mdevs \ {claim}) = {}
    <3>1. ASSUME claim \in mdevs, NEW u \in mdevs \ {claim}
          PROVE  Matrix(claim) \cap Matrix(u) = {}
      BY Zenon, <1>a, <3>1, MatricesDisjoint DEF NoSharedQueue
    <3> QED
      BY <1>10, <3>1 DEF ReadMatrix, Claimed
  <2>3. Claimed(mdevs \ {claim})' = Claimed(mdevs \ {claim})
    BY Zenon, <2>1 DEF Claimed, Matrix
  <2> QED
    BY Zenon, <2>1, <2>2, <2>3 DEF ReturnedUnclaimed, ReturnSteps
<1>11. ASSUME NEW ok \in BOOLEAN, UnprepareDestroy(ok)
       PROVE  ReturnedUnclaimed'
  <2>1. CASE DestroySucceeds(ok) /\ todo # {}
    <3>1. RemoveMdev(claim) /\ pc = "destroy" /\ pc' = "return" /\ UNCHANGED <<todo, cur>>
      BY Zenon, <1>11, <2>1 DEF UnprepareDestroy, Destroy, GoTo
    <3>2. Claimed(mdevs)' \subseteq Claimed(mdevs \ {claim})
      BY Zenon, <3>1, <1>a DEF RemoveMdev, Claimed, Matrix, ClaimInv, TypeOK, SysfsTypeOK
    <3>3. cur = NoQueue /\ Claimed(mdevs \ {claim}) \subseteq Claimed(mdevs)
      BY Zenon, <3>1, <1>a DEF SwitchedReady, Claimed
    <3> QED
      BY <1>a, <1>b, <3>1, <3>2, <3>3 DEF ReturnedUnclaimed
  <2>2. CASE ~(DestroySucceeds(ok) /\ todo # {})
    BY Zenon, <1>1, <1>11, <2>2 DEF UnprepareDestroy, GoTo, Finish, ReturnSteps
  <2> QED
    BY Zenon, <2>1, <2>2
<1>12. ASSUME NEW ok \in BOOLEAN, DestroyPartial(ok) \/ CreateMdev(ok) \/ DestroyPartialMdev(ok)
       PROVE  ReturnedUnclaimed'
  BY Zenon, <1>1, <1>12 DEF DestroyPartial, CreateMdev, DestroyPartialMdev, GoTo, Finish, ReturnSteps
<1>13. ASSUME NEW ok \in BOOLEAN,
              \/ \E a \in Adapters : AssignAdapter(a, ok)
              \/ \E d \in Domains : AssignDomain(d, ok) \/ AssignControlDomain(d, ok)
       PROVE  ReturnedUnclaimed'
  BY Zenon, <1>1, <1>13 DEF AssignAdapter, AssignDomain, AssignControlDomain, GoTo, ReturnSteps
<1>14. ASSUME NEW ok \in BOOLEAN,
              GenerateClaimMetadata(ok) \/ GenerateClaimSpec(ok) \/ DeleteClaimMetadata(ok)
       PROVE  ReturnedUnclaimed'
  BY Zenon, <1>1, <1>14 DEF GenerateClaimMetadata, GenerateClaimSpec, DeleteClaimMetadata, GoTo,
     Finish, ReturnSteps
<1>15. ASSUME NEW ok \in BOOLEAN,
              GCStaleClaimSpecs(ok) \/ GCStaleClaimMetadata(ok) \/ InitialScan(ok)
       PROVE  ReturnedUnclaimed'
  BY <1>1, <1>15 DEF GCStaleClaimSpecs, GCStaleClaimMetadata, InitialScan, GoTo, Finish,
     Stopped, ReturnSteps
<1>16. ASSUME ReturnDone
       PROVE  ReturnedUnclaimed'
  BY Zenon, <1>1, <1>16 DEF ReturnDone, GoTo, Finish, ReturnSteps
<1>17. ASSUME NEW c \in Claims, NEW ok \in BOOLEAN,
              \/ PrepareRejects(c) \/ PrepareContainer(c) \/ PrepareVM(c) \/ PrepareUnread(c)
              \/ UnprepareBegins(c, ok)
       PROVE  ReturnedUnclaimed'
  BY Zenon, <1>1, <1>17 DEF PrepareRejects, PrepareContainer, PrepareVM, PrepareUnread,
     UnprepareBegins, Begins, ReturnSteps
<1>18. ASSUME Start \/ Rescan \/ Crash
       PROVE  ReturnedUnclaimed'
  BY Zenon, <1>1, <1>18 DEF Start, Rescan, Crash, Stopped, ReturnSteps
<1>19. ASSUME UNCHANGED <<pc, todo, cur, claim>>, mdevs' \subseteq mdevs,
              \A u \in mdevs' : Matrix(u)' \subseteq Matrix(u)
       PROVE  ReturnedUnclaimed'
  BY <1>19, <1>a DEF ReturnedUnclaimed, Claimed
<1>20. ASSUME WriteMasks
       PROVE  ReturnedUnclaimed'
  BY Zenon, <1>19, <1>20 DEF WriteMasks, Matrix
<1>21. ASSUME NEW u \in Uuids, ExternalRemove(u)
       PROVE  ReturnedUnclaimed'
  BY Zenon, <1>19, <1>21, <1>a DEF ExternalRemove, RemoveMdev, Matrix, ClaimInv, TypeOK, SysfsTypeOK
<1>22. ASSUME NEW c \in Claims, Deallocate(c) \/ \E s \in Specs : Allocate(c, s)
       PROVE  ReturnedUnclaimed'
  BY Zenon, <1>19, <1>22 DEF Deallocate, Allocate, Matrix
<1> QED
  BY Zenon, <1>4, <1>5, <1>6, <1>7, <1>8, <1>9, <1>10, <1>11, <1>12, <1>13, <1>14, <1>15,
     <1>16, <1>17, <1>18, <1>20, <1>21, <1>22
  DEF Next, Progress, Call, Step, SwitchStep

\* Before driver.New first runs the queues in a matrix are those of the foreign
\* mdevs.
LEMMA BindingInit == Init => BindingInv
<1> SUFFICES ASSUME Init PROVE BindingInv
  OBVIOUS
<1>1. Claimed(mdevs) = ForeignQueues
  BY SysfsAssumption DEF Init, SysfsInit, Claimed, Matrix, ForeignQueues, Uuids
<1>2. ClaimedQueuesBound
  BY Zenon, <1>1, SysfsAssumption DEF Init, SysfsInit, ClaimedQueuesBound
<1>3. SwitchedReady /\ ReturnedUnclaimed
  BY Zenon DEF Init, SwitchedReady, ReturnedUnclaimed, ReturnSteps
<1> QED
  BY Zenon, <1>2, <1>3, ClaimInit DEF BindingInv

\* Unless reading a live mdev's matrix fails, the invariant of the switches,
\* the rollback and the drain holds.
THEOREM BindingSafe ==
    ASSUME "matrix_read" \notin Faults
    PROVE  Spec => []BindingInv
<1>1. ClaimInv' /\ BindingInv /\ [Next]_vars => BindingInv'
  <2> SUFFICES ASSUME ClaimInv', BindingInv, [Next]_vars PROVE BindingInv'
    OBVIOUS
  <2>1. CASE Next
    BY Zenon, <2>1, SwitchedStep, ReturnedStep, BoundStep DEF BindingInv
  <2>2. CASE UNCHANGED vars
    <3>1. SwitchedReady' /\ ClaimedQueuesBound'
      BY Zenon, <2>2 DEF BindingInv, SwitchedReady, ClaimedQueuesBound, Ready, Claimed, Matrix
    <3>2. ReturnedUnclaimed'
      <4>1. UNCHANGED <<pc, todo, cur, claim, mdevs, apm, aqm>>
        BY Zenon, <2>2 DEF vars, sysfsVars, bindingVars, claimVars
      <4>2. Claimed(mdevs)' = Claimed(mdevs) /\ Claimed(mdevs \ {claim})' = Claimed(mdevs \ {claim})
        BY Zenon, <4>1 DEF Claimed, Matrix
      <4>3. ReturnedUnclaimed
        BY Zenon DEF BindingInv
      <4> QED
        BY Zenon, <4>1, <4>2, <4>3 DEF ReturnedUnclaimed
    <3> QED
      BY Zenon, <3>1, <3>2 DEF BindingInv
  <2> QED
    BY Zenon, <2>1, <2>2
<1> QED
  BY <1>1, BindingInit, ClaimsSafe, PTL DEF Spec

\* A queue in the matrix of a live mdev, foreign ones included, stays bound to
\* vfio_ap: no rollback, unprepare or drain takes it away, unless reading an
\* mdev's matrix fails (liveAPQNs then skips that mdev).
THEOREM ClaimedQueuesStayBound ==
    ASSUME "matrix_read" \notin Faults
    PROVE  Spec => []ClaimedQueuesBound
<1>1. BindingInv => ClaimedQueuesBound
  BY Zenon DEF BindingInv
<1> QED
  BY <1>1, BindingSafe, PTL

-----------------------------------------------------------------------------
(* The driver implements QueueOwnership *)

\* The refinement mapping of module Driver: what is allocated, ready and held.
Allocated == [c \in Claims |-> IF phase[c] = "free" THEN {} ELSE spec[c].devices]
ReadyQueues == {q \in Queues : driver[q] = "vfio_ap" /\ override[q] = "vfio_ap"}
Holdings == [u \in Uuids |-> Matrix(u)]

\* A switch works on one queue.
LEMMA SwitchOneQueue ==
    ASSUME ClaimInv, NEW ok \in BOOLEAN, SwitchStep(ok)
    PROVE  \E q \in Queues : \A x \in Queues \ {q} : driver'[x] = driver[x] /\ override'[x] = override[x]
<1>a. driver \in [Queues -> Drivers] /\ override \in [Queues -> Overrides]
  BY Zenon DEF ClaimInv, TypeOK, SysfsTypeOK
<1>b. pc \in {"vfio_unbind", "vfio_probe", "clear", "probe", "restore"} => cur \in Queues
  BY Zenon DEF ClaimInv, OperationOK
<1>1. ASSUME NEW q \in Queues, SetOverride(q, ok) \/ UnbindForZcrypt(q, ok)
      PROVE  \A x \in Queues \ {q} : driver'[x] = driver[x] /\ override'[x] = override[x]
  BY <1>1, <1>a DEF SetOverride, UnbindForZcrypt
<1>2. ASSUME UnbindForVFIOAP(ok) \/ ProbeForVFIOAP(ok) \/ ProbeForZcrypt(ok)
      PROVE  cur \in Queues /\ \A x \in Queues \ {cur} : driver'[x] = driver[x] /\ override'[x] = override[x]
  BY Zenon, <1>2, <1>a, <1>b DEF UnbindForVFIOAP, ProbeForVFIOAP, ProbeForZcrypt
<1>3. ASSUME ClearOverride(ok) \/ RestoreMarker(ok)
      PROVE  cur \in Queues /\ \A x \in Queues \ {cur} : driver'[x] = driver[x] /\ override'[x] = override[x]
  BY Zenon, <1>3, <1>a, <1>b DEF ClearOverride, RestoreMarker
<1> QED
  BY Zenon, <1>1, <1>2, <1>3 DEF SwitchStep

\* A step that keeps every claim's phase from or away from free keeps what is
\* allocated.
LEMMA AllocatedKept ==
    ASSUME spec' = spec, \A c \in Claims : phase'[c] = "free" <=> phase[c] = "free"
    PROVE  Allocated' = Allocated
BY Zenon DEF Allocated

\* Before driver.New first runs only the foreign mdevs hold queues.
LEMMA OwnershipInit == Init => Ownership!Init
<1> SUFFICES ASSUME Init PROVE Ownership!Init
  OBVIOUS
<1>a. ClaimInv /\ ClaimedQueuesBound
  BY Zenon, BindingInit DEF BindingInv
<1>1. Allocated = [c \in Claims |-> {}]
  BY Zenon DEF Init, Allocated
<1>2. ASSUME NEW u \in Uuids
      PROVE  Matrix(u) \subseteq ReadyQueues
  BY <1>a, ClaimedIsAll, ClaimedAreQueues DEF ClaimedQueuesBound, ReadyQueues
<1>3. ASSUME NEW u \in Uuids, NEW v \in Uuids, u # v
      PROVE  Matrix(u) \cap Matrix(v) = {}
  BY Zenon, <1>3, <1>a, MatricesDisjoint DEF NoSharedQueue, ClaimInv, MdevsOK, Matrix
<1>4. ASSUME NEW c \in Claims
      PROVE  c \in Uuids /\ Matrix(c) = {}
  BY Zenon, <1>a, SysfsAssumption DEF Init, SysfsInit, ClaimInv, MdevsOK, Matrix, Uuids
<1>5. Holdings \in [Uuids -> SUBSET ReadyQueues]
  BY Zenon, <1>2 DEF Holdings
<1> QED
  BY Zenon, <1>1, <1>3, <1>4, <1>5 DEF Ownership!Init, Allocated, ReadyQueues, Holdings

\* Every step of the driver is one of the promised steps, or none.
LEMMA OwnershipStep ==
    ASSUME ClaimInv, ClaimedQueuesBound', Next
    PROVE  Ownership!Next \/ UNCHANGED Ownership!vars
<1> DEFINE Goal == Ownership!Next \/ UNCHANGED Ownership!vars
<1> USE DEF Allocated, ReadyQueues, Holdings
<1>a. /\ spec \in [Claims -> Specs]
      /\ phase \in [Claims -> Phases]
      /\ Claims \subseteq Uuids
      /\ mdevs \subseteq Uuids
  BY Zenon DEF ClaimInv, TypeOK, SysfsTypeOK, DeviceStateTypeOK, Uuids
<1>b. \A u \in Uuids \ mdevs : Matrix(u) = {}
  BY Zenon DEF ClaimInv, MdevsOK, Matrix
<1>1. ASSUME NEW c \in Claims, NEW s \in Specs, Allocate(c, s)
      PROVE  Ownership!Next
  <2>1. s.devices \in SUBSET Queues
    BY Zenon, DevicesAreQueues
  <2>2. Allocated[c] = {} /\ \A d \in Claims : Allocated[d] \cap s.devices = {}
    BY Zenon, <1>1 DEF Allocate
  <2>3. ASSUME NEW u \in Uuids
        PROVE  Holdings[u] \cap s.devices = {}
    <3>1. CASE u \notin mdevs
      BY Zenon, <1>b, <3>1
    <3>2. CASE u \in mdevs /\ u \in Claims
      BY Zenon, <1>1, <3>2, MatrixInAllocation DEF Allocate, ClaimInv, MdevsOK
    <3>3. CASE u \in mdevs /\ u \in Foreign
      <4>1. Holdings[u] = Matrix(u)
        OBVIOUS
      <4>2. Matrix(u) \subseteq ForeignQueues
        BY Zenon, <3>3 DEF ClaimInv, MdevsOK, Matrix, ForeignQueues
      <4>3. s.devices \cap ForeignQueues = {}
        BY Zenon, DeviceStateAssumption
      <4> QED
        BY Zenon, <4>1, <4>2, <4>3
    <3> QED
      BY <3>1, <3>2, <3>3 DEF Uuids
  <2>4. Allocated' = [Allocated EXCEPT ![c] = s.devices]
    BY Zenon, <1>1, <1>a DEF Allocate
  <2>5. UNCHANGED <<ReadyQueues, Holdings>>
    BY Zenon, <1>1 DEF Allocate, Matrix
  <2>6. Ownership!Allocate(c, s.devices)
    BY Zenon, <2>2, <2>3, <2>4, <2>5 DEF Ownership!Allocate
  <2> QED
    BY Zenon, <2>1, <2>6 DEF Ownership!Next
<1>2. ASSUME NEW c \in Claims, Deallocate(c)
      PROVE  Ownership!Next
  <2>1. Holdings[c] = {}
    BY Zenon, <1>2, <1>a, <1>b DEF Deallocate, ClaimInv, MdevsOK
  <2>2. Allocated' = [Allocated EXCEPT ![c] = {}]
    BY Zenon, <1>2, <1>a DEF Deallocate
  <2>3. UNCHANGED <<ReadyQueues, Holdings>>
    BY Zenon, <1>2 DEF Deallocate, Matrix
  <2>4. Ownership!Deallocate(c)
    BY Zenon, <2>1, <2>2, <2>3 DEF Ownership!Deallocate
  <2> QED
    BY Zenon, <2>4 DEF Ownership!Next
<1>3. ASSUME NEW ok \in BOOLEAN, SwitchStep(ok), UNCHANGED claimVars
      PROVE  Ownership!Next
  <2>1. PICK q \in Queues :
           \A x \in Queues \ {q} : driver'[x] = driver[x] /\ override'[x] = override[x]
    BY Zenon, <1>3, SwitchOneQueue
  <2>2. UNCHANGED <<mdevs, apm, aqm, phase, spec>>
    BY Zenon, <1>3, SwitchFrame
  <2>3. UNCHANGED <<Allocated, Holdings>>
    BY Zenon, <2>2 DEF Matrix
  <2>4. CASE q \in ReadyQueues'
    <3>1. ReadyQueues' = ReadyQueues \cup {q}
      BY Zenon, <2>1, <2>4
    <3>2. Ownership!MakeReady(q)
      BY Zenon, <2>3, <3>1 DEF Ownership!MakeReady
    <3> QED
      BY Zenon, <3>2 DEF Ownership!Next
  <2>5. CASE q \notin ReadyQueues'
    <3>1. ReadyQueues' = ReadyQueues \ {q}
      BY Zenon, <2>1, <2>5
    <3>2. q \notin Claimed(mdevs)'
      BY Zenon, <2>5 DEF ClaimedQueuesBound
    <3>3. q \notin UNION {Holdings[u] : u \in Uuids}
      BY Zenon, <2>2, <3>2, ClaimedIsAll DEF Claimed, Matrix
    <3>4. Ownership!TakeBack(q)
      BY Zenon, <2>3, <3>1, <3>3 DEF Ownership!TakeBack, Ownership!Held
    <3> QED
      BY Zenon, <3>4 DEF Ownership!Next
  <2> QED
    BY Zenon, <2>4, <2>5
<1>4. ASSUME UNCHANGED queueVars, Allocated' = Allocated
      PROVE  Goal
  <2>1. ReadyQueues' = ReadyQueues
    BY Zenon, <1>4
  <2>2. CASE \A u \in Uuids : Matrix(u)' = Matrix(u)
    <3>1. Holdings' = Holdings
      BY Zenon, <2>2
    <3> QED
      BY Zenon, <1>4, <2>1, <3>1 DEF Ownership!vars
  <2>3. ASSUME NEW x \in Uuids, \A u \in Uuids \ {x} : Matrix(u)' = Matrix(u), Matrix(x)' = {}
        PROVE  Ownership!Next
    <3>1. Holdings' = [Holdings EXCEPT ![x] = {}]
      BY Zenon, <2>3
    <3>2. Ownership!Revoke(x)
      BY Zenon, <1>4, <2>1, <3>1 DEF Ownership!Revoke
    <3> QED
      BY Zenon, <3>2 DEF Ownership!Next
  <2>4. ASSUME pc = "assign", claim' = claim, spec' = spec, claim \in Claims \cap mdevs',
               \A u \in Uuids \ {claim} : Matrix(u)' = Matrix(u),
               Matrix(claim) \subseteq apm'[claim] \X aqm'[claim],
               apm'[claim] \X aqm'[claim] \subseteq spec[claim].devices
        PROVE  Ownership!Next
    <3> DEFINE qs == apm'[claim] \X aqm'[claim]
    <3>1. phase[claim] # "free"
      BY Zenon, <2>4 DEF ClaimInv, OperationOK, PrepareSteps
    <3>2. qs \in SUBSET Queues
      BY Zenon, <1>a, <2>4, DevicesAreQueues
    <3>3. qs \subseteq Claimed(mdevs)'
      BY Zenon, <2>4 DEF Claimed, Matrix
    <3>4. qs \subseteq ReadyQueues
      BY Zenon, <1>4, <3>2, <3>3 DEF ClaimedQueuesBound
    <3>5. qs \subseteq Allocated[claim]
      BY Zenon, <2>4, <3>1
    <3>6. Holdings' = [Holdings EXCEPT ![claim] = @ \cup qs]
      <4>1. claim \in Uuids /\ Matrix(claim)' = Matrix(claim) \cup qs
        BY Zenon, <1>a, <2>4 DEF Matrix
      <4> QED
        BY Zenon, <2>4, <4>1
    <3> HIDE DEF qs
    <3>7. Ownership!Grant(claim, qs)
      BY Zenon, <1>4, <2>1, <3>4, <3>5, <3>6 DEF Ownership!Grant
    <3> QED
      BY <2>4, <3>2, <3>7 DEF Ownership!Next
  <2> QED
    BY Zenon, <2>2, <2>3, <2>4, MatrixFrame
<1> HIDE DEF Goal, Allocated, ReadyQueues, Holdings
<1>5. ASSUME \E c \in Claims : Deallocate(c) \/ \E s \in Specs : Allocate(c, s)
      PROVE  Ownership!Next
  BY Zenon, <1>1, <1>2, <1>5
<1>6. ASSUME \E ok \in BOOLEAN : SwitchStep(ok) /\ UNCHANGED claimVars
      PROVE  Ownership!Next
  BY Zenon, <1>3, <1>6
<1> QED
  BY <1>4, <1>5, <1>6, AllocationFrame, AllocatedKept, QueueFrame DEF Goal

\* The driver implements QueueOwnership, unless reading the matrix of a live mdev
\* fails: a queue is handed to a guest only while it is ready and allocated to
\* the guest's claim, and taken back only once no mdev holds it.
THEOREM OwnershipKept ==
    ASSUME "matrix_read" \notin Faults
    PROVE  Spec => KeepsOwnership
<1>1. BindingInv /\ BindingInv' /\ [Next]_vars => [Ownership!Next]_(Ownership!vars)
  <2>1. BindingInv => ClaimInv /\ ClaimedQueuesBound
    BY Zenon DEF BindingInv
  <2>2. BindingInv' => ClaimedQueuesBound'
    BY Zenon DEF BindingInv
  <2>3. UNCHANGED vars => UNCHANGED Ownership!vars
    BY Zenon DEF Ownership!vars, Matrix
  <2> QED
    BY Zenon, <2>1, <2>2, <2>3, OwnershipStep
<1> QED
  BY <1>1, OwnershipInit, BindingSafe, PTL DEF Spec, KeepsOwnership, Ownership!Spec
=============================================================================
